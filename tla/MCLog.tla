------------------------------- MODULE MCLog -------------------------------
(***************************************************************************)
(* Values for the constants of Log in the runs of TLC: the library's print *)
(* function and two of a simulator in other languages, one of which gives  *)
(* a language that is not known; two identities that SanitizeID identifies.*)
(***************************************************************************)
EXTENDS Log, TLC

Languages == "global" :> "cpp" @@ "printc" :> "c" @@ "printx" :> "unknown"
Sanitizer == "a*b" :> "a_b" @@ "a_b" :> "a_b"
SomeLevels == {-1, 0, 4}
AllCalls ==
  { "PushDefaultVerbosity", "PopDefaultVerbosity", "PushDefaultPrintFunction", "PopDefaultPrintFunction",
    "LogEntry", "SetID", "PushVerbosity", "PopVerbosity", "Create", "Destroy" }
AnyObjects == SUBSET Logs

\* Time passes and levels change while the defaults are those of the start; the
\* defaults change while objects write an entry or two.
Started == defaultLogVerbosity = <<MaximumLevel>> /\ defaultLogPrintFunctionPointer = <<Global>>
Bounds ==
  \/ Started /\ defaultLogPrintFunctionLanguageName = <<"cpp">>
  \/ /\ clock = 0
     /\ \A l \in Logs : /\ logs[l].exists => logs[l].sequence <= 1 /\ logs[l].id = "a_b"
                         /\ Len(logs[l].verbosity) <= 1
=============================================================================
