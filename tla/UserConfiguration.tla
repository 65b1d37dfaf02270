------------------------- MODULE UserConfiguration -------------------------
(***************************************************************************)
(* The user's configuration file, which names the directories of the user  *)
(* collection (KIM_CollectionsImplementation.cpp), with the processes that *)
(* read and rewrite it.                                                    *)
(*                                                                         *)
(* Every look-up in the user collection reads the file, creates it when it *)
(* cannot be opened, and rewrites it when its third line cannot be read.   *)
(* The command set-user-...-dir of kim-api-collections-management looks up *)
(* the three settings, twice, each time in a process of its own, and       *)
(* writes all of them back with one changed.  Nothing locks the file, and  *)
(* it is written by truncating it first and filling it at the end.         *)
(*                                                                         *)
(* A line is its identifier and its list of directories; the text below    *)
(* the third line is never read and is left out, as are the strings.  What *)
(* a process writes replaces the file from its start, so the file is what  *)
(* was written last.                                                       *)
(***************************************************************************)
EXTENDS Naturals, Sequences, FiniteSets

CONSTANTS
  Processes,          \* simulators, utilities and scripts of one user
  Setters,            \* those that may run set-user-...-dir
  Directories,
  NoFile,             \* the file cannot be opened for reading
  NoRequest,          \* a process that only looks up
  Requests,           \* the settings scripts may change: a type and a directory
  Capacity,           \* how many directories fit on a line of LINELEN - 1 characters
  Default,            \* KIM_USER_MODEL_DRIVERS_DIR_DEFAULT and its like
  InitialFiles,       \* what the file may be before these processes start
  InitialDirectories, \* the directories that exist then
  MayCrash,           \* whether processes may be killed
  MayFail             \* whether the file system may refuse an operation

Types == {"modelDriver", "portableModel", "simulatorModel"}
LineOf == [modelDriver |-> 1, portableModel |-> 2, simulatorModel |-> 3]
Identifier == [modelDriver |-> "model-drivers-dir",
               portableModel |-> "portable-models-dir",
               simulatorModel |-> "simulator-models-dir"]
Deprecated == [modelDriver |-> {}, portableModel |-> {"models-dir"}, simulatorModel |-> {}]

\* "other" is any other word, "blank" a line without a word.
Identifiers == {Identifier[t] : t \in Types} \cup {"models-dir", "other", "blank"}
Line == [identifier : Identifiers, paths : Seq(Directories)]

\* A PathList.  It is joined when its directories are one path with line breaks
\* in between, as the script gets them from the output of collections-info.
List == [paths : Seq(Directories), joined : BOOLEAN]
Plain(s) == [paths |-> s, joined |-> FALSE]
NoList == Plain(<<>>)
NoDirs == [t \in Types |-> NoList]
Request == [type : Types, directory : Directories]

ASSUME ConfigurationAssumption ==
  /\ Setters \subseteq Processes
  /\ Capacity \in Nat \ {0}
  /\ Default \in [Types -> Directories]
  /\ NoFile \notin Seq(Line) /\ InitialFiles \subseteq Seq(Line) \cup {NoFile}
  /\ Requests \subseteq Request /\ NoRequest \notin Request
  /\ InitialDirectories \subseteq Directories
  /\ MayCrash \in BOOLEAN /\ MayFail \in BOOLEAN

VARIABLES
  file,        \* the configuration file
  made,        \* the directories that exist
  pc,          \* the next step of each process
  dirsMap,     \* the map PrivateGetUserDirs fills or the utility writes
  request,     \* the setting a script changes
  round,       \* 1..3: look-ups of check_config_file; 4..6: of rewrite_config_file_item_type_dir
  gathered,    \* the settings the script has read in rounds 4..6
  answer,      \* what the last look-up or script returned
  chosen,      \* history: the settings the user made last
  truncated,   \* history: a process has truncated the file
  abandoned    \* history: and one that did was stopped; nobody has filled it since

vars == <<file, made, pc, dirsMap, request, round, gathered, answer, chosen, truncated, abandoned>>
script == <<request, round, gathered>>
history == <<chosen, truncated, abandoned>>

Stage == {"idle", "opening", "reading", "creating", "making", "writing",
          "makingSimulator", "reopening", "rewriting"}
Truncating == {"making", "writing", "rewriting"}   \* between truncation and write
Answer == [error : BOOLEAN, dirs : [Types -> List]]

Goes(p, s) == pc' = [pc EXCEPT ![p] = s]
DefaultDirs == [t \in Types |-> Plain(<<Default[t]>>)]
DirectoriesIn(dirs) ==
  UNION {IF dirs[t].joined THEN {} ELSE {dirs[t].paths[i] : i \in DOMAIN dirs[t].paths} : t \in Types}

(***************************************************************************)
(* The text of the file.                                                   *)
(***************************************************************************)
\* The lines a setting takes: a joined list breaks its line.
LinesOf(t, list) ==
  IF list.joined
  THEN [i \in 1..Len(list.paths) |->
         IF i = 1 THEN [identifier |-> Identifier[t], paths |-> <<list.paths[1]>>]
         ELSE [identifier |-> "other", paths |-> <<>>]]
  ELSE << [identifier |-> Identifier[t], paths |-> list.paths] >>

TextOf(dirs) ==
  LinesOf("modelDriver", dirs["modelDriver"]) \o LinesOf("portableModel", dirs["portableModel"])
    \o LinesOf("simulatorModel", dirs["simulatorModel"])

\* getline succeeds for the lines up to that of type t: they exist, and none
\* of them fills the buffer.
Readable(lines, t) ==
  /\ LineOf[t] <= Len(lines)
  /\ \A i \in 1..LineOf[t] : Len(lines[i].paths) <= Capacity

\* ProcessConfigFileLine returns no error.
Accepted(lines, t) ==
  LET line == lines[LineOf[t]]
  IN  /\ Readable(lines, t)
      /\ line.identifier \in {Identifier[t]} \cup Deprecated[t]
      /\ line.paths # <<>>

Reached(lines, t) == \A u \in Types : LineOf[u] < LineOf[t] => Accepted(lines, u)

\* What dirsMap holds when PrivateGetUserDirs has gone through the lines.
ReadDirs(lines) ==
  [t \in Types |-> IF Reached(lines, t) /\ Accepted(lines, t)
                   THEN Plain(lines[LineOf[t]].paths) ELSE NoList]

\* Fault: the second line is not required.
NeedsRewriteEarly(lines) ==
  Accepted(lines, "modelDriver") /\ ~Readable(lines, "simulatorModel")

\* The third line cannot be read: an old file, rewritten with a third line.
NeedsRewrite(lines) ==
  Reached(lines, "simulatorModel") /\ ~Readable(lines, "simulatorModel")

ReadFails(lines) ==
  ~NeedsRewrite(lines) /\ \E t \in Types : ~Accepted(lines, t)

\* A line without a word: strtok returns a null pointer, which strcmp reads.
ReadCrashes(lines) ==
  \E t \in Types : /\ Reached(lines, t) /\ Readable(lines, t)
                   /\ lines[LineOf[t]].identifier = "blank"

Usable(f) == f # NoFile /\ \A t \in Types : Accepted(f, t)

\* What the user had set in the file f.
SettingsIn(f) ==
  [t \in Types |->
    IF f # NoFile /\ LineOf[t] <= Len(f)
         /\ f[LineOf[t]].identifier \in {Identifier[t]} \cup Deprecated[t]
    THEN Plain(f[LineOf[t]].paths) ELSE Plain(<<Default[t]>>)]

Init ==
  /\ file \in InitialFiles
  /\ made = InitialDirectories
  /\ pc = [p \in Processes |-> "idle"]
  /\ dirsMap = [p \in Processes |-> NoDirs]
  /\ request = [p \in Processes |-> NoRequest]
  /\ round = [p \in Processes |-> 0]
  /\ gathered = [p \in Processes |-> NoDirs]
  /\ answer = [p \in Processes |-> [error |-> FALSE, dirs |-> NoDirs]]
  /\ chosen = SettingsIn(file)
  /\ truncated = FALSE
  /\ abandoned = FALSE

(***************************************************************************)
(* What the callers of PrivateGetUserDirs do when it returns: a look-up    *)
(* keeps the answer; the script, for which collections-info looked up one  *)
(* type, goes on with the next.                                            *)
(***************************************************************************)
Resets(p) ==
  /\ Goes(p, "idle")
  /\ dirsMap' = [dirsMap EXCEPT ![p] = NoDirs]
  /\ request' = [request EXCEPT ![p] = NoRequest]
  /\ round' = [round EXCEPT ![p] = 0]
  /\ gathered' = [gathered EXCEPT ![p] = NoDirs]

Answers(p, error, dirs) ==
  answer' = [answer EXCEPT ![p] = [error |-> error, dirs |-> dirs]]

ScriptAborts(p) == Resets(p) /\ Answers(p, TRUE, NoDirs)

\* Fault: one of the six calls names another type.
AskedTwice(p) ==
  CASE round[p] \in {1, 4, 5} -> "modelDriver"
    [] round[p] = 2 -> "portableModel"
    [] OTHER -> "simulatorModel"

Asked(p) ==
  CASE round[p] \in {1, 4} -> "modelDriver"
    [] round[p] \in {2, 5} -> "portableModel"
    [] OTHER -> "simulatorModel"

\* The output of collections-info, a line for each directory, as one argument
\* of write_config_file
Printed(list) == [paths |-> list.paths, joined |-> Len(list.paths) > 1]

\* check_config_file and rewrite_config_file_item_type_dir after the look-up of a round
ScriptReads(p, list) ==
  LET known == IF round[p] <= 3 THEN gathered[p]
               ELSE [gathered[p] EXCEPT ![Asked(p)] = Printed(list)]
      wanted == [known EXCEPT ![request[p].type] = Plain(<<request[p].directory>>)]
      invalid == \/ round[p] <= 3 /\ list.paths = <<>>
                 \/ round[p] = 3 /\ request[p].directory \notin made'
                 \/ round[p] = 6 /\ \E t \in Types : wanted[t].paths = <<>>
  IN  \/ invalid /\ ScriptAborts(p)
      \/ /\ ~invalid /\ round[p] < 6
         /\ Goes(p, "opening")
         /\ round' = [round EXCEPT ![p] = @ + 1]
         /\ gathered' = [gathered EXCEPT ![p] = known]
         /\ dirsMap' = [dirsMap EXCEPT ![p] = NoDirs]
         /\ UNCHANGED <<request, answer>>
      \/ /\ ~invalid /\ round[p] = 6
         /\ Goes(p, "creating")
         /\ round' = [round EXCEPT ![p] = 7]
         /\ gathered' = [gathered EXCEPT ![p] = NoDirs]
         /\ dirsMap' = [dirsMap EXCEPT ![p] = wanted]
         /\ UNCHANGED <<request, answer>>

UserDirsReturns(p, error, dirs) ==
  \/ /\ request[p] = NoRequest
     /\ Resets(p) /\ Answers(p, error, dirs)
  \/ /\ request[p] # NoRequest
     /\ ScriptReads(p, IF error THEN NoList ELSE dirs[Asked(p)])

(***************************************************************************)
(* The calls.                                                              *)
(***************************************************************************)
BeginLookUp(p) ==
  /\ pc[p] = "idle"
  /\ Goes(p, "opening")
  /\ UNCHANGED <<file, made, dirsMap, script, answer, history>>

BeginSet(p, r) ==
  /\ p \in Setters
  /\ pc[p] = "idle"
  /\ Goes(p, "opening")
  /\ request' = [request EXCEPT ![p] = r]
  /\ round' = [round EXCEPT ![p] = 1]
  /\ UNCHANGED <<file, made, dirsMap, gathered, answer, history>>

(***************************************************************************)
(* PrivateGetUserDirs                                                      *)
(***************************************************************************)
OpenConfigurationFile(p) ==
  /\ pc[p] = "opening"
  /\ IF file = NoFile
     THEN Goes(p, "creating") /\ dirsMap' = [dirsMap EXCEPT ![p] = DefaultDirs]
     ELSE Goes(p, "reading") /\ UNCHANGED dirsMap
  /\ UNCHANGED <<file, made, script, answer, history>>

\* Fault: the drivers' line of an old file is not taken over.
ReadConfigurationFileForgets(p) ==
  /\ pc[p] = "reading" /\ ~ReadCrashes(file)
  /\ UNCHANGED <<file, made, history>>
  /\ \/ /\ NeedsRewrite(file)
        /\ Goes(p, "makingSimulator")
        /\ dirsMap' = [dirsMap EXCEPT ![p] = DefaultDirs]
        /\ UNCHANGED <<script, answer>>
     \/ /\ ~NeedsRewrite(file)
        /\ UserDirsReturns(p, ReadFails(file), ReadDirs(file))

\* The first getline reads the whole of a file of this size.
ReadConfigurationFile(p) ==
  /\ pc[p] = "reading" /\ ~ReadCrashes(file)
  /\ UNCHANGED <<file, made, history>>
  /\ \/ /\ NeedsRewrite(file)
        /\ Goes(p, "makingSimulator")
        /\ dirsMap' = [dirsMap EXCEPT
             ![p] = [ReadDirs(file) EXCEPT !["simulatorModel"] = DefaultDirs["simulatorModel"]]]
        /\ UNCHANGED <<script, answer>>
     \/ /\ ~NeedsRewrite(file)
        /\ UserDirsReturns(p, ReadFails(file), ReadDirs(file))

ReadKillsProcess(p) ==
  /\ pc[p] = "reading" /\ ReadCrashes(file)
  /\ Resets(p)
  /\ UNCHANGED <<file, made, answer, history>>

MakeSimulatorDirectory(p) ==
  /\ pc[p] = "makingSimulator"
  /\ made' = made \cup DirectoriesIn([NoDirs EXCEPT !["simulatorModel"] = dirsMap[p]["simulatorModel"]])
  /\ Goes(p, "reopening")
  /\ UNCHANGED <<file, dirsMap, script, answer, history>>

MakeSimulatorDirectoryFails(p) ==
  /\ MayFail /\ pc[p] = "makingSimulator"
  /\ UNCHANGED <<file, made, history>>
  /\ UserDirsReturns(p, TRUE, dirsMap[p])

\* ofstream::open truncates.
ReopenConfigurationFile(p) ==
  /\ pc[p] = "reopening"
  /\ file' = <<>> /\ truncated' = TRUE
  /\ Goes(p, "rewriting")
  /\ UNCHANGED <<made, dirsMap, script, answer, chosen, abandoned>>

\* Nobody looks whether it is open: the lines go nowhere.
ReopenFails(p) ==
  /\ MayFail /\ pc[p] = "reopening"
  /\ UNCHANGED <<file, made, history>>
  /\ UserDirsReturns(p, FALSE, dirsMap[p])

RewriteConfigurationFile(p) ==
  /\ pc[p] = "rewriting"
  /\ file' = TextOf(dirsMap[p]) /\ abandoned' = FALSE
  /\ UNCHANGED <<made, chosen, truncated>>
  /\ UserDirsReturns(p, FALSE, dirsMap[p])

(***************************************************************************)
(* WriteConfigurationFileAndCreateDirectories, for the library, which      *)
(* ignores what it returns, and for the utility.                           *)
(***************************************************************************)
WriteReturns(p, error) ==
  IF round[p] # 7
  THEN UserDirsReturns(p, FALSE, dirsMap[p]) /\ UNCHANGED chosen
  ELSE /\ Resets(p)
       /\ Answers(p, error, IF error THEN NoDirs ELSE dirsMap[p])
       /\ chosen' = IF error THEN chosen
                    ELSE [chosen EXCEPT ![request[p].type] = Plain(<<request[p].directory>>)]

CreateConfigurationFile(p) ==
  /\ pc[p] = "creating"
  /\ file' = <<>> /\ truncated' = TRUE
  /\ Goes(p, "making")
  /\ UNCHANGED <<made, dirsMap, script, answer, chosen, abandoned>>

\* The directory of the file cannot be made, or the file not be opened.
CreateFails(p) ==
  /\ MayFail /\ pc[p] = "creating"
  /\ UNCHANGED <<file, made, truncated, abandoned>>
  /\ WriteReturns(p, TRUE)

MakeDirectories(p) ==
  /\ pc[p] = "making"
  /\ made' = made \cup DirectoriesIn(dirsMap[p])
  /\ Goes(p, "writing")
  /\ UNCHANGED <<file, dirsMap, script, answer, history>>

\* Some are made, one is not, and the file stays empty.
MakeDirectoriesFails(p) ==
  /\ MayFail /\ pc[p] = "making"
  /\ \E some \in SUBSET DirectoriesIn(dirsMap[p]) : made' = made \cup some
  /\ abandoned' = TRUE
  /\ UNCHANGED <<file, truncated>>
  /\ WriteReturns(p, TRUE)

\* Fault: an error return before the lines are written.
WriteConfigurationFileSkipped(p) ==
  /\ pc[p] = "writing"
  /\ UNCHANGED <<file, made, truncated, abandoned>>
  /\ WriteReturns(p, FALSE)

WriteConfigurationFile(p) ==
  /\ pc[p] = "writing"
  /\ file' = TextOf(dirsMap[p]) /\ abandoned' = FALSE
  /\ UNCHANGED <<made, truncated>>
  /\ WriteReturns(p, FALSE)

\* A process is killed.
Crash(p) ==
  /\ MayCrash /\ pc[p] # "idle"
  /\ Resets(p)
  /\ abandoned' = (abandoned \/ pc[p] \in Truncating)
  /\ UNCHANGED <<file, made, answer, chosen, truncated>>

\* The steps of a call that has begun.
Step(p) ==
  \/ OpenConfigurationFile(p)   \/ ReadConfigurationFile(p) \/ ReadKillsProcess(p)
  \/ MakeSimulatorDirectory(p)  \/ MakeSimulatorDirectoryFails(p)
  \/ ReopenConfigurationFile(p) \/ ReopenFails(p) \/ RewriteConfigurationFile(p)
  \/ CreateConfigurationFile(p) \/ CreateFails(p)
  \/ MakeDirectories(p)         \/ MakeDirectoriesFails(p)
  \/ WriteConfigurationFile(p)

Next ==
  \E p \in Processes :
    \/ BeginLookUp(p)
    \/ \E r \in Requests : BeginSet(p, r)
    \/ Step(p)
    \/ Crash(p)

Spec == Init /\ [][Next]_vars

\* A process that runs a call goes on with it; nobody has to begin one.
FairSpec == Spec /\ \A p \in Processes : WF_vars(Step(p))

(***************************************************************************)
(* What must hold.                                                         *)
(***************************************************************************)
\* The variables have their types.
TypeOK ==
  /\ file \in Seq(Line) \cup {NoFile}
  /\ made \subseteq Directories
  /\ pc \in [Processes -> Stage]
  /\ dirsMap \in [Processes -> [Types -> List]]
  /\ request \in [Processes -> Requests \cup {NoRequest}]
  /\ round \in [Processes -> 0..7]
  /\ gathered \in [Processes -> [Types -> List]]
  /\ answer \in [Processes -> Answer]
  /\ chosen \in [Types -> List]
  /\ truncated \in BOOLEAN /\ abandoned \in BOOLEAN

\* Once a process has truncated the file, it is a configuration the library
\* accepts, except while a process is still between truncating and writing it
\* and after one was stopped there: every other way out of the rewrite and of
\* WriteConfigurationFileAndCreateDirectories fills it, with lists of every type.
WrittenFilesAreUsable ==
  truncated => \/ Usable(file) \/ abandoned
               \/ \E p \in Processes : pc[p] \in Truncating

\* A file that a process has written names a directory for simulator models
\* that exists: directories are made before the file says so.
WrittenDirectoriesExist ==
  truncated /\ Usable(file) =>
    \A i \in DOMAIN ReadDirs(file)["simulatorModel"].paths :
      ReadDirs(file)["simulatorModel"].paths[i] \in made

\* The file that is in use says what the user set last, whatever processes
\* create, rewrite or set meanwhile.
SettingsAreTheUsersChoice ==
  Usable(file) => ReadDirs(file) = chosen

\* A look-up of a configuration that nobody edits returns no error.
LookUpsSucceed == \A p \in Processes : ~answer[p].error

\* A truncated file gets its content: no writer waits for anybody.
TruncatedFileIsWritten == file = <<>> ~> Usable(file)

\* A file that does not exist is created, for good or by a later look-up.
\* (The code does not keep this: README, "What the documentation says and the code does not do".)
ConfigurationIsCreated ==
  \A p \in Processes : (pc[p] = "creating") ~> Usable(file)

\* A directory that exists, once a script sets it, comes to stand in the file.
SetTakesEffect ==
  \A p \in Setters, r \in Requests :
    (request[p] = r /\ r.directory \in made)
      ~> (Usable(file) /\ ReadDirs(file)[r.type] = Plain(<<r.directory>>))

(***************************************************************************)
(* What the file is for: settings that change one at a time, and look-ups  *)
(* that return all of them as they are at one moment.  While the file is   *)
(* truncated the settings are those about to be written.                   *)
(***************************************************************************)
Writers == {p \in Processes : pc[p] \in Truncating}
CurrentSettings ==
  IF file = <<>> /\ Writers # {} THEN dirsMap[CHOOSE p \in Writers : TRUE]
  ELSE SettingsIn(file)

Abstract == INSTANCE AbstractConfiguration
              WITH settings <- CurrentSettings, answers <- answer

\* Every step is a step of AbstractConfiguration or leaves it alone: one script
\* and any number of look-ups work on the file as if each were atomic.
ImplementsAbstractConfiguration == Abstract!Spec

\* The variables have their types, and what processes leave as a configuration, whenever
\* they fail or are killed, can be read and names directories that exist.
WrittenFilesAreSound == TypeOK /\ WrittenFilesAreUsable /\ WrittenDirectoriesExist
=============================================================================
