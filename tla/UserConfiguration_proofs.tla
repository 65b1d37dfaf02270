----------------------- MODULE UserConfiguration_proofs -----------------------
(***************************************************************************)
(* What the processes keep of the user's configuration file, for any       *)
(* number of them, any files they find and whatever fails: a file that was *)
(* truncated is whole again or somebody was stopped, its directories       *)
(* exist, look-ups lose nothing that the user had set, and one script and  *)
(* any number of look-ups are as if each were atomic.                      *)
(***************************************************************************)
EXTENDS UserConfiguration, SequenceTheorems, TLAPS

-----------------------------------------------------------------------------
(* The three lines and the lists. *)

LEMMA TypesAndLines ==
  /\ Types = {"modelDriver", "portableModel", "simulatorModel"}
  /\ LineOf["modelDriver"] = 1 /\ LineOf["portableModel"] = 2 /\ LineOf["simulatorModel"] = 3
  /\ \A t \in Types : LineOf[t] \in 1..3 /\ Identifier[t] \in Identifiers
  /\ \A t, u \in Types : LineOf[t] = LineOf[u] => t = u
BY DEF Types, LineOf, Identifiers

\* A list that can be written on a line; a script can only take over single directories.
Fits(list) ==
  /\ ~list.joined
  /\ Len(list.paths) <= Capacity
  /\ Setters # {} => Len(list.paths) <= 1

FitsAll(dirs) == \A t \in Types : Fits(dirs[t])
Full(dirs) == \A t \in Types : dirs[t].paths # <<>>

\* Where there are scripts, no line that can be read has more than one directory.
LinesFit(f) ==
  f # NoFile /\ Setters # {} =>
    \A i \in 1..Len(f) : Len(f[i].paths) <= Capacity => Len(f[i].paths) <= 1

Lists == [Types -> List]

LEMMA PlainLists ==
  /\ \A s \in Seq(Directories) : Plain(s) \in List /\ Plain(s).paths = s /\ ~Plain(s).joined
  /\ \A d \in Directories : <<d>> \in Seq(Directories) /\ Len(<<d>>) = 1 /\ <<d>> # <<>>
  /\ Len(<<>>) = 0 /\ <<>> \in Seq(Directories)
  /\ NoList \in List /\ NoList.paths = <<>> /\ ~NoList.joined
BY DEF Plain, List, NoList

LEMMA OneDirectory ==
  ASSUME NEW d \in Directories
  PROVE  LET list == Plain(<<d>>) IN list \in List /\ Fits(list) /\ list.paths = <<d>> /\ list.paths # <<>>
<1>1. Capacity \in Nat /\ Capacity >= 1
  BY ConfigurationAssumption
<1>2. <<d>> \in Seq(Directories) /\ Len(<<d>>) = 1 /\ <<d>> # <<>>
  OBVIOUS
<1> DEFINE s == <<d>>
<1> HIDE DEF s
<1>3. Plain(s) \in List /\ Plain(s).paths = s /\ ~Plain(s).joined
  BY <1>2, PlainLists DEF s
<1>4. Fits(Plain(s))
  <2>1. Len(s) = 1
    BY <1>2 DEF s
  <2> QED BY <1>1, <1>3, <2>1 DEF Fits
<1> QED BY <1>2, <1>3, <1>4 DEF s

LEMMA NoDirsFit ==
  NoDirs \in Lists /\ FitsAll(NoDirs) /\ \A t \in Types : NoDirs[t] = NoList
<1>1. Capacity \in Nat
  BY ConfigurationAssumption
<1> QED BY <1>1, PlainLists DEF NoDirs, Lists, FitsAll, Fits

LEMMA DefaultDirsFit ==
  /\ DefaultDirs \in Lists /\ FitsAll(DefaultDirs) /\ Full(DefaultDirs)
  /\ \A t \in Types : DefaultDirs[t] = Plain(<<Default[t]>>) /\ Default[t] \in Directories
<1>1. \A t \in Types : Default[t] \in Directories /\ DefaultDirs[t] = Plain(<<Default[t]>>)
  BY ConfigurationAssumption DEF DefaultDirs
<1> QED BY <1>1, OneDirectory DEF DefaultDirs, Lists, FitsAll, Full

LEMMA ListFields ==
  ASSUME NEW list \in List
  PROVE  list.paths \in Seq(Directories) /\ Len(list.paths) \in Nat /\ list.joined \in BOOLEAN
         /\ (~list.joined => list = Plain(list.paths))
BY LenProperties DEF List, Plain

LEMMA ThreeLines ==
  ASSUME NEW S, NEW a \in S, NEW b \in S, NEW c \in S
  PROVE  <<a>> \o <<b>> \o <<c>> = <<a, b, c>>
<1> DEFINE x == <<a>>  y == <<b>>  z == <<c>>  r == <<a, b, c>>
<1>1. /\ x \in Seq(S) /\ Len(x) = 1 /\ x[1] = a
      /\ y \in Seq(S) /\ Len(y) = 1 /\ y[1] = b
      /\ z \in Seq(S) /\ Len(z) = 1 /\ z[1] = c
      /\ r \in Seq(S) /\ Len(r) = 3 /\ r[1] = a /\ r[2] = b /\ r[3] = c
  OBVIOUS
<1> HIDE DEF x, y, z, r
<1> DEFINE p == x \o y  q == p \o z
<1>2. p \in Seq(S) /\ Len(p) = 2 /\ p[1] = a /\ p[2] = b
  <2>1. /\ p \in Seq(S) /\ Len(p) = Len(x) + Len(y)
        /\ \A i \in 1..Len(x) + Len(y) : p[i] = IF i <= Len(x) THEN x[i] ELSE y[i - Len(x)]
    BY <1>1, ConcatProperties
  <2> QED BY <1>1, <2>1
<1> HIDE DEF p
<1>3. q \in Seq(S) /\ Len(q) = 3 /\ q[1] = a /\ q[2] = b /\ q[3] = c
  <2>1. /\ q \in Seq(S) /\ Len(q) = Len(p) + Len(z)
        /\ \A i \in 1..Len(p) + Len(z) : q[i] = IF i <= Len(p) THEN p[i] ELSE z[i - Len(p)]
    BY <1>1, <1>2, ConcatProperties
  <2> QED BY <1>1, <1>2, <2>1
<1> HIDE DEF q
<1>4. \A i \in 1..Len(q) : q[i] = r[i]
  <2>1. \A i \in 1..3 : i = 1 \/ i = 2 \/ i = 3
    OBVIOUS
  <2> QED BY <1>1, <1>3, <2>1
<1>5. q = r
  BY <1>1, <1>3, <1>4, SeqEqual
<1> QED BY <1>5 DEF p, q, x, y, z, r

\* What is written of lists that fit is three lines, and reading them gives the lists.
LEMMA TextOfLists ==
  ASSUME NEW dirs \in Lists, \A t \in Types : ~dirs[t].joined
  PROVE  LET f == TextOf(dirs)
         IN  /\ f \in Seq(Line) /\ f # NoFile /\ Len(f) = 3
             /\ \A t \in Types : f[LineOf[t]] = [identifier |-> Identifier[t], paths |-> dirs[t].paths]
<1> DEFINE line(t) == [identifier |-> Identifier[t], paths |-> dirs[t].paths]
           a == line("modelDriver")  b == line("portableModel")  c == line("simulatorModel")
<1>1. \A t \in Types : line(t) \in Line /\ LinesOf(t, dirs[t]) = <<line(t)>>
  <2>1. TAKE t \in Types
  <2>2. dirs[t] \in List
    BY DEF Lists
  <2> QED BY <2>2, ListFields, TypesAndLines DEF Line, LinesOf
<1>2. TextOf(dirs) = <<a>> \o <<b>> \o <<c>>
  BY <1>1, TypesAndLines DEF TextOf
<1>3. a \in Line /\ b \in Line /\ c \in Line
  BY <1>1, TypesAndLines
<1> HIDE DEF a, b, c
<1>4. <<a>> \o <<b>> \o <<c>> = <<a, b, c>>
  BY <1>3, ThreeLines
<1>5. <<a, b, c>> \in Seq(Line) /\ Len(<<a, b, c>>) = 3
  BY <1>3
<1>6. <<a, b, c>>[1] = a /\ <<a, b, c>>[2] = b /\ <<a, b, c>>[3] = c
  OBVIOUS
<1>7. <<a, b, c>> # NoFile
  BY <1>5, ConfigurationAssumption
<1> QED BY <1>2, <1>4, <1>5, <1>6, <1>7, TypesAndLines DEF a, b, c

LEMMA TextIsUsable ==
  ASSUME NEW dirs \in Lists, FitsAll(dirs), Full(dirs)
  PROVE  LET f == TextOf(dirs)
         IN  /\ f \in Seq(Line) /\ Usable(f) /\ f # <<>> /\ LinesFit(f)
             /\ ReadDirs(f) = dirs /\ SettingsIn(f) = dirs
             /\ ~NeedsRewrite(f) /\ ~ReadFails(f)
<1> DEFINE f == TextOf(dirs)
<1>1. /\ f \in Seq(Line) /\ f # NoFile /\ Len(f) = 3
      /\ \A t \in Types : f[LineOf[t]] = [identifier |-> Identifier[t], paths |-> dirs[t].paths]
  BY TextOfLists DEF FitsAll, Fits
<1> HIDE DEF f
<1>2. \A t \in Types : /\ f[LineOf[t]].identifier = Identifier[t] /\ f[LineOf[t]].paths = dirs[t].paths
                       /\ Len(dirs[t].paths) \in Nat /\ Plain(dirs[t].paths) = dirs[t]
  <2>1. TAKE t \in Types
  <2>2. dirs[t] \in List /\ ~dirs[t].joined
    BY DEF Lists, FitsAll, Fits
  <2>3. Len(dirs[t].paths) \in Nat /\ Plain(dirs[t].paths) = dirs[t]
    BY <2>2, ListFields
  <2>4. f[LineOf[t]] = [identifier |-> Identifier[t], paths |-> dirs[t].paths]
    BY <1>1
  <2> QED BY <2>3, <2>4
<1>3. \A i \in 1..3 : Len(f[i].paths) <= Capacity /\ (Setters # {} => Len(f[i].paths) <= 1)
  <2>1. TAKE i \in 1..3
  <2>2. PICK t \in Types : LineOf[t] = i
    BY TypesAndLines
  <2> QED BY <1>2, <2>2 DEF FitsAll, Fits
<1>4. \A t \in Types : Readable(f, t)
  BY <1>1, <1>3, TypesAndLines DEF Readable
<1>5. \A t \in Types : Accepted(f, t)
  BY <1>2, <1>4 DEF Accepted, Full
<1>6. \A t \in Types : Reached(f, t)
  BY <1>5 DEF Reached
<1>7. ReadDirs(f) = dirs
  BY <1>2, <1>5, <1>6 DEF ReadDirs, Lists
<1>8. SettingsIn(f) = dirs
  BY <1>1, <1>2, TypesAndLines DEF SettingsIn, Lists
<1>9. ~NeedsRewrite(f) /\ ~ReadFails(f)
  BY <1>4, <1>5, TypesAndLines DEF NeedsRewrite, ReadFails
<1>10. f # <<>> /\ LinesFit(f)
  <2>1. f # <<>>
    BY <1>1, EmptySeq
  <2> QED BY <1>1, <1>3, <2>1 DEF LinesFit
<1> QED BY <1>1, <1>5, <1>7, <1>8, <1>9, <1>10 DEF Usable, f

LEMMA EmptyFile ==
  /\ <<>> \in Seq(Line) /\ <<>> # NoFile /\ LinesFit(<<>>)
  /\ \A t \in Types : ~Readable(<<>>, t) /\ ~Accepted(<<>>, t)
  /\ ~Usable(<<>>) /\ ~NeedsRewrite(<<>>) /\ ReadFails(<<>>) /\ ReadDirs(<<>>) = NoDirs
  /\ ~ReadCrashes(<<>>)
<1>1. <<>> \in Seq(Line) /\ Len(<<>>) = 0 /\ <<>> # NoFile
  <2>1. <<>> \in Seq(Line) /\ Len(<<>>) = 0
    OBVIOUS
  <2> QED BY <2>1, ConfigurationAssumption
<1>2. \A t \in Types : ~Readable(<<>>, t) /\ ~Accepted(<<>>, t)
  BY <1>1, TypesAndLines DEF Readable, Accepted
<1>3. ~Reached(<<>>, "simulatorModel")
  BY <1>2, TypesAndLines DEF Reached
<1> QED BY <1>1, <1>2, <1>3, TypesAndLines
        DEF LinesFit, Usable, NeedsRewrite, ReadFails, ReadDirs, NoDirs, ReadCrashes

LEMMA ListsRead ==
  ASSUME NEW f \in Seq(Line), LinesFit(f), f # NoFile
  PROVE  /\ ReadDirs(f) \in Lists /\ FitsAll(ReadDirs(f))
         /\ \A t \in Types : Reached(f, t) /\ Accepted(f, t) =>
              ReadDirs(f)[t] = Plain(f[LineOf[t]].paths) /\ ReadDirs(f)[t].paths # <<>>
<1>1. ASSUME NEW t \in Types, Accepted(f, t)
      PROVE  LET list == Plain(f[LineOf[t]].paths) IN list \in List /\ Fits(list) /\ list.paths # <<>>
  <2>1. LineOf[t] \in 1..Len(f) /\ Len(f[LineOf[t]].paths) <= Capacity /\ f[LineOf[t]].paths # <<>>
    BY <1>1, TypesAndLines, LenProperties DEF Accepted, Readable
  <2>2. f[LineOf[t]] \in Line
    BY <2>1, ElementOfSeq
  <2>3. f[LineOf[t]].paths \in Seq(Directories)
    BY <2>2 DEF Line
  <2> QED BY <2>1, <2>3, PlainLists DEF Fits, LinesFit
<1>2. \A t \in Types : ReadDirs(f)[t] = IF Reached(f, t) /\ Accepted(f, t)
                                        THEN Plain(f[LineOf[t]].paths) ELSE NoList
  BY DEF ReadDirs
<1>3. \A t \in Types : ReadDirs(f)[t] \in List /\ Fits(ReadDirs(f)[t])
  BY <1>1, <1>2, NoDirsFit DEF FitsAll, Lists
<1>4. ReadDirs(f) \in Lists
  BY <1>3 DEF ReadDirs, Lists
<1> QED BY <1>1, <1>2, <1>3, <1>4 DEF FitsAll

-----------------------------------------------------------------------------
(* What processes leave behind. *)

\* The output of collections-info is one argument of the script: a list of several
\* directories would break its line.
SingleDirectories == \A f \in InitialFiles : LinesFit(f)

Writing == {"creating", "making", "writing", "makingSimulator", "reopening", "rewriting"}

ProcessInv(p) ==
  /\ FitsAll(dirsMap[p]) /\ FitsAll(gathered[p])
  /\ request[p] # NoRequest => p \in Setters
  /\ round[p] # 0 => request[p] # NoRequest
  /\ pc[p] = "reading" => file # NoFile
  /\ pc[p] \in Writing => Full(dirsMap[p])
  /\ pc[p] \in {"writing", "reopening", "rewriting"} =>
       \A i \in 1..Len(dirsMap[p]["simulatorModel"].paths) :
         dirsMap[p]["simulatorModel"].paths[i] \in made

FileInv == file # NoFile => LinesFit(file)

Inv ==
  /\ TypeOK /\ FileInv
  /\ \A p \in Processes : ProcessInv(p)
  /\ WrittenFilesAreUsable /\ WrittenDirectoriesExist

\* What a step does to the process that takes it, and to no other
LocalTypes ==
  /\ pc \in [Processes -> Stage] /\ dirsMap \in [Processes -> Lists]
  /\ request \in [Processes -> Requests \cup {NoRequest}] /\ round \in [Processes -> 0..7]
  /\ gathered \in [Processes -> Lists] /\ answer \in [Processes -> Answer]

Local(p) ==
  /\ LocalTypes'
  /\ \A q \in Processes \ {p} :
       /\ pc'[q] = pc[q] /\ dirsMap'[q] = dirsMap[q] /\ gathered'[q] = gathered[q]
       /\ request'[q] = request[q] /\ round'[q] = round[q]
  /\ FitsAll(dirsMap'[p]) /\ FitsAll(gathered'[p])
  /\ request'[p] # NoRequest => p \in Setters
  /\ round'[p] # 0 => request'[p] # NoRequest

LEMMA LocalOfTypes == TypeOK => LocalTypes
BY DEF TypeOK, LocalTypes, Lists

LEMMA ResetsIsLocal ==
  ASSUME TypeOK, NEW p \in Processes, Resets(p), \A q \in Processes : ProcessInv(q),
         answer' \in [Processes -> Answer]
  PROVE  Local(p) /\ pc'[p] = "idle"
BY NoDirsFit, LocalOfTypes DEF Resets, Goes, Local, LocalTypes, Stage

LEMMA AnswersType ==
  ASSUME TypeOK, NEW p \in Processes, NEW error \in BOOLEAN, NEW dirs \in Lists, Answers(p, error, dirs)
  PROVE  answer' \in [Processes -> Answer]
<1>1. [error |-> error, dirs |-> dirs] \in Answer
  BY DEF Answer, Lists
<1> QED BY <1>1 DEF Answers, TypeOK

LEMMA AbortIsLocal ==
  ASSUME TypeOK, NEW p \in Processes, ScriptAborts(p), \A q \in Processes : ProcessInv(q)
  PROVE  Local(p) /\ pc'[p] = "idle"
BY ResetsIsLocal, AnswersType, NoDirsFit DEF ScriptAborts

\* A list of at most one directory is not joined.
LEMMA PrintedFits ==
  ASSUME Setters # {}, NEW list \in List, Fits(list)
  PROVE  Printed(list) \in List /\ Fits(Printed(list))
<1>1. Len(list.paths) \in Nat /\ list.paths \in Seq(Directories)
  BY ListFields
<1>2. Printed(list) = Plain(list.paths)
  <2>1. ~(Len(list.paths) > 1)
    BY <1>1 DEF Fits
  <2>2. (Len(list.paths) > 1) = FALSE
    BY <2>1
  <2> QED BY <2>2 DEF Printed, Plain
<1> QED BY <1>1, <1>2, PlainLists DEF Fits

LEMMA AskedType == \A p : Asked(p) \in Types
BY DEF Asked, Types

LEMMA ChangedLists ==
  ASSUME NEW dirs \in Lists, FitsAll(dirs), NEW t \in Types, NEW list \in List, Fits(list)
  PROVE  LET new == [dirs EXCEPT ![t] = list]
         IN  new \in Lists /\ FitsAll(new) /\ new[t] = list /\ \A u \in Types \ {t} : new[u] = dirs[u]
BY DEF Lists, FitsAll

LEMMA ScriptIsLocal ==
  ASSUME TypeOK, NEW p \in Processes, request[p] # NoRequest, NEW list \in List, Fits(list),
         ScriptReads(p, list), \A q \in Processes : ProcessInv(q)
  PROVE  Local(p) /\ pc'[p] \in {"idle", "opening", "creating"} /\ (pc'[p] = "creating" => Full(dirsMap'[p]))
<1> DEFINE known == IF round[p] <= 3 THEN gathered[p]
                    ELSE [gathered[p] EXCEPT ![Asked(p)] = Printed(list)]
           wanted == [known EXCEPT ![request[p].type] = Plain(<<request[p].directory>>)]
           invalid == \/ round[p] <= 3 /\ list.paths = <<>>
                      \/ round[p] = 3 /\ request[p].directory \notin made'
                      \/ round[p] = 6 /\ \E t \in Types : wanted[t].paths = <<>>
<1>1. request[p].type \in Types /\ request[p].directory \in Directories /\ round[p] \in 0..7
  BY ConfigurationAssumption DEF TypeOK, Request
<1>2. known \in Lists /\ FitsAll(known)
  <2>1. gathered[p] \in Lists /\ FitsAll(gathered[p])
    BY DEF TypeOK, Lists, ProcessInv
  <2>2. Asked(p) \in Types /\ Printed(list) \in List /\ Fits(Printed(list))
    <3>1. Setters # {}
      BY DEF ProcessInv
    <3> QED BY <3>1, AskedType, PrintedFits
  <2> QED BY <2>1, <2>2, ChangedLists
<1> HIDE DEF known
<1>3. wanted \in Lists /\ FitsAll(wanted)
  BY <1>1, <1>2, OneDirectory, ChangedLists
<1> HIDE DEF wanted
<1>4. \/ invalid /\ ScriptAborts(p)
      \/ /\ ~invalid /\ round[p] < 6
         /\ Goes(p, "opening")
         /\ round' = [round EXCEPT ![p] = @ + 1]
         /\ gathered' = [gathered EXCEPT ![p] = known]
         /\ dirsMap' = [dirsMap EXCEPT ![p] = NoDirs]
         /\ UNCHANGED <<request, answer>>
      \/ /\ ~invalid /\ round[p] = 6
         /\ Goes(p, "creating")
         /\ round' = [round EXCEPT ![p] = 7]
         /\ gathered' = [gathered EXCEPT ![p] = NoDirs]
         /\ dirsMap' = [dirsMap EXCEPT ![p] = wanted]
         /\ UNCHANGED <<request, answer>>
  BY DEF ScriptReads, known, wanted
<1>5. CASE ScriptAborts(p)
  BY <1>5, AbortIsLocal
<1>6. CASE /\ round[p] < 6
           /\ Goes(p, "opening")
           /\ round' = [round EXCEPT ![p] = @ + 1]
           /\ gathered' = [gathered EXCEPT ![p] = known]
           /\ dirsMap' = [dirsMap EXCEPT ![p] = NoDirs]
           /\ UNCHANGED <<request, answer>>
  <2>1. round[p] + 1 \in 0..7
    BY <1>1, <1>6
  <2>2. request[p] # NoRequest /\ p \in Setters
    BY DEF ProcessInv
  <2> QED BY <1>2, <1>6, <2>1, <2>2, NoDirsFit, LocalOfTypes DEF Goes, Local, LocalTypes, Stage
<1>7. CASE /\ ~invalid /\ round[p] = 6
           /\ Goes(p, "creating")
           /\ round' = [round EXCEPT ![p] = 7]
           /\ gathered' = [gathered EXCEPT ![p] = NoDirs]
           /\ dirsMap' = [dirsMap EXCEPT ![p] = wanted]
           /\ UNCHANGED <<request, answer>>
  <2>1. Full(wanted)
    BY <1>7 DEF Full
  <2> HIDE DEF invalid
  <2>2. Local(p)
    <3>1. request[p] # NoRequest /\ p \in Setters
      BY DEF ProcessInv
    <3> QED BY <1>3, <1>7, <3>1, NoDirsFit, LocalOfTypes DEF Goes, Local, LocalTypes, Stage
  <2>3. pc'[p] = "creating" /\ dirsMap'[p] = wanted
    BY <1>7 DEF Goes, TypeOK
  <2> QED BY <2>1, <2>2, <2>3
<1> QED BY <1>4, <1>5, <1>6, <1>7

LEMMA ReturnIsLocal ==
  ASSUME TypeOK, NEW p \in Processes, NEW error \in BOOLEAN, NEW dirs \in Lists, FitsAll(dirs),
         UserDirsReturns(p, error, dirs), \A q \in Processes : ProcessInv(q)
  PROVE  Local(p) /\ pc'[p] \in {"idle", "opening", "creating"} /\ (pc'[p] = "creating" => Full(dirsMap'[p]))
<1>1. CASE request[p] = NoRequest /\ Resets(p) /\ Answers(p, error, dirs)
  BY <1>1, AnswersType, ResetsIsLocal
<1>2. CASE request[p] # NoRequest /\ ScriptReads(p, IF error THEN NoList ELSE dirs[Asked(p)])
  <2> DEFINE list == IF error THEN NoList ELSE dirs[Asked(p)]
  <2>1. list \in List /\ Fits(list)
    <3>1. NoList \in List /\ Fits(NoList)
      BY NoDirsFit, TypesAndLines DEF FitsAll, Lists
    <3> QED BY <3>1, AskedType DEF FitsAll, Lists
  <2> HIDE DEF list
  <2>2. ScriptReads(p, list)
    BY <1>2 DEF list
  <2> QED BY <1>2, <2>1, <2>2, ScriptIsLocal
<1> QED BY <1>1, <1>2 DEF UserDirsReturns

LEMMA WriteReturnIsLocal ==
  ASSUME TypeOK, NEW p \in Processes, NEW error \in BOOLEAN, WriteReturns(p, error),
         \A q \in Processes : ProcessInv(q)
  PROVE  /\ Local(p) /\ pc'[p] \in {"idle", "opening", "creating"} /\ (pc'[p] = "creating" => Full(dirsMap'[p]))
         /\ chosen' \in Lists
<1>1. dirsMap[p] \in Lists /\ FitsAll(dirsMap[p]) /\ chosen \in Lists
  BY DEF TypeOK, Lists, ProcessInv
<1>2. CASE round[p] # 7
  BY <1>1, <1>2, ReturnIsLocal DEF WriteReturns
<1>3. CASE round[p] = 7
  <2>1. Resets(p) /\ Answers(p, error, IF error THEN NoDirs ELSE dirsMap[p])
    BY <1>3 DEF WriteReturns
  <2>2. Local(p) /\ pc'[p] = "idle"
    BY <1>1, <2>1, AnswersType, ResetsIsLocal, NoDirsFit
  <2>3. chosen' \in Lists
    <3>1. request[p] # NoRequest
      BY <1>3 DEF ProcessInv
    <3>2. request[p].type \in Types /\ request[p].directory \in Directories
      BY <3>1, ConfigurationAssumption DEF TypeOK, Request
    <3> QED BY <1>1, <1>3, <3>2, OneDirectory DEF WriteReturns, Lists
  <2> QED BY <2>2, <2>3
<1> QED BY <1>2, <1>3

\* A step that is local and keeps the file.
LEMMA FileKept ==
  ASSUME Inv, NEW p \in Processes, Local(p), UNCHANGED <<file, truncated>>, abandoned' \in BOOLEAN,
         made \subseteq made', made' \subseteq Directories, chosen' \in Lists,
         abandoned => abandoned',
         pc[p] \in Truncating => pc'[p] \in Truncating \/ abandoned',
         pc'[p] = "reading" => file # NoFile,
         pc'[p] \in Writing => Full(dirsMap'[p]),
         pc'[p] \in {"writing", "reopening", "rewriting"} =>
           \A i \in 1..Len(dirsMap'[p]["simulatorModel"].paths) :
             dirsMap'[p]["simulatorModel"].paths[i] \in made'
  PROVE  Inv'
<1>1. TypeOK' /\ FileInv'
  BY DEF Inv, TypeOK, FileInv, Local, LocalTypes, Lists
<1>2. ASSUME NEW q \in Processes PROVE ProcessInv(q)'
  <2>1. CASE q = p
    BY <2>1 DEF ProcessInv, Local
  <2>2. CASE q # p
    <3>1. /\ pc'[q] = pc[q] /\ dirsMap'[q] = dirsMap[q] /\ gathered'[q] = gathered[q]
          /\ request'[q] = request[q] /\ round'[q] = round[q] /\ ProcessInv(q)
      BY <2>2 DEF Local, Inv
    <3> QED BY <3>1 DEF ProcessInv
  <2> QED BY <2>1, <2>2
<1>3. WrittenFilesAreUsable'
  <2>1. ASSUME truncated PROVE Usable(file) \/ abandoned' \/ \E q \in Processes : pc'[q] \in Truncating
    <3>1. Usable(file) \/ abandoned \/ \E q \in Processes : pc[q] \in Truncating
      BY <2>1 DEF Inv, WrittenFilesAreUsable
    <3> QED BY <3>1 DEF Local
  <2> QED BY <2>1 DEF WrittenFilesAreUsable, Usable, Accepted, Readable
<1>4. WrittenDirectoriesExist'
  BY DEF Inv, WrittenDirectoriesExist, Usable, Accepted, Readable, ReadDirs, Reached
<1> QED BY <1>1, <1>2, <1>3, <1>4 DEF Inv

\* A step that truncates the file.
LEMMA FileTruncated ==
  ASSUME Inv, NEW p \in Processes, Local(p), file' = <<>>, truncated' = TRUE,
         UNCHANGED <<made, chosen, abandoned, dirsMap, gathered>>, pc'[p] \in {"making", "rewriting"},
         pc'[p] = "rewriting" => pc[p] = "reopening", pc[p] \in Writing
  PROVE  Inv'
<1>1. TypeOK' /\ FileInv'
  BY EmptyFile DEF Inv, TypeOK, FileInv, Local, LocalTypes, Lists
<1>2. ASSUME NEW q \in Processes PROVE ProcessInv(q)'
  <2>1. CASE q = p
    BY <2>1 DEF Inv, ProcessInv, Local
  <2>2. CASE q # p
    BY <2>2, EmptyFile DEF Inv, ProcessInv, Local
  <2> QED BY <2>1, <2>2
<1>3. WrittenFilesAreUsable'
  BY DEF WrittenFilesAreUsable, Truncating
<1>4. WrittenDirectoriesExist'
  <2>1. ~Usable(file')
    BY EmptyFile
  <2> QED BY <2>1 DEF WrittenDirectoriesExist, Usable, Accepted, Readable
<1> QED BY <1>1, <1>2, <1>3, <1>4 DEF Inv

\* A step that fills the file with lists whose directories exist.
LEMMA FileWritten ==
  ASSUME Inv, NEW p \in Processes, Local(p), file' = TextOf(dirsMap[p]),
         pc[p] \in {"writing", "rewriting"}, abandoned' = FALSE, UNCHANGED <<made, truncated>>,
         chosen' \in Lists, pc'[p] \in {"idle", "opening", "creating"},
         pc'[p] = "creating" => Full(dirsMap'[p])
  PROVE  Inv'
<1> DEFINE f == TextOf(dirsMap[p])
<1>1. dirsMap[p] \in Lists /\ FitsAll(dirsMap[p]) /\ Full(dirsMap[p])
  BY DEF Inv, ProcessInv, TypeOK, Lists, Writing
<1>2. f \in Seq(Line) /\ Usable(f) /\ LinesFit(f) /\ ReadDirs(f) = dirsMap[p]
  BY <1>1, TextIsUsable
<1> HIDE DEF f
<1>3. file' = f /\ f # NoFile
  BY <1>2, ConfigurationAssumption DEF f
<1>4. TypeOK' /\ FileInv'
  BY <1>2, <1>3 DEF Inv, TypeOK, FileInv, Local, LocalTypes, Lists
<1>5. ASSUME NEW q \in Processes PROVE ProcessInv(q)'
  <2>1. CASE q = p
    BY <1>3, <2>1 DEF ProcessInv, Local, Writing
  <2>2. CASE q # p
    <3>1. /\ pc'[q] = pc[q] /\ dirsMap'[q] = dirsMap[q] /\ gathered'[q] = gathered[q]
          /\ request'[q] = request[q] /\ round'[q] = round[q] /\ ProcessInv(q)
      BY <2>2 DEF Local, Inv
    <3> QED BY <1>3, <3>1 DEF ProcessInv
  <2> QED BY <2>1, <2>2
<1>6. WrittenFilesAreUsable'
  BY <1>2, <1>3 DEF WrittenFilesAreUsable, Usable, Accepted, Readable
<1>7. WrittenDirectoriesExist'
  <2>1. \A i \in 1..Len(dirsMap[p]["simulatorModel"].paths) : dirsMap[p]["simulatorModel"].paths[i] \in made
    BY DEF Inv, ProcessInv
  <2>2. DOMAIN dirsMap[p]["simulatorModel"].paths = 1..Len(dirsMap[p]["simulatorModel"].paths)
    <3>1. dirsMap[p]["simulatorModel"].paths \in Seq(Directories)
      BY <1>1, ListFields, TypesAndLines DEF Lists
    <3> QED BY <3>1, LenProperties
  <2>3. ReadDirs(file') = dirsMap[p]
    BY <1>2, <1>3
  <2>4. (ReadDirs(file))' = ReadDirs(file')
    BY DEF ReadDirs, Reached, Accepted, Readable
  <2> QED BY <2>1, <2>2, <2>3, <2>4 DEF WrittenDirectoriesExist
<1> QED BY <1>4, <1>5, <1>6, <1>7 DEF Inv

LEMMA KeptIsLocal ==
  ASSUME Inv, NEW p \in Processes, NEW s \in Stage, Goes(p, s), UNCHANGED <<dirsMap, script, answer>>
  PROVE  Local(p) /\ pc'[p] = s
BY LocalOfTypes DEF Inv, ProcessInv, Goes, Local, LocalTypes, script

LEMMA FileIsRead ==
  ASSUME Inv, file # NoFile
  PROVE  ReadDirs(file) \in Lists /\ FitsAll(ReadDirs(file))
BY ListsRead DEF Inv, TypeOK, FileInv

LEMMA InvTypes ==
  ASSUME Inv, NEW p \in Processes
  PROVE  /\ TypeOK /\ made \subseteq Directories /\ chosen \in Lists /\ abandoned \in BOOLEAN
         /\ dirsMap[p] \in Lists /\ FitsAll(dirsMap[p]) /\ dirsMap \in [Processes -> Lists]
         /\ \A q \in Processes : ProcessInv(q)
BY DEF Inv, TypeOK, Lists, ProcessInv

LEMMA BeginSteps ==
  ASSUME Inv, NEW p \in Processes, BeginLookUp(p) \/ \E r \in Requests : BeginSet(p, r)
  PROVE  Inv'
<1>1. CASE BeginLookUp(p)
  <2>1. Local(p) /\ pc'[p] = "opening"
    BY <1>1, KeptIsLocal DEF BeginLookUp, Stage
  <2> QED BY <1>1, <2>1, InvTypes, FileKept DEF BeginLookUp, history, Truncating, Writing
<1>2. ASSUME NEW r \in Requests, BeginSet(p, r) PROVE Inv'
  <2>1. Local(p) /\ pc'[p] = "opening"
    <3>1. NoRequest \notin Requests
      BY ConfigurationAssumption
    <3> QED BY <1>2, <3>1, InvTypes, LocalOfTypes
            DEF BeginSet, Goes, Local, LocalTypes, ProcessInv, Stage
  <2> QED BY <1>2, <2>1, InvTypes, FileKept DEF BeginSet, history, Truncating, Writing
<1> QED BY <1>1, <1>2

LEMMA OpenStep ==
  ASSUME Inv, NEW p \in Processes, OpenConfigurationFile(p)
  PROVE  Inv'
<1>1. CASE file # NoFile
  <2>1. Local(p) /\ pc'[p] = "reading"
    BY <1>1, KeptIsLocal DEF OpenConfigurationFile, Stage
  <2> QED BY <1>1, <2>1, InvTypes, FileKept DEF OpenConfigurationFile, history, Truncating, Writing
<1>2. CASE file = NoFile
  <2>1. /\ Local(p) /\ pc'[p] = "creating" /\ dirsMap'[p] = DefaultDirs
    BY <1>2, InvTypes, DefaultDirsFit, LocalOfTypes
       DEF OpenConfigurationFile, Goes, Local, LocalTypes, script, ProcessInv, Stage
  <2> QED BY <2>1, InvTypes, DefaultDirsFit, FileKept DEF OpenConfigurationFile, history, Truncating, Writing
<1> QED BY <1>1, <1>2

LEMMA RewrittenLists ==
  ASSUME NEW f \in Seq(Line), LinesFit(f), f # NoFile, NeedsRewrite(f)
  PROVE  LET dirs == [ReadDirs(f) EXCEPT !["simulatorModel"] = DefaultDirs["simulatorModel"]]
         IN  /\ dirs \in Lists /\ FitsAll(dirs) /\ Full(dirs)
             /\ dirs["modelDriver"] = Plain(f[1].paths) /\ dirs["portableModel"] = Plain(f[2].paths)
             /\ Accepted(f, "modelDriver") /\ Accepted(f, "portableModel")
<1> DEFINE dirs == [ReadDirs(f) EXCEPT !["simulatorModel"] = DefaultDirs["simulatorModel"]]
<1>1. ReadDirs(f) \in Lists /\ FitsAll(ReadDirs(f))
  BY ListsRead
<1>2. DefaultDirs["simulatorModel"] \in List /\ Fits(DefaultDirs["simulatorModel"])
      /\ DefaultDirs["simulatorModel"].paths # <<>>
  BY DefaultDirsFit, TypesAndLines DEF Lists, FitsAll, Full
<1>3. \A t \in Types \ {"simulatorModel"} : Reached(f, t) /\ Accepted(f, t)
  BY TypesAndLines DEF NeedsRewrite, Reached
<1>4. /\ dirs \in Lists /\ FitsAll(dirs) /\ dirs["simulatorModel"] = DefaultDirs["simulatorModel"]
      /\ \A t \in Types \ {"simulatorModel"} : dirs[t] = ReadDirs(f)[t]
  BY <1>1, <1>2, TypesAndLines, ChangedLists
<1>5. \A t \in Types \ {"simulatorModel"} :
        ReadDirs(f)[t] = Plain(f[LineOf[t]].paths) /\ ReadDirs(f)[t].paths # <<>>
  BY <1>3, ListsRead
<1> HIDE DEF dirs
<1>6. Full(dirs)
  BY <1>2, <1>4, <1>5 DEF Full
<1> QED BY <1>3, <1>4, <1>5, <1>6, TypesAndLines DEF dirs

LEMMA ReadSteps ==
  ASSUME Inv, NEW p \in Processes, ReadConfigurationFile(p) \/ ReadKillsProcess(p)
  PROVE  Inv'
<1>1. file \in Seq(Line) /\ LinesFit(file) /\ file # NoFile /\ pc[p] = "reading"
  BY DEF ReadConfigurationFile, ReadKillsProcess, Inv, ProcessInv, TypeOK, FileInv
<1>2. CASE ReadKillsProcess(p)
  <2>1. Local(p) /\ pc'[p] = "idle"
    BY <1>2, InvTypes, ResetsIsLocal DEF ReadKillsProcess, TypeOK
  <2> QED BY <1>1, <1>2, <2>1, InvTypes, FileKept DEF ReadKillsProcess, history, Truncating, Writing
<1>3. CASE ReadConfigurationFile(p) /\ NeedsRewrite(file)
  <2> DEFINE dirs == [ReadDirs(file) EXCEPT !["simulatorModel"] = DefaultDirs["simulatorModel"]]
  <2>1. dirs \in Lists /\ FitsAll(dirs) /\ Full(dirs)
    BY <1>1, <1>3, RewrittenLists
  <2>2. /\ Goes(p, "makingSimulator") /\ dirsMap' = [dirsMap EXCEPT ![p] = dirs]
        /\ UNCHANGED <<script, answer, file, made, history>>
    BY <1>3 DEF ReadConfigurationFile
  <2> HIDE DEF dirs
  <2>3. Local(p) /\ pc'[p] = "makingSimulator" /\ dirsMap'[p] = dirs
    BY <2>1, <2>2, InvTypes, LocalOfTypes DEF Goes, Local, LocalTypes, script, ProcessInv, Stage
  <2> QED BY <1>1, <2>1, <2>2, <2>3, InvTypes, FileKept DEF history, Truncating, Writing
<1>4. CASE ReadConfigurationFile(p) /\ ~NeedsRewrite(file)
  <2>1. UserDirsReturns(p, ReadFails(file), ReadDirs(file)) /\ UNCHANGED <<file, made, history>>
    BY <1>4 DEF ReadConfigurationFile
  <2>2. ReadFails(file) \in BOOLEAN
    BY DEF ReadFails
  <2>3. Local(p) /\ pc'[p] \in {"idle", "opening", "creating"} /\ (pc'[p] = "creating" => Full(dirsMap'[p]))
    BY <1>1, <2>1, <2>2, FileIsRead, InvTypes, ReturnIsLocal
  <2> QED BY <1>1, <2>1, <2>3, InvTypes, FileKept DEF history, Truncating, Writing
<1> QED BY <1>2, <1>3, <1>4

LEMMA RewriteSteps ==
  ASSUME Inv, NEW p \in Processes,
         \/ MakeSimulatorDirectory(p)  \/ MakeSimulatorDirectoryFails(p)
         \/ ReopenConfigurationFile(p) \/ ReopenFails(p) \/ RewriteConfigurationFile(p)
  PROVE  Inv'
<1>1. CASE MakeSimulatorDirectory(p)
  <2> DEFINE list == dirsMap[p]["simulatorModel"]
             only == [NoDirs EXCEPT !["simulatorModel"] = list]
  <2>1. list \in List /\ ~list.joined /\ list.paths \in Seq(Directories)
    BY InvTypes, ListFields, TypesAndLines DEF Lists, FitsAll, Fits
  <2>2. DOMAIN list.paths = 1..Len(list.paths) /\ \A i \in 1..Len(list.paths) : list.paths[i] \in Directories
    BY <2>1, LenProperties, ElementOfSeq
  <2>3. DirectoriesIn(only) = {list.paths[i] : i \in 1..Len(list.paths)}
    <3>1. only["simulatorModel"] = list /\ \A t \in Types \ {"simulatorModel"} : only[t] = NoList
      BY NoDirsFit, TypesAndLines DEF Lists
    <3>2. DOMAIN NoList.paths = {}
      BY PlainLists
    <3> HIDE DEF only, list
    <3> QED BY <2>1, <2>2, <3>1, <3>2, TypesAndLines DEF DirectoriesIn
  <2>4. made' = made \cup {list.paths[i] : i \in 1..Len(list.paths)}
    BY <1>1, <2>3 DEF MakeSimulatorDirectory
  <2>5. Local(p) /\ pc'[p] = "reopening"
    BY <1>1, KeptIsLocal DEF MakeSimulatorDirectory, Stage
  <2>6. made \subseteq made' /\ made' \subseteq Directories
    BY <2>2, <2>4, InvTypes
  <2>7. pc[p] = "makingSimulator" /\ Full(dirsMap[p]) /\ UNCHANGED <<file, dirsMap, history>>
    BY <1>1 DEF MakeSimulatorDirectory, Inv, ProcessInv, Writing
  <2> QED BY <2>4, <2>5, <2>6, <2>7, InvTypes, FileKept DEF history, Truncating
<1>2. CASE MakeSimulatorDirectoryFails(p) \/ ReopenFails(p)
  <2>1. \E error \in BOOLEAN : UserDirsReturns(p, error, dirsMap[p])
    BY <1>2 DEF MakeSimulatorDirectoryFails, ReopenFails
  <2>2. Local(p) /\ pc'[p] \in {"idle", "opening", "creating"} /\ (pc'[p] = "creating" => Full(dirsMap'[p]))
    BY <2>1, InvTypes, ReturnIsLocal
  <2>3. pc[p] \in {"makingSimulator", "reopening"} /\ UNCHANGED <<file, made, history>>
    BY <1>2 DEF MakeSimulatorDirectoryFails, ReopenFails
  <2> QED BY <2>2, <2>3, InvTypes, FileKept DEF history, Truncating, Writing
<1>3. CASE ReopenConfigurationFile(p)
  <2>1. Local(p) /\ pc'[p] = "rewriting"
    BY <1>3, KeptIsLocal DEF ReopenConfigurationFile, Stage
  <2> QED BY <1>3, <2>1, FileTruncated DEF ReopenConfigurationFile, script, Writing
<1>4. CASE RewriteConfigurationFile(p)
  <2>1. UserDirsReturns(p, FALSE, dirsMap[p])
    BY <1>4 DEF RewriteConfigurationFile
  <2>2. Local(p) /\ pc'[p] \in {"idle", "opening", "creating"} /\ (pc'[p] = "creating" => Full(dirsMap'[p]))
    BY <2>1, InvTypes, ReturnIsLocal
  <2> QED BY <1>4, <2>2, InvTypes, FileWritten DEF RewriteConfigurationFile
<1> QED BY <1>1, <1>2, <1>3, <1>4

LEMMA WriteSteps ==
  ASSUME Inv, NEW p \in Processes,
         \/ CreateConfigurationFile(p) \/ CreateFails(p)
         \/ MakeDirectories(p) \/ MakeDirectoriesFails(p) \/ WriteConfigurationFile(p)
  PROVE  Inv'
<1> DEFINE dirs == dirsMap[p]
<1>1. DirectoriesIn(dirs) \subseteq Directories
      /\ \A i \in 1..Len(dirs["simulatorModel"].paths) : dirs["simulatorModel"].paths[i] \in DirectoriesIn(dirs)
  <2>1. \A t \in Types : ~dirs[t].joined /\ dirs[t].paths \in Seq(Directories)
    BY InvTypes, ListFields DEF Lists, FitsAll, Fits
  <2>2. \A t \in Types : /\ DOMAIN dirs[t].paths = 1..Len(dirs[t].paths)
                         /\ \A i \in 1..Len(dirs[t].paths) : dirs[t].paths[i] \in Directories
    BY <2>1, LenProperties, ElementOfSeq
  <2> QED BY <2>1, <2>2, TypesAndLines, SMTT(30) DEF DirectoriesIn
<1>2. CASE CreateConfigurationFile(p)
  <2>1. Local(p) /\ pc'[p] = "making"
    BY <1>2, KeptIsLocal DEF CreateConfigurationFile, Stage
  <2> QED BY <1>2, <2>1, FileTruncated DEF CreateConfigurationFile, script, Writing
<1>3. CASE CreateFails(p) \/ MakeDirectoriesFails(p)
  <2>1. WriteReturns(p, TRUE) /\ UNCHANGED <<file, truncated>>
    BY <1>3 DEF CreateFails, MakeDirectoriesFails
  <2>2. /\ Local(p) /\ pc'[p] \in {"idle", "opening", "creating"} /\ (pc'[p] = "creating" => Full(dirsMap'[p]))
        /\ chosen' \in Lists
    BY <2>1, InvTypes, WriteReturnIsLocal
  <2>3. made \subseteq made' /\ made' \subseteq Directories
    BY <1>1, <1>3, InvTypes DEF CreateFails, MakeDirectoriesFails
  <2>4. abandoned' \in BOOLEAN /\ (abandoned => abandoned') /\ (pc[p] \in Truncating => abandoned')
    <3>1. CASE CreateFails(p)
      BY <3>1, InvTypes DEF CreateFails, Truncating
    <3>2. CASE MakeDirectoriesFails(p)
      <4>1. abandoned' = TRUE
        BY <3>2 DEF MakeDirectoriesFails
      <4> QED BY <4>1
    <3> QED BY <1>3, <3>1, <3>2
  <2>5. pc'[p] \notin {"writing", "reopening", "rewriting", "reading"}
        /\ (pc'[p] \in Writing => pc'[p] = "creating")
    BY <2>2 DEF Writing
  <2> QED BY <2>1, <2>2, <2>3, <2>4, <2>5, FileKept
<1>4. CASE MakeDirectories(p)
  <2>1. Local(p) /\ pc'[p] = "writing"
    BY <1>4, KeptIsLocal DEF MakeDirectories, Stage
  <2>2. made' = made \cup DirectoriesIn(dirs) /\ UNCHANGED <<file, dirsMap, history>> /\ Full(dirs)
    BY <1>4 DEF MakeDirectories, Inv, ProcessInv, Writing
  <2> QED BY <1>1, <2>1, <2>2, InvTypes, FileKept DEF history, Truncating
<1>5. CASE WriteConfigurationFile(p)
  <2>1. WriteReturns(p, FALSE)
    BY <1>5 DEF WriteConfigurationFile
  <2>2. /\ Local(p) /\ pc'[p] \in {"idle", "opening", "creating"} /\ (pc'[p] = "creating" => Full(dirsMap'[p]))
        /\ chosen' \in Lists
    BY <2>1, InvTypes, WriteReturnIsLocal
  <2> QED BY <1>5, <2>2, FileWritten DEF WriteConfigurationFile
<1> QED BY <1>2, <1>3, <1>4, <1>5

LEMMA CrashStep ==
  ASSUME Inv, NEW p \in Processes, Crash(p)
  PROVE  Inv'
<1>1. Local(p) /\ pc'[p] = "idle"
  BY InvTypes, ResetsIsLocal DEF Crash, TypeOK
<1>2. abandoned' \in BOOLEAN /\ (abandoned => abandoned') /\ (pc[p] \in Truncating => abandoned')
      /\ UNCHANGED <<file, made, truncated, chosen>>
  BY InvTypes DEF Crash
<1> QED BY <1>1, <1>2, InvTypes, FileKept DEF Writing

LEMMA SettingsType ==
  ASSUME NEW f \in Seq(Line) \cup {NoFile}
  PROVE  SettingsIn(f) \in Lists
<1>1. ASSUME NEW t \in Types, f # NoFile, LineOf[t] <= Len(f) PROVE Plain(f[LineOf[t]].paths) \in List
  <2>1. f \in Seq(Line) /\ LineOf[t] \in 1..Len(f)
    BY <1>1, TypesAndLines, LenProperties
  <2>2. f[LineOf[t]] \in Line
    BY <2>1, ElementOfSeq
  <2>3. f[LineOf[t]].paths \in Seq(Directories)
    BY <2>2 DEF Line
  <2> QED BY <2>3, PlainLists
<1>2. \A t \in Types : Plain(<<Default[t]>>) \in List
  BY DefaultDirsFit DEF Lists
<1> QED BY <1>1, <1>2 DEF SettingsIn, Lists

LEMMA InitInv ==
  ASSUME SingleDirectories, Init
  PROVE  Inv
<1>1. file \in Seq(Line) \cup {NoFile} /\ LinesFit(file)
  BY ConfigurationAssumption DEF Init, SingleDirectories
<1>2. [error |-> FALSE, dirs |-> NoDirs] \in Answer
  BY NoDirsFit DEF Answer, Lists
<1>3. TypeOK
  <2>1. chosen \in Lists /\ made \subseteq Directories
    BY <1>1, SettingsType, ConfigurationAssumption DEF Init
  <2>2. LocalTypes
    BY <1>2, NoDirsFit DEF Init, LocalTypes, Stage
  <2>3. truncated \in BOOLEAN /\ abandoned \in BOOLEAN
    BY DEF Init
  <2> QED BY <1>1, <2>1, <2>2, <2>3 DEF TypeOK, LocalTypes, Lists
<1> QED BY <1>1, <1>3, NoDirsFit
        DEF Init, Inv, FileInv, ProcessInv, WrittenFilesAreUsable, WrittenDirectoriesExist, Writing

LEMMA NextInv ==
  ASSUME Inv, [Next]_vars
  PROVE  Inv'
<1>1. ASSUME NEW p \in Processes,
             BeginLookUp(p) \/ (\E r \in Requests : BeginSet(p, r)) \/ Step(p) \/ Crash(p)
      PROVE  Inv'
  BY <1>1, BeginSteps, OpenStep, ReadSteps, RewriteSteps, WriteSteps, CrashStep DEF Step
<1>2. CASE UNCHANGED vars
  <2> USE <1>2 DEF vars, script, history
  <2>1. TypeOK' /\ FileInv' /\ \A p \in Processes : ProcessInv(p)'
    BY DEF Inv, TypeOK, FileInv, ProcessInv
  <2>2. WrittenFilesAreUsable'
    BY DEF Inv, WrittenFilesAreUsable, Usable, Accepted, Readable
  <2>3. WrittenDirectoriesExist'
    <3>1. file' = file /\ made' = made /\ truncated' = truncated
      OBVIOUS
    <3>2. ReadDirs(file)' = ReadDirs(file) /\ (Usable(file)' <=> Usable(file))
      BY <3>1 DEF Usable, Accepted, Readable, ReadDirs, Reached
    <3> QED BY <3>1, <3>2 DEF Inv, WrittenDirectoriesExist
  <2> QED BY <2>1, <2>2, <2>3 DEF Inv
<1> QED BY <1>1, <1>2 DEF Next

\* PrivateGetUserDirs and WriteConfigurationFileAndCreateDirectories, in any number of
\* processes that fail or are killed anywhere: a truncated file becomes one that can be
\* read, unless the process that truncated it was stopped, and names directories that exist.
THEOREM FilesAreSound ==
  ASSUME SingleDirectories
  PROVE  Spec => []WrittenFilesAreSound
<1>1. Inv => WrittenFilesAreSound
  BY DEF Inv, WrittenFilesAreSound
<1> QED BY <1>1, InitInv, NextInv, PTL DEF Spec

-----------------------------------------------------------------------------
(* What look-ups keep of the user's settings. *)

\* The third line of a file is too short or missing, but never too long: the library
\* takes a line that fills its buffer for a missing one and replaces it.
ThirdLinesFit ==
  \A f \in InitialFiles : f # NoFile /\ LineOf["simulatorModel"] <= Len(f) => Len(f[3].paths) <= Capacity

Taken(f) == [ReadDirs(f) EXCEPT !["simulatorModel"] = DefaultDirs["simulatorModel"]]

ChoiceInv ==
  /\ file = NoFile => chosen = DefaultDirs
  /\ file # NoFile /\ NeedsRewrite(file) => Taken(file) = chosen
  /\ SettingsAreTheUsersChoice
  /\ \A p \in Processes : pc[p] \in Writing => dirsMap[p] = chosen

LEMMA SettingsOfAUsableFile ==
  ASSUME NEW f \in Seq(Line), LinesFit(f), Usable(f)
  PROVE  ReadDirs(f) = SettingsIn(f) /\ ~NeedsRewrite(f) /\ ~ReadFails(f) /\ ~ReadCrashes(f)
<1>1. \A t \in Types : Accepted(f, t) /\ Reached(f, t) /\ Readable(f, t)
  BY DEF Usable, Reached, Accepted
<1>2. \A t \in Types : LineOf[t] <= Len(f) /\ f[LineOf[t]].identifier \in {Identifier[t]} \cup Deprecated[t]
  BY <1>1 DEF Accepted, Readable
<1>3. \A t \in Types : ReadDirs(f)[t] = SettingsIn(f)[t]
  BY <1>1, <1>2 DEF Usable, ReadDirs, SettingsIn
<1>4. ReadDirs(f) = SettingsIn(f)
  BY <1>3 DEF ReadDirs, SettingsIn
<1>5. \A t \in Types : f[LineOf[t]].identifier # "blank"
  BY <1>2, TypesAndLines DEF Identifier, Deprecated, Types
<1> QED BY <1>1, <1>4, <1>5, TypesAndLines DEF NeedsRewrite, ReadFails, ReadCrashes

LEMMA SettingsOfAnOldFile ==
  ASSUME NEW f \in Seq(Line), LinesFit(f), f # NoFile, NeedsRewrite(f),
         LineOf["simulatorModel"] <= Len(f) => Len(f[3].paths) <= Capacity
  PROVE  Taken(f) = SettingsIn(f)
<1>1. \A t \in {"modelDriver", "portableModel"} : Accepted(f, t) /\ Readable(f, t)
  BY TypesAndLines DEF NeedsRewrite, Reached, Accepted
<1>2. ~(3 <= Len(f))
  <2>1. \A i \in 1..2 : Len(f[i].paths) <= Capacity
    BY <1>1, TypesAndLines DEF Readable
  <2>2. SUFFICES ASSUME 3 <= Len(f) PROVE Readable(f, "simulatorModel")
    BY DEF NeedsRewrite
  <2> QED BY <2>1, <2>2, TypesAndLines DEF Readable
<1>3. SettingsIn(f)["simulatorModel"] = DefaultDirs["simulatorModel"]
  BY <1>2, TypesAndLines DEF SettingsIn, DefaultDirs
<1>4. SettingsIn(f)["modelDriver"] = Plain(f[1].paths) /\ SettingsIn(f)["portableModel"] = Plain(f[2].paths)
  BY <1>1, TypesAndLines DEF SettingsIn, Accepted, Readable
<1>5. Taken(f)["modelDriver"] = Plain(f[1].paths) /\ Taken(f)["portableModel"] = Plain(f[2].paths)
      /\ Taken(f) \in Lists
  BY RewrittenLists DEF Taken
<1>6. Taken(f)["simulatorModel"] = DefaultDirs["simulatorModel"]
  BY TypesAndLines DEF Taken, ReadDirs
<1>7. \A t \in Types : Taken(f)[t] = SettingsIn(f)[t]
  BY <1>3, <1>4, <1>5, <1>6, TypesAndLines
<1> QED BY <1>5, <1>7 DEF SettingsIn, Lists

\* Where nobody runs a script, a look-up only returns.
LEMMA LookUpReturns ==
  ASSUME Setters = {}, Inv, NEW p \in Processes
  PROVE  /\ request[p] = NoRequest /\ round[p] = 0
         /\ \A error, dirs : UserDirsReturns(p, error, dirs) =>
              pc' = [pc EXCEPT ![p] = "idle"] /\ dirsMap' = [dirsMap EXCEPT ![p] = NoDirs]
         /\ \A error : WriteReturns(p, error) =>
              /\ pc' = [pc EXCEPT ![p] = "idle"] /\ dirsMap' = [dirsMap EXCEPT ![p] = NoDirs]
              /\ chosen' = chosen
<1>1. request[p] = NoRequest /\ round[p] = 0
  BY DEF Inv, ProcessInv
<1>2. ASSUME NEW error, NEW dirs, UserDirsReturns(p, error, dirs)
      PROVE  pc' = [pc EXCEPT ![p] = "idle"] /\ dirsMap' = [dirsMap EXCEPT ![p] = NoDirs]
  BY <1>1, <1>2 DEF UserDirsReturns, Resets, Goes
<1>3. ASSUME NEW error, WriteReturns(p, error)
      PROVE  UserDirsReturns(p, FALSE, dirsMap[p]) /\ chosen' = chosen
  <2>1. round[p] # 7
    BY <1>1
  <2> QED BY <1>3, <2>1 DEF WriteReturns
<1> QED BY <1>1, <1>2, <1>3

LEMMA ChoiceKept ==
  ASSUME Inv, ChoiceInv, NEW p \in Processes, UNCHANGED <<file, chosen>>,
         \A q \in Processes \ {p} : pc'[q] = pc[q] /\ dirsMap'[q] = dirsMap[q],
         pc'[p] \in Writing => dirsMap'[p] = chosen
  PROVE  ChoiceInv'
<1>1. (NeedsRewrite(file)' <=> NeedsRewrite(file)) /\ Taken(file)' = Taken(file)
  BY DEF NeedsRewrite, Reached, Accepted, Readable, Taken, ReadDirs
<1>2. (Usable(file)' <=> Usable(file)) /\ ReadDirs(file)' = ReadDirs(file)
  BY DEF Usable, Reached, Accepted, Readable, ReadDirs
<1> QED BY <1>1, <1>2 DEF ChoiceInv, SettingsAreTheUsersChoice

LEMMA ChoiceWritten ==
  ASSUME Inv, ChoiceInv, NEW p \in Processes, chosen' = chosen,
         \/ file' = <<>> /\ UNCHANGED dirsMap /\ pc[p] \in Writing
         \/ file' = TextOf(dirsMap[p]) /\ pc[p] \in Writing /\ pc'[p] = "idle",
         \A q \in Processes \ {p} : pc'[q] = pc[q] /\ dirsMap'[q] = dirsMap[q]
  PROVE  ChoiceInv'
<1> DEFINE f == file'
<1>1. /\ f # NoFile /\ ~NeedsRewrite(f)
      /\ Usable(f) => ReadDirs(f) = chosen
  <2>1. CASE f = <<>>
    BY <2>1, EmptyFile
  <2>2. CASE f = TextOf(dirsMap[p]) /\ pc[p] \in Writing
    <3>1. dirsMap[p] \in Lists /\ FitsAll(dirsMap[p]) /\ Full(dirsMap[p]) /\ dirsMap[p] = chosen
      BY <2>2, InvTypes DEF ProcessInv, ChoiceInv
    <3> QED BY <2>2, <3>1, TextIsUsable DEF Usable
  <2> QED BY <2>1, <2>2
<1>2. (NeedsRewrite(file)' <=> NeedsRewrite(f))
  BY DEF NeedsRewrite, Reached, Accepted, Readable
<1>3. (Usable(file)' <=> Usable(f)) /\ ReadDirs(file)' = ReadDirs(f)
  BY DEF Usable, Reached, Accepted, Readable, ReadDirs
<1>4. \A q \in Processes : pc'[q] \in Writing => dirsMap'[q] = chosen
  BY DEF ChoiceInv, Writing
<1> QED BY <1>1, <1>2, <1>3, <1>4 DEF ChoiceInv, SettingsAreTheUsersChoice

LEMMA ChoiceStep ==
  ASSUME Setters = {}, Inv, ChoiceInv, NEW p \in Processes, BeginLookUp(p) \/ Step(p) \/ Crash(p)
  PROVE  ChoiceInv'
<1> USE DEF Goes, history, script
<1>0. TypeOK /\ pc \in [Processes -> Stage] /\ dirsMap \in [Processes -> Lists]
  BY InvTypes DEF TypeOK
<1>1. CASE BeginLookUp(p) \/ MakeSimulatorDirectory(p) \/ MakeDirectories(p)
  BY <1>0, <1>1, ChoiceKept DEF BeginLookUp, MakeSimulatorDirectory, MakeDirectories, ChoiceInv, Writing
<1>2. CASE OpenConfigurationFile(p)
  BY <1>0, <1>2, ChoiceKept DEF OpenConfigurationFile, ChoiceInv, Writing
<1>3. CASE ReadConfigurationFile(p)
  <2>1. file # NoFile /\ UNCHANGED <<file, chosen>>
    BY <1>3 DEF ReadConfigurationFile, Inv, ProcessInv
  <2>2. CASE NeedsRewrite(file)
    <3>1. /\ pc' = [pc EXCEPT ![p] = "makingSimulator"]
          /\ dirsMap' = [dirsMap EXCEPT ![p] = Taken(file)]
      BY <1>3, <2>2 DEF ReadConfigurationFile, Taken
    <3>2. Taken(file) = chosen
      BY <2>1, <2>2 DEF ChoiceInv
    <3> QED BY <1>0, <2>1, <3>1, <3>2, ChoiceKept
  <2>3. CASE ~NeedsRewrite(file)
    <3>1. UserDirsReturns(p, ReadFails(file), ReadDirs(file))
      BY <1>3, <2>3 DEF ReadConfigurationFile
    <3>2. pc' = [pc EXCEPT ![p] = "idle"] /\ dirsMap' = [dirsMap EXCEPT ![p] = NoDirs]
      BY <3>1, LookUpReturns
    <3> QED BY <1>0, <2>1, <3>2, ChoiceKept DEF Writing
  <2> QED BY <2>2, <2>3
<1>4. CASE ReadKillsProcess(p) \/ Crash(p)
  BY <1>0, <1>4, ChoiceKept DEF ReadKillsProcess, Crash, Resets, Writing
<1>5. CASE MakeSimulatorDirectoryFails(p) \/ ReopenFails(p)
  <2>1. /\ pc' = [pc EXCEPT ![p] = "idle"] /\ dirsMap' = [dirsMap EXCEPT ![p] = NoDirs]
        /\ UNCHANGED <<file, chosen>>
    BY <1>5, LookUpReturns DEF MakeSimulatorDirectoryFails, ReopenFails
  <2> QED BY <1>0, <2>1, ChoiceKept DEF Writing
<1>6. CASE CreateFails(p) \/ MakeDirectoriesFails(p)
  <2>1. /\ pc' = [pc EXCEPT ![p] = "idle"] /\ dirsMap' = [dirsMap EXCEPT ![p] = NoDirs]
        /\ UNCHANGED <<file, chosen>>
    BY <1>6, LookUpReturns DEF CreateFails, MakeDirectoriesFails
  <2> QED BY <1>0, <2>1, ChoiceKept DEF Writing
<1>7. CASE ReopenConfigurationFile(p) \/ CreateConfigurationFile(p)
  BY <1>0, <1>7, ChoiceWritten DEF ReopenConfigurationFile, CreateConfigurationFile, Writing
<1>8. CASE RewriteConfigurationFile(p)
  <2>1. /\ pc' = [pc EXCEPT ![p] = "idle"] /\ dirsMap' = [dirsMap EXCEPT ![p] = NoDirs]
        /\ file' = TextOf(dirsMap[p]) /\ chosen' = chosen /\ pc[p] = "rewriting"
    BY <1>8, LookUpReturns DEF RewriteConfigurationFile
  <2> QED BY <1>0, <2>1, ChoiceWritten DEF Writing
<1>9. CASE WriteConfigurationFile(p)
  <2>1. /\ pc' = [pc EXCEPT ![p] = "idle"] /\ dirsMap' = [dirsMap EXCEPT ![p] = NoDirs]
        /\ file' = TextOf(dirsMap[p]) /\ chosen' = chosen /\ pc[p] = "writing"
    BY <1>9, LookUpReturns DEF WriteConfigurationFile
  <2> QED BY <1>0, <2>1, ChoiceWritten DEF Writing
<1> QED BY <1>1, <1>2, <1>3, <1>4, <1>5, <1>6, <1>7, <1>8, <1>9 DEF Step

\* Look-ups, which create the file and rewrite old ones (PrivateGetUserDirs), never
\* change what the user has set, whichever of them runs, fails or is killed when.
THEOREM LookUpsKeepSettings ==
  ASSUME Setters = {}, ThirdLinesFit
  PROVE  Spec => []SettingsAreTheUsersChoice
<1>1. SingleDirectories
  BY DEF SingleDirectories, LinesFit
<1>2. Init => ChoiceInv
  <2>1. SUFFICES ASSUME Init PROVE ChoiceInv
    OBVIOUS
  <2>2. file \in Seq(Line) \cup {NoFile} /\ LinesFit(file) /\ chosen = SettingsIn(file)
    <3>1. file \in InitialFiles /\ chosen = SettingsIn(file)
      BY <2>1 DEF Init
    <3> QED BY <1>1, <3>1, ConfigurationAssumption DEF SingleDirectories
  <2>3. file = NoFile => chosen = DefaultDirs
    BY <2>2 DEF SettingsIn, DefaultDirs
  <2>4. file # NoFile /\ NeedsRewrite(file) => Taken(file) = chosen
    BY <2>1, <2>2, SettingsOfAnOldFile DEF Init, ThirdLinesFit
  <2>5. Usable(file) => ReadDirs(file) = chosen
    BY <2>2, SettingsOfAUsableFile DEF Usable
  <2>6. \A p \in Processes : pc[p] \notin Writing
    BY <2>1 DEF Init, Writing
  <2> QED BY <2>3, <2>4, <2>5, <2>6 DEF ChoiceInv, SettingsAreTheUsersChoice
<1>3. Inv /\ ChoiceInv /\ [Next]_vars => ChoiceInv'
  <2>1. SUFFICES ASSUME Inv, ChoiceInv, [Next]_vars PROVE ChoiceInv'
    OBVIOUS
  <2>2. CASE Next
    <3>1. PICK p \in Processes :
            BeginLookUp(p) \/ (\E r \in Requests : BeginSet(p, r)) \/ Step(p) \/ Crash(p)
      BY <2>2 DEF Next
    <3>2. BeginLookUp(p) \/ Step(p) \/ Crash(p)
      BY <3>1 DEF BeginSet
    <3> QED BY <2>1, <3>2, ChoiceStep
  <2>3. CASE UNCHANGED vars
    <3>1. CASE Processes = {}
      <4> USE <2>3 DEF vars, script, history
      <4>1. file' = file /\ chosen' = chosen
        OBVIOUS
      <4>2. (NeedsRewrite(file)' <=> NeedsRewrite(file)) /\ Taken(file)' = Taken(file)
        BY <4>1 DEF NeedsRewrite, Reached, Accepted, Readable, Taken, ReadDirs
      <4>3. (Usable(file)' <=> Usable(file)) /\ ReadDirs(file)' = ReadDirs(file)
        BY <4>1 DEF Usable, Reached, Accepted, Readable, ReadDirs
      <4> QED BY <2>1, <3>1, <4>1, <4>2, <4>3 DEF ChoiceInv, SettingsAreTheUsersChoice
    <3>2. CASE Processes # {}
      <4>1. PICK p \in Processes : TRUE
        BY <3>2
      <4>2. UNCHANGED <<file, chosen, pc, dirsMap>>
        BY <2>3 DEF vars, history
      <4> QED BY <2>1, <4>1, <4>2, ChoiceKept DEF ChoiceInv
    <3> QED BY <3>1, <3>2
  <2> QED BY <2>1, <2>2, <2>3
<1>4. ChoiceInv => SettingsAreTheUsersChoice
  BY DEF ChoiceInv
<1> QED BY <1>1, <1>2, <1>3, <1>4, InitInv, NextInv, PTL DEF Spec
-----------------------------------------------------------------------------
(* One script among look-ups: each call is as if it were atomic. *)

OneScript == \A p, q \in Setters : p = q

\* The file is a configuration to start with, of one directory for each type.
FilesAreComplete == \A f \in InitialFiles : Usable(f) /\ LinesFit(f)

Filling == {"making", "writing"}

\* What a script that has read the three settings of f will write
Wanted(f, r) == [SettingsIn(f) EXCEPT ![r.type] = Plain(<<r.directory>>)]

ScriptInv(p) ==
  /\ pc[p] \in Writing => p \in Setters /\ pc[p] \in {"creating"} \cup Filling /\ round[p] = 7
  /\ round[p] \in 1..6 => pc[p] \in {"opening", "reading"}
  /\ pc[p] = "creating" => dirsMap[p] = Wanted(file, request[p])
  /\ round[p] \in 5..6 => gathered[p]["modelDriver"] = SettingsIn(file)["modelDriver"]
  /\ round[p] = 6 => gathered[p]["portableModel"] = SettingsIn(file)["portableModel"]

\* The file is whole, or the script is about to fill it.
WholeFile ==
  \/ Usable(file) /\ \A p \in Processes : pc[p] \notin Filling
  \/ file = <<>> /\ \E p \in Processes : pc[p] \in Filling

WholeInv == WholeFile /\ \A p \in Processes : ScriptInv(p)

\* CurrentSettings of a file f and processes at the stages st with the maps dm
CurrentIn(f, st, dm) ==
  IF f = <<>> /\ {p \in Processes : st[p] \in Truncating} # {}
  THEN dm[CHOOSE p \in {p \in Processes : st[p] \in Truncating} : TRUE] ELSE SettingsIn(f)

LEMMA CurrentSettingsAre ==
  /\ CurrentSettings = CurrentIn(file, pc, dirsMap)
  /\ CurrentSettings' = CurrentIn(file', pc', dirsMap')
BY DEF CurrentSettings, CurrentIn, Writers, SettingsIn

LEMMA CurrentOfWhole ==
  ASSUME NEW f, Usable(f), NEW st, NEW dm
  PROVE  CurrentIn(f, st, dm) = SettingsIn(f)
BY EmptyFile DEF CurrentIn

LEMMA CurrentOfEmpty ==
  ASSUME NEW st, NEW dm, NEW p \in Processes, st[p] \in Filling,
         \A q \in Processes : st[q] \in Truncating => q = p
  PROVE  CurrentIn(<<>>, st, dm) = dm[p]
<1>1. {q \in Processes : st[q] \in Truncating} = {p}
  BY DEF Filling, Truncating
<1> QED BY <1>1 DEF CurrentIn

\* Only the script writes.
LEMMA WriterIsTheScript ==
  ASSUME OneScript, Inv, WholeInv, NEW p \in Processes, p \in Setters
  PROVE  \A q \in Processes : pc[q] \in Writing => q = p
BY DEF WholeInv, ScriptInv, OneScript

\* A process that looks up finds a configuration or an empty file, and the
\* script, which alone could have emptied it, a configuration.
LEMMA WhatIsRead ==
  ASSUME OneScript, Inv, WholeInv, NEW p \in Processes, pc[p] = "reading"
  PROVE  /\ file # NoFile /\ ~NeedsRewrite(file) /\ ~ReadCrashes(file)
         /\ \/ Usable(file) /\ ~ReadFails(file) /\ ReadDirs(file) = SettingsIn(file)
               /\ CurrentSettings = SettingsIn(file)
            \/ file = <<>> /\ ReadFails(file) /\ ReadDirs(file) = NoDirs /\ request[p] = NoRequest
<1>1. CASE Usable(file)
  <2>1. file \in Seq(Line) /\ LinesFit(file) /\ file # NoFile
    BY <1>1, InvTypes DEF Usable, Inv, FileInv, TypeOK
  <2> QED BY <1>1, <2>1, SettingsOfAUsableFile, CurrentSettingsAre, CurrentOfWhole
<1>2. CASE file = <<>> /\ \E q \in Processes : pc[q] \in Filling
  <2>1. request[p] = NoRequest
    <3>1. PICK q \in Processes : pc[q] \in Filling
      BY <1>2
    <3>2. p \in Setters => q = p
      BY <3>1, WriterIsTheScript DEF Filling, Writing
    <3>3. p \notin Setters
      BY <3>1, <3>2 DEF Filling
    <3> QED BY <3>3 DEF Inv, ProcessInv
  <2> QED BY <1>2, <2>1, EmptyFile
<1> QED BY <1>1, <1>2 DEF WholeInv, WholeFile

LEMMA WholeKept ==
  ASSUME OneScript, Inv, WholeInv, NEW p \in Processes, file' = file,
         \A q \in Processes \ {p} : /\ pc'[q] = pc[q] /\ dirsMap'[q] = dirsMap[q] /\ gathered'[q] = gathered[q]
                                    /\ request'[q] = request[q] /\ round'[q] = round[q],
         pc'[p] \in Filling <=> pc[p] \in Filling,
         pc[p] \in Filling => dirsMap'[p] = dirsMap[p],
         pc'[p] \in Writing => p \in Setters /\ pc'[p] \in {"creating"} \cup Filling /\ round'[p] = 7,
         round'[p] \in 1..6 => pc'[p] \in {"opening", "reading"},
         pc'[p] = "creating" => dirsMap'[p] = Wanted(file, request'[p]),
         round'[p] \in 5..6 => gathered'[p]["modelDriver"] = SettingsIn(file)["modelDriver"],
         round'[p] = 6 => gathered'[p]["portableModel"] = SettingsIn(file)["portableModel"]
  PROVE  WholeInv' /\ CurrentSettings' = CurrentSettings
<1>1. (Usable(file)' <=> Usable(file)) /\ SettingsIn(file)' = SettingsIn(file)
  BY DEF Usable, Accepted, Readable, SettingsIn
<1>2. \A r : Wanted(file, r)' = Wanted(file, r)
  BY <1>1 DEF Wanted
<1>3. \A q \in Processes : pc'[q] \in Filling <=> pc[q] \in Filling
  OBVIOUS
<1>4. WholeFile'
  BY <1>1, <1>3 DEF WholeInv, WholeFile
<1>5. \A q \in Processes : ScriptInv(q)'
  <2>1. TAKE q \in Processes
  <2>2. CASE q = p
    BY <1>1, <2>2 DEF ScriptInv, Wanted
  <2>3. CASE q # p
    <3>1. ScriptInv(q)
      BY DEF WholeInv
    <3> QED BY <1>1, <2>3, <3>1 DEF ScriptInv, Wanted
  <2> QED BY <2>2, <2>3
<1>6. CurrentSettings' = CurrentSettings
  <2>1. CASE Usable(file)
    BY <2>1, CurrentSettingsAre, CurrentOfWhole
  <2>2. CASE file = <<>> /\ \E q \in Processes : pc[q] \in Filling
    <3>1. PICK w \in Processes : pc[w] \in Filling
      BY <2>2
    <3>2. w \in Setters
      BY <3>1 DEF WholeInv, ScriptInv, Writing, Filling
    <3>3. \A q \in Processes : pc[q] \in Truncating => q = w
      BY <3>2, WriterIsTheScript DEF Truncating, Writing
    <3>4. \A q \in Processes : pc'[q] \in Truncating => q = w
      <4>1. TAKE q \in Processes
      <4>2. HAVE pc'[q] \in Truncating
      <4>3. ScriptInv(q)'
        BY <1>5
      <4>4. q \in Setters
        BY <4>2, <4>3 DEF ScriptInv, Truncating, Writing
      <4> QED BY <3>2, <4>4 DEF OneScript
    <3>5. pc'[w] \in Filling /\ dirsMap'[w] = dirsMap[w]
      BY <1>3, <3>1
    <3>6. CurrentIn(file, pc, dirsMap) = dirsMap[w]
      <4>1. {q \in Processes : pc[q] \in Truncating} = {w}
        BY <3>1, <3>3 DEF Filling, Truncating
      <4> QED BY <2>2, <4>1 DEF CurrentIn
    <3>7. CurrentIn(file', pc', dirsMap') = dirsMap'[w]
      BY <2>2, <3>4, <3>5, CurrentOfEmpty
    <3> QED BY <3>5, <3>6, <3>7, CurrentSettingsAre
  <2> QED BY <2>1, <2>2 DEF WholeInv, WholeFile
<1> QED BY <1>4, <1>5, <1>6 DEF WholeInv
\* What a step of the abstract configuration is, in terms of the detailed one
AbstractStep ==
  \/ UNCHANGED <<CurrentSettings, answer>>
  \/ \E p \in Processes :
       \/ /\ p \in Setters /\ answer' = answer
          /\ \E t \in Types, d \in Directories :
               CurrentSettings' = [CurrentSettings EXCEPT ![t] = Plain(<<d>>)]
       \/ Answers(p, FALSE, CurrentSettings) /\ CurrentSettings' = CurrentSettings
       \/ Answers(p, TRUE, NoDirs) /\ CurrentSettings' = CurrentSettings

LEMMA AbstractSteps == AbstractStep => [Abstract!Next]_<<CurrentSettings, answer>>
<1>1. /\ Types = Abstract!Types
      /\ \A p, t, d : Abstract!Set(p, t, d) <=>
           /\ p \in Setters
           /\ CurrentSettings' = [CurrentSettings EXCEPT ![t] = Plain(<<d>>)]
           /\ answer' = answer
      /\ \A p : Abstract!LookUp(p) <=> Answers(p, FALSE, CurrentSettings) /\ CurrentSettings' = CurrentSettings
      /\ \A p : Abstract!Fail(p) <=> Answers(p, TRUE, NoDirs) /\ CurrentSettings' = CurrentSettings
  <2>1. Types = Abstract!Types
    BY DEF Types, Abstract!Types
  <2>2. NoDirs = [t \in Abstract!Types |-> [paths |-> <<>>, joined |-> FALSE]]
    BY <2>1 DEF NoDirs, NoList, Plain
  <2> QED BY <2>1, <2>2 DEF Abstract!Set, Abstract!LookUp, Abstract!Fail, Answers, Plain
<1> QED BY <1>1 DEF AbstractStep, Abstract!Next

\* What a look-up of the configuration or of an empty file does next
LEMMA ReadStep ==
  ASSUME OneScript, Inv, WholeInv, NEW p \in Processes, ReadConfigurationFile(p)
  PROVE  WholeInv' /\ AbstractStep
<1> DEFINE list == ReadDirs(file)[Asked(p)]
<1>1. TypeOK /\ pc[p] = "reading" /\ UNCHANGED <<file, made, history>>
  BY InvTypes DEF ReadConfigurationFile
<1>2. file # NoFile /\ ~NeedsRewrite(file) /\ UserDirsReturns(p, ReadFails(file), ReadDirs(file))
  BY <1>1, WhatIsRead DEF ReadConfigurationFile
<1>3. CASE request[p] = NoRequest
  <2>1. Resets(p) /\ Answers(p, ReadFails(file), ReadDirs(file))
    BY <1>2, <1>3 DEF UserDirsReturns
  <2>2. WholeInv' /\ CurrentSettings' = CurrentSettings
    BY <1>1, <2>1, InvTypes, WholeKept, SMTT(30) DEF TypeOK, Resets, Goes, Filling, Writing
  <2>3. Answers(p, FALSE, CurrentSettings) \/ Answers(p, TRUE, NoDirs)
    <3>1. CASE Usable(file)
      <4>1. ~ReadFails(file) /\ ReadDirs(file) = CurrentSettings
        BY <1>1, <3>1, WhatIsRead, EmptyFile
      <4>2. ReadFails(file) = FALSE
        BY <4>1 DEF ReadFails
      <4> QED BY <2>1, <4>1, <4>2
    <3>2. CASE ~Usable(file)
      BY <1>1, <2>1, <3>2, WhatIsRead DEF Answers
    <3> QED BY <3>1, <3>2
  <2> QED BY <2>2, <2>3 DEF AbstractStep
<1>4. CASE request[p] # NoRequest
  <2>1. /\ Usable(file) /\ ReadDirs(file) = SettingsIn(file)
        /\ p \in Setters /\ Setters # {} /\ file \in Seq(Line) /\ LinesFit(file)
    BY <1>1, <1>4, WhatIsRead, InvTypes DEF Inv, ProcessInv, FileInv, TypeOK
  <2>2. ScriptReads(p, list)
    <3>1. ~ReadFails(file)
      BY <1>1, <1>4, WhatIsRead
    <3> QED BY <1>2, <1>4, <3>1 DEF UserDirsReturns
  <2>3. Printed(list) = list /\ list = SettingsIn(file)[Asked(p)]
    <3>1. list \in List /\ Fits(list)
      BY <1>2, <2>1, ListsRead, AskedType DEF Lists, FitsAll
    <3>2. Len(list.paths) \in Nat /\ list = Plain(list.paths)
      BY <3>1, ListFields DEF Fits
    <3>3. (Len(list.paths) > 1) = FALSE
      BY <2>1, <3>1, <3>2 DEF Fits
    <3> QED BY <2>1, <3>2, <3>3 DEF Printed, Plain
  <2> HIDE DEF list
  <2> DEFINE known == IF round[p] <= 3 THEN gathered[p]
                      ELSE [gathered[p] EXCEPT ![Asked(p)] = Printed(list)]
             wanted == [known EXCEPT ![request[p].type] = Plain(<<request[p].directory>>)]
  <2>4. ScriptInv(p) /\ round[p] \in 0..7 /\ gathered[p] \in Lists
    BY <1>1 DEF WholeInv, TypeOK, Lists
  <2>5. known \in Lists
        /\ (round[p] \in 4..5 => known["modelDriver"] = SettingsIn(file)["modelDriver"])
        /\ (round[p] = 5 => known["portableModel"] = SettingsIn(file)["portableModel"])
        /\ (round[p] = 6 => known = SettingsIn(file))
    <3>1. SettingsIn(file) \in Lists
      BY <2>1, SettingsType
    <3>2. SettingsIn(file)[Asked(p)] \in List
      BY <3>1, AskedType DEF Lists
    <3>3. known \in Lists
      BY <2>3, <2>4, <3>2 DEF Lists
    <3>4. round[p] = 4 => known["modelDriver"] = SettingsIn(file)["modelDriver"]
      BY <2>3, <2>4, TypesAndLines DEF Asked, Lists
    <3>5. round[p] = 5 => /\ known["modelDriver"] = SettingsIn(file)["modelDriver"]
                          /\ known["portableModel"] = SettingsIn(file)["portableModel"]
      BY <2>3, <2>4, TypesAndLines DEF Asked, Lists, ScriptInv
    <3>6. round[p] = 6 => known = SettingsIn(file)
      <4>1. SUFFICES ASSUME round[p] = 6 PROVE \A t \in Types : known[t] = SettingsIn(file)[t]
        BY <3>1, <3>3 DEF Lists
      <4> QED BY <2>3, <2>4, <4>1, TypesAndLines DEF Asked, Lists, ScriptInv
    <3> QED BY <2>4, <3>3, <3>4, <3>5, <3>6
  <2> HIDE DEF known
  <2>6. CASE ScriptAborts(p)
    <3>1. Answers(p, TRUE, NoDirs)
      BY <2>6 DEF ScriptAborts
    <3>2. WholeInv' /\ CurrentSettings' = CurrentSettings
      BY <1>1, <2>6, InvTypes, WholeKept, SMTT(30) DEF TypeOK, ScriptAborts, Resets, Goes, Filling, Writing
    <3> QED BY <3>1, <3>2 DEF AbstractStep
  <2>7. CASE /\ round[p] < 6 /\ Goes(p, "opening") /\ round' = [round EXCEPT ![p] = @ + 1]
             /\ gathered' = [gathered EXCEPT ![p] = known]
             /\ dirsMap' = [dirsMap EXCEPT ![p] = NoDirs] /\ UNCHANGED <<request, answer>>
    <3>1. /\ pc'[p] = "opening" /\ round'[p] = round[p] + 1 /\ gathered'[p] = known
          /\ \A q \in Processes \ {p} : /\ pc'[q] = pc[q] /\ dirsMap'[q] = dirsMap[q] /\ gathered'[q] = gathered[q]
                                        /\ request'[q] = request[q] /\ round'[q] = round[q]
      BY <1>1, <2>7 DEF TypeOK, Goes
    <3>2. WholeInv' /\ CurrentSettings' = CurrentSettings
      BY <1>1, <2>4, <2>5, <2>7, <3>1, WholeKept DEF Filling, Writing
    <3> QED BY <2>7, <3>2 DEF AbstractStep
  <2>8. CASE /\ round[p] = 6 /\ Goes(p, "creating") /\ round' = [round EXCEPT ![p] = 7]
             /\ gathered' = [gathered EXCEPT ![p] = NoDirs]
             /\ dirsMap' = [dirsMap EXCEPT ![p] = wanted] /\ UNCHANGED <<request, answer>>
    <3>1. /\ pc'[p] = "creating" /\ round'[p] = 7 /\ dirsMap'[p] = Wanted(file, request'[p])
          /\ \A q \in Processes \ {p} : /\ pc'[q] = pc[q] /\ dirsMap'[q] = dirsMap[q] /\ gathered'[q] = gathered[q]
                                        /\ request'[q] = request[q] /\ round'[q] = round[q]
      BY <1>1, <2>5, <2>8 DEF TypeOK, Goes, Wanted
    <3>2. WholeInv' /\ CurrentSettings' = CurrentSettings
      BY <1>1, <2>1, <3>1, WholeKept DEF Filling, Writing
    <3> QED BY <2>8, <3>2 DEF AbstractStep
  <2> QED BY <2>2, <2>6, <2>7, <2>8 DEF ScriptReads, known, wanted
<1> QED BY <1>3, <1>4
\* The script empties the file: from here on the settings are those it will write.
LEMMA CreateStep ==
  ASSUME OneScript, Inv, WholeInv, NEW p \in Processes, CreateConfigurationFile(p)
  PROVE  WholeInv' /\ AbstractStep
<1>1. /\ pc[p] = "creating" /\ file' = <<>> /\ UNCHANGED <<dirsMap, script, answer>>
      /\ pc'[p] = "making" /\ (\A q \in Processes \ {p} : pc'[q] = pc[q])
  BY InvTypes DEF CreateConfigurationFile, Goes, TypeOK
<1>2. p \in Setters /\ round[p] = 7 /\ dirsMap[p] = Wanted(file, request[p])
  BY <1>1 DEF WholeInv, ScriptInv, Writing
<1>3. \A q \in Processes : pc[q] \in Writing => q = p
  BY <1>2, WriterIsTheScript
<1>4. Usable(file)
  BY <1>1, <1>3 DEF WholeInv, WholeFile, Filling, Writing
<1>5. WholeInv'
  <2>1. WholeFile'
    BY <1>1 DEF WholeFile, Filling
  <2>2. \A q \in Processes : ScriptInv(q)'
    <3>1. TAKE q \in Processes
    <3>2. CASE q = p
      BY <1>1, <1>2, <3>2 DEF ScriptInv, Filling, Writing, script
    <3>3. CASE q # p
      <4>1. ScriptInv(q) /\ pc'[q] = pc[q] /\ pc[q] \notin Writing
        BY <1>1, <1>3, <3>3 DEF WholeInv
      <4>2. round[q] \notin 5..6
        <5>1. round[q] # 0 => q \in Setters
          BY DEF Inv, ProcessInv
        <5>2. q \notin Setters
          BY <1>2, <3>3 DEF OneScript
        <5> QED BY <5>1, <5>2
      <4> QED BY <1>1, <4>1, <4>2 DEF ScriptInv, Writing, script
    <3> QED BY <3>2, <3>3
  <2> QED BY <2>1, <2>2 DEF WholeInv
<1>6. CurrentSettings = SettingsIn(file)
  BY <1>4, CurrentSettingsAre, CurrentOfWhole
<1>7. CurrentSettings' = dirsMap[p]
  <2>1. \A q \in Processes : pc'[q] \in Truncating => q = p
    BY <1>1, <1>3 DEF Truncating, Writing
  <2>2. {q \in Processes : pc'[q] \in Truncating} = {p}
    BY <1>1, <2>1 DEF Truncating
  <2> QED BY <1>1, <2>2, CurrentSettingsAre DEF CurrentIn
<1>8. request[p].type \in Types /\ request[p].directory \in Directories
  <2>1. request[p] # NoRequest
    BY <1>2 DEF Inv, ProcessInv
  <2> QED BY <2>1, InvTypes, ConfigurationAssumption DEF TypeOK, Request
<1>9. CurrentSettings' = [CurrentSettings EXCEPT ![request[p].type] = Plain(<<request[p].directory>>)]
  BY <1>2, <1>6, <1>7 DEF Wanted
<1> QED BY <1>1, <1>2, <1>5, <1>8, <1>9 DEF AbstractStep

\* The script fills the file, and only then returns.
LEMMA WriteStep ==
  ASSUME OneScript, Inv, WholeInv, NEW p \in Processes, WriteConfigurationFile(p)
  PROVE  WholeInv' /\ AbstractStep
<1>1. pc[p] = "writing" /\ file' = TextOf(dirsMap[p]) /\ TypeOK
  BY InvTypes DEF WriteConfigurationFile
<1>2. p \in Setters /\ round[p] = 7
  BY <1>1 DEF WholeInv, ScriptInv, Writing
<1>3. Resets(p) /\ Answers(p, FALSE, dirsMap[p])
  BY <1>2 DEF WriteConfigurationFile, WriteReturns
<1>4. Usable(file') /\ SettingsIn(file') = dirsMap[p]
  <2>1. dirsMap[p] \in Lists /\ FitsAll(dirsMap[p]) /\ Full(dirsMap[p])
    BY <1>1 DEF Inv, ProcessInv, TypeOK, Lists, Writing
  <2> QED BY <1>1, <2>1, TextIsUsable
<1>5. \A q \in Processes : pc[q] \in Writing => q = p
  BY <1>2, WriterIsTheScript
<1>6. file = <<>>
  BY <1>1 DEF WholeInv, WholeFile, Filling
<1>7. CurrentSettings = dirsMap[p]
  <2>1. {q \in Processes : pc[q] \in Truncating} = {p}
    BY <1>1, <1>5 DEF Truncating, Writing
  <2> QED BY <1>6, <2>1, CurrentSettingsAre DEF CurrentIn
<1>8. CurrentSettings' = dirsMap[p]
  BY <1>4, CurrentSettingsAre, CurrentOfWhole
<1>9. WholeInv'
  <2>1. /\ pc'[p] = "idle" /\ round'[p] = 0
        /\ \A q \in Processes \ {p} : pc'[q] = pc[q] /\ round'[q] = round[q]
    BY <1>1, <1>3 DEF TypeOK, Resets, Goes
  <2>2. \A q \in Processes : pc'[q] \notin Writing
    BY <1>5, <2>1 DEF Writing
  <2>3. Usable(file)'
    BY <1>4 DEF Usable, Accepted, Readable
  <2>4. WholeFile'
    BY <2>2, <2>3 DEF WholeFile, Filling, Writing
  <2>5. \A q \in Processes : round'[q] \notin 1..6
    <3>1. TAKE q \in Processes
    <3>2. CASE q # p
      <4>1. q \notin Setters
        BY <1>2, <3>2 DEF OneScript
      <4> QED BY <2>1, <3>2, <4>1 DEF Inv, ProcessInv
    <3> QED BY <2>1, <3>2
  <2>6. \A q \in Processes : ScriptInv(q)'
    BY <2>2, <2>5 DEF ScriptInv, Writing
  <2> QED BY <2>4, <2>6 DEF WholeInv
<1> QED BY <1>3, <1>7, <1>8, <1>9 DEF AbstractStep

LEMMA AtomicStep ==
  ASSUME OneScript, ~MayCrash, ~MayFail, Inv, WholeInv, NEW p \in Processes,
         BeginLookUp(p) \/ (\E r \in Requests : BeginSet(p, r)) \/ Step(p) \/ Crash(p)
  PROVE  WholeInv' /\ AbstractStep
<1>1. TypeOK /\ ScriptInv(p) /\ file # NoFile
  <2>1. file # NoFile
    BY EmptyFile DEF WholeInv, WholeFile, Usable
  <2> QED BY <2>1, InvTypes DEF WholeInv
<1>2. CASE BeginLookUp(p)
  <2>1. WholeInv' /\ CurrentSettings' = CurrentSettings
    BY <1>1, <1>2, WholeKept DEF BeginLookUp, TypeOK, Goes, script, Filling, Writing, ScriptInv
  <2> QED BY <1>2, <2>1 DEF BeginLookUp, AbstractStep
<1>3. CASE \E r \in Requests : BeginSet(p, r)
  <2>1. WholeInv' /\ CurrentSettings' = CurrentSettings
    BY <1>1, <1>3, WholeKept, SMTT(60) DEF BeginSet, TypeOK, Goes, Filling, Writing
  <2> QED BY <1>3, <2>1 DEF BeginSet, AbstractStep
<1>4. CASE OpenConfigurationFile(p)
  <2>1. WholeInv' /\ CurrentSettings' = CurrentSettings
    BY <1>1, <1>4, WholeKept DEF OpenConfigurationFile, TypeOK, Goes, script, Filling, Writing, ScriptInv
  <2> QED BY <1>4, <2>1 DEF OpenConfigurationFile, AbstractStep
<1>5. CASE MakeDirectories(p)
  <2>1. WholeInv' /\ CurrentSettings' = CurrentSettings
    BY <1>1, <1>5, WholeKept DEF MakeDirectories, TypeOK, Goes, script, Filling, Writing, ScriptInv
  <2> QED BY <1>5, <2>1 DEF MakeDirectories, AbstractStep
<1>6. CASE ReadKillsProcess(p)
  BY <1>6, WhatIsRead DEF ReadKillsProcess
<1>7. CASE MakeSimulatorDirectory(p) \/ ReopenConfigurationFile(p) \/ RewriteConfigurationFile(p)
  BY <1>1, <1>7 DEF MakeSimulatorDirectory, ReopenConfigurationFile, RewriteConfigurationFile,
                    ScriptInv, Writing, Filling
<1>8. CASE MakeSimulatorDirectoryFails(p) \/ ReopenFails(p) \/ CreateFails(p) \/ MakeDirectoriesFails(p) \/ Crash(p)
  BY <1>8 DEF MakeSimulatorDirectoryFails, ReopenFails, CreateFails, MakeDirectoriesFails, Crash
<1> QED BY <1>2, <1>3, <1>4, <1>5, <1>6, <1>7, <1>8, ReadStep, CreateStep, WriteStep DEF Step

\* The look-ups of any number of processes (PrivateGetUserDirs) and the changes of one
\* script (set-user-...-dir) are as if each were atomic, although the file is emptied
\* first and filled at the end: a look-up that meets it empty returns an error, not the
\* settings of no moment.
THEOREM Refinement ==
  ASSUME OneScript, FilesAreComplete, ~MayCrash, ~MayFail
  PROVE  Spec => ImplementsAbstractConfiguration
<1>1. SingleDirectories
  BY DEF SingleDirectories, FilesAreComplete
<1>2. Init => WholeInv /\ Abstract!Init
  <2>1. SUFFICES ASSUME Init PROVE WholeInv /\ Abstract!Init
    OBVIOUS
  <2>2. Usable(file)
    BY <2>1 DEF Init, FilesAreComplete
  <2>3. \A p \in Processes : pc[p] = "idle" /\ round[p] = 0 /\ ~answer[p].error
    BY <2>1 DEF Init
  <2>4. WholeInv
    BY <2>2, <2>3 DEF WholeInv, WholeFile, ScriptInv, Filling, Writing
  <2> QED BY <2>3, <2>4 DEF Abstract!Init
<1>3. Inv /\ WholeInv /\ [Next]_vars => WholeInv' /\ [Abstract!Next]_<<CurrentSettings, answer>>
  <2>1. SUFFICES ASSUME Inv, WholeInv, [Next]_vars PROVE WholeInv' /\ AbstractStep
    BY AbstractSteps
  <2>2. CASE Next
    BY <2>1, <2>2, AtomicStep DEF Next
  <2>3. CASE UNCHANGED vars
    <3> USE <2>3 DEF vars, script, history
    <3>1. (Usable(file)' <=> Usable(file)) /\ SettingsIn(file)' = SettingsIn(file)
      BY DEF Usable, Accepted, Readable, SettingsIn
    <3>2. WholeFile' /\ \A p \in Processes : ScriptInv(p)'
      BY <2>1, <3>1 DEF WholeInv, WholeFile, ScriptInv, Wanted
    <3>3. CurrentSettings' = CurrentSettings
      BY CurrentSettingsAre
    <3> QED BY <3>2, <3>3 DEF WholeInv, AbstractStep
  <2> QED BY <2>1, <2>2, <2>3
<1> QED BY <1>1, <1>2, <1>3, InitInv, NextInv, PTL
        DEF Spec, ImplementsAbstractConfiguration, Abstract!Spec
=============================================================================
