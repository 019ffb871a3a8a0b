---------------------------- MODULE RecordFileName ----------------------------
(***************************************************************************)
(* The files of all recorders: setOutputFile, the names start and          *)
(* takeSnapshot make, what the pipelines write and which path is answered. *)
(*                                                                         *)
(* A name has the local time in seconds from one reading of the clock and  *)
(* the hundredths from a later reading of a finer one.  The clock goes on  *)
(* between them, and local time goes back when summer time ends.           *)
(***************************************************************************)
EXTENDS Integers

CONSTANTS
  RecorderIds,
  Targets,     \* the folders files may be in
  Requests,    \* what clients ask for
  AudioOnly,   \* the recorders that have no video source
  Second,      \* readings of the clock in a second: 100 in the code
  LocalTime,   \* local time at each second
  MaxClock,    \* BOUND: readings of the clock
  MaxFiles     \* BOUND: files that are written

\* A folder as it is written: what the text begins with, and the place it leads to.  They
\* differ when the text goes on with "..".
Places == Targets \cup {"elsewhere"}
Folders == [begins : Places, place : Places]

\* Names the recorders make have a prefix and a time.  A client may ask for one of those too.
Prefixes == {"Record", "Audio", "Capture"}
FileNames == [prefix : Prefixes \cup {"other"}, time : Nat, hundredths : Nat]
NoName == [prefix |-> "none", time |-> 0, hundredths |-> 0]

\* What may be asked for: a file, that is a path with one of the extensions that are taken
\* as they are, or a folder.
AnyRequest == [folder : Folders, file : FileNames \cup {NoName}]

NoFolder == [begins |-> "none", place |-> "none"]
NoRequest == [folder |-> NoFolder, file |-> NoName]

\* "/media/internal/" is the default.
Default == [folder |-> [begins |-> "media", place |-> "media"], file |-> NoName]

ASSUME FileNameAssumption ==
  /\ AudioOnly \subseteq RecorderIds /\ "media" \in Targets
  /\ Requests \subseteq AnyRequest
  /\ Second \in Nat \ {0} /\ MaxClock \in Nat /\ MaxFiles \in Nat
  /\ LocalTime \in [0..MaxClock -> Nat]

\* Only the text is looked at.
IsInTargetFolders(request) == request.folder.begins \in Targets

\* What is kept of what is asked for, and the paths of files.
Accepted == [folder : [begins : Targets, place : Places], file : FileNames \cup {NoName}]
Paths == [folder : [begins : Targets, place : Places], file : FileNames]

NoCall == [id |-> "none", prefix |-> "none", asked |-> NoRequest]

VARIABLES
  clock,
  base,      \* mRecordBasePath of each recorder
  path,      \* mRecordPath of each recorder
  doing,     \* the number of the recording each recorder is making, or 0
  pc,        \* where the handler is that calls createRecordFileName
  call,      \* the recorder, the prefix and the path it is called with
  first,     \* when the seconds were read
  last,      \* when the hundredths were read
  name,      \* the path that was made
  count,     \* the files that have been written
  written,   \* history: those files
  answered   \* history: the paths that were answered, and for which file

vars == <<clock, base, path, doing, pc, call, first, last, name, count, written, answered>>

Files == [no : 1..MaxFiles, path : Paths, asked : BOOLEAN,
          first : 0..MaxClock, last : 0..MaxClock]

\* The text of every path that is kept begins with a target folder, whatever is asked for.
\* Where it leads nothing looks at, so it may be a place outside them.
TypeOK ==
  /\ clock \in 0..MaxClock /\ first \in 0..MaxClock /\ last \in 0..MaxClock
  /\ base \in [RecorderIds -> Accepted \cup {NoRequest}]
  /\ path \in [RecorderIds -> Paths \cup {NoRequest}]
  /\ doing \in [RecorderIds -> 0..MaxFiles] /\ count \in 0..MaxFiles
  /\ pc \in {"loop", "hundredths", "pipeline"}
  /\ call \in [id : RecorderIds, prefix : Prefixes, asked : Accepted] \cup {NoCall}
  /\ name \in Paths \cup {NoRequest}
  /\ written \subseteq Files
  /\ answered \subseteq [no : 1..MaxFiles, path : Paths]

Init ==
  /\ clock = 0 /\ first = 0 /\ last = 0 /\ count = 0
  /\ base = [id \in RecorderIds |-> NoRequest]
  /\ path = [id \in RecorderIds |-> NoRequest]
  /\ doing = [id \in RecorderIds |-> 0]
  /\ pc = "loop" /\ call = NoCall /\ name = NoRequest
  /\ written = {} /\ answered = {}

-----------------------------------------------------------------------------

\* Time goes on, also while a handler runs.
Tick ==
  /\ clock < MaxClock
  /\ clock' = clock + 1
  /\ UNCHANGED <<base, path, doing, pc, call, first, last, name, count, written, answered>>

\* Mutant: any path is taken.
SetOutputFileAnywhere(id, request) ==
  /\ pc = "loop" /\ doing[id] = 0
  /\ base' = [base EXCEPT ![id] = request]
  /\ UNCHANGED <<clock, path, doing, pc, call, first, last, name, count, written, answered>>

SetOutputFile(id, request) ==
  /\ pc = "loop" /\ doing[id] = 0 /\ IsInTargetFolders(request)
  /\ base' = [base EXCEPT ![id] = request]
  /\ UNCHANGED <<clock, path, doing, pc, call, first, last, name, count, written, answered>>

\* createRecordFileName: a file name is taken as it is, otherwise the time is read.
CreateRecordFileName(id, prefix, asked) ==
  /\ call' = [id |-> id, prefix |-> prefix, asked |-> asked]
  /\ first' = clock /\ last' = clock
  /\ IF asked.file # NoName THEN pc' = "pipeline" /\ name' = asked
                            ELSE pc' = "hundredths" /\ name' = NoRequest

\* Without a path that was set the default is kept for later recordings too.
BaseOf(id) == IF base[id] = NoRequest THEN Default ELSE base[id]

\* start, once it has come to the name of the file.
Start(id) ==
  /\ pc = "loop" /\ doing[id] = 0 /\ count < MaxFiles
  /\ base' = [base EXCEPT ![id] = BaseOf(id)]
  /\ CreateRecordFileName(id, IF id \in AudioOnly THEN "Audio" ELSE "Record", BaseOf(id))
  /\ UNCHANGED <<clock, path, doing, count, written, answered>>

\* takeSnapshot, which is given a path with each request.
TakeSnapshot(id, request) ==
  /\ pc = "loop" /\ doing[id] # 0 /\ count < MaxFiles
  /\ IsInTargetFolders(request)
  /\ CreateRecordFileName(id, "Capture", request)
  /\ UNCHANGED <<clock, base, path, doing, count, written, answered>>

\* The path that is made of the two readings.
Timed(hundredths) ==
  [folder |-> call.asked.folder,
   file |-> [prefix |-> call.prefix, time |-> LocalTime[first \div Second],
             hundredths |-> hundredths]]

\* Mutant: the hundredths are left out.
NameWithoutHundredths ==
  /\ pc = "hundredths"
  /\ name' = Timed(0)
  /\ last' = clock /\ pc' = "pipeline"
  /\ UNCHANGED <<clock, base, path, doing, call, first, count, written, answered>>

\* The second half of createRecordFileName: the hundredths, and the name.
NameWithHundredths ==
  /\ pc = "hundredths"
  /\ name' = Timed(clock % Second)
  /\ last' = clock /\ pc' = "pipeline"
  /\ UNCHANGED <<clock, base, path, doing, call, first, count, written, answered>>

\* A file that there is is written over.
Write ==
  /\ count' = count + 1
  /\ written' = written \cup {[no |-> count + 1, path |-> name, asked |-> call.asked.file # NoName,
                               first |-> first, last |-> last]}

\* The handler answers.
Return == pc' = "loop" /\ call' = NoCall /\ first' = 0 /\ last' = 0 /\ name' = NoRequest

\* The pipeline is told to start.  It may fail, and its reply may be lost.
PipelineStarts ==
  /\ pc = "pipeline" /\ call.prefix # "Capture"
  /\ path' = [path EXCEPT ![call.id] = name]
  /\ \/ Write /\ doing' = [doing EXCEPT ![call.id] = count + 1]
     \/ Write /\ UNCHANGED doing
     \/ UNCHANGED <<count, written, doing>>
  /\ Return
  /\ UNCHANGED <<clock, base, answered>>

\* A snapshot is answered with its path, captured or not.
SnapshotTaken ==
  /\ pc = "pipeline" /\ call.prefix = "Capture"
  /\ \/ Write /\ answered' = answered \cup {[no |-> count + 1, path |-> name]}
     \/ UNCHANGED <<count, written, answered>>
  /\ Return
  /\ UNCHANGED <<clock, base, path, doing>>

\* stop is answered with mRecordPath, or fails.
Stop(id) ==
  /\ pc = "loop" /\ doing[id] # 0
  /\ answered' = answered \cup {[no |-> doing[id], path |-> path[id]]}
  /\ doing' = [doing EXCEPT ![id] = 0]
  /\ UNCHANGED <<clock, base, path, pc, call, first, last, name, count, written>>

-----------------------------------------------------------------------------

Next ==
  \/ Tick
  \/ \E id \in RecorderIds :
       \/ \E request \in Requests : SetOutputFile(id, request) \/ TakeSnapshot(id, request)
       \/ Start(id)
       \/ Stop(id)
  \/ NameWithHundredths \/ PipelineStarts \/ SnapshotTaken

Spec == Init /\ [][Next]_vars

-----------------------------------------------------------------------------
\* Properties.

\* Two paths lead to one file, however they are written.
SameFile(one, other) == one.folder.place = other.folder.place /\ one.file = other.file

\* A second begins between the two readings: the name is almost a second early.
Straddles(file) == file.first \div Second # file.last \div Second

\* Why two files may get one name: one of them was asked for by that name, both were begun
\* in one hundredth, a second began while one got its name, or summer time ended between them.
MayShare(file, other) ==
  \/ file.asked \/ other.asked
  \/ file.last = other.last
  \/ Straddles(file) \/ Straddles(other)
  \/ \E s, t \in 0..MaxClock : s # t /\ LocalTime[s] = LocalTime[t]
       /\ s = file.last \div Second /\ t = other.last \div Second

\* The path that stop and takeSnapshot answer is that of the recorder's own recording or
\* capture, whatever other recorders, failed starts and lost replies came between, and
\* nothing was written over it later, by any recorder under any spelling of its path, but
\* for these reasons.
KeptFile ==
  \A answer \in answered : \E file \in written :
    /\ file.no = answer.no /\ file.path = answer.path
    /\ \A other \in written :
         other.no > file.no /\ SameFile(other.path, file.path) => MayShare(file, other)
=============================================================================
