------------------------- MODULE RecordFileNameProofs -------------------------
(***************************************************************************)
(* Proofs about RecordFileName, for any recorders, folders and number of   *)
(* files, any length of a second and any local time.                       *)
(***************************************************************************)
EXTENDS RecordFileName, TLAPS

-----------------------------------------------------------------------------
\* The clock.

\* A reading is determined by its second and its part of it.
LEMMA SameReading ==
  ASSUME NEW a \in Nat, NEW b \in Nat, a \div Second = b \div Second, a % Second = b % Second
  PROVE  a = b
<1>1. \A n \in Nat, d \in Nat \ {0} : n = d * (n \div d) + (n % d)
  OBVIOUS
<1> QED
  BY <1>1, FileNameAssumption

\* A second that has begun has a local time, and a part of it is a number.
LEMMA SecondIn ==
  ASSUME NEW a \in 0..MaxClock
  PROVE  /\ a \div Second \in 0..MaxClock /\ a % Second \in Nat
         /\ LocalTime[a \div Second] \in Nat
<1>1. \A n \in Nat, d \in Nat \ {0} : n \div d \in Nat /\ n \div d <= n /\ n % d \in Nat
  OBVIOUS
<1>2. a \div Second \in 0..MaxClock /\ a % Second \in Nat
  BY <1>1, FileNameAssumption
<1> QED
  BY <1>2, FileNameAssumption

-----------------------------------------------------------------------------
\* Paths.

\* A record is made of its fields.
LEMMA RequestFields ==
  ASSUME NEW r \in AnyRequest
  PROVE  r.folder \in Folders /\ r.file \in FileNames \cup {NoName}
         /\ r = [folder |-> r.folder, file |-> r.file]
BY DEF AnyRequest

\* What passes the test of the text is accepted.
LEMMA RequestAccepted ==
  ASSUME NEW r \in Requests, IsInTargetFolders(r)
  PROVE  r \in Accepted
<1>1. r \in AnyRequest
  BY FileNameAssumption
<1>2. r.folder \in [begins : Targets, place : Places]
  BY <1>1, RequestFields DEF IsInTargetFolders, Folders
<1> QED
  BY <1>1, <1>2, RequestFields DEF Accepted

LEMMA DefaultAccepted == Default \in Accepted
BY FileNameAssumption DEF Default, Accepted, Places

\* A file that is asked for is a path as it is, and a folder makes one with a name.
LEMMA AcceptedPath ==
  ASSUME NEW r \in Accepted
  PROVE  /\ r.file # NoName => r \in Paths
         /\ \A file \in FileNames : [folder |-> r.folder, file |-> file] \in Paths
BY DEF Accepted, Paths

LEMMA TimedPath ==
  ASSUME call.asked \in Accepted, call.prefix \in Prefixes, first \in 0..MaxClock,
         NEW h \in Nat
  PROVE  /\ Timed(h) \in Paths
         /\ Timed(h).file.time = LocalTime[first \div Second] /\ Timed(h).file.hundredths = h
<1> DEFINE file == [prefix |-> call.prefix, time |-> LocalTime[first \div Second], hundredths |-> h]
<1>1. file \in FileNames
  BY SecondIn DEF FileNames
<1>2. Timed(h) = [folder |-> call.asked.folder, file |-> file]
  BY DEF Timed
<1>3. file.time = LocalTime[first \div Second] /\ file.hundredths = h
  OBVIOUS
<1> HIDE DEF file
<1>4. Timed(h).file = file
  BY <1>2
<1> QED
  BY <1>1, <1>2, <1>3, <1>4, AcceptedPath

-----------------------------------------------------------------------------
\* The inductive invariant.

\* A path that was made has the local time of one reading and the hundredths of the other.
TimedAt(p, f, l) ==
  p.file.time = LocalTime[f \div Second] /\ p.file.hundredths = l % Second

ByName == call.asked.file # NoName

\* A handler knows what it is about; a start is about a recorder that is not recording.
CallInv ==
  /\ pc # "loop" => call.id \in RecorderIds /\ call.prefix \in Prefixes /\ call.asked \in Accepted
  /\ pc # "loop" => count < MaxFiles
  /\ pc # "loop" /\ call.prefix # "Capture" => doing[call.id] = 0
  /\ pc = "hundredths" => ~ByName
  /\ pc = "pipeline" => name \in Paths /\ (~ByName => TimedAt(name, first, last))

\* Files are numbered in order.
FilesInv == \A f \in written : f.no <= count /\ (~f.asked => TimedAt(f.path, f.first, f.last))

\* The path a recorder keeps while it records is that of its own file.
DoingInv ==
  \A id \in RecorderIds : doing[id] # 0 =>
    \E f \in written : f.no = doing[id] /\ f.path = path[id]

AnsweredInv == \A a \in answered : \E f \in written : f.no = a.no /\ f.path = a.path

IInv == TypeOK /\ CallInv /\ FilesInv /\ DoingInv /\ AnsweredInv

-----------------------------------------------------------------------------

\* What is written, and what is answered.
NewFile ==
  [no |-> count + 1, path |-> name, asked |-> ByName, first |-> first, last |-> last]
Answer(n, p) == [no |-> n, path |-> p]

LEMMA WriteMakes ==
  ASSUME TypeOK, CallInv, pc = "pipeline", Write
  PROVE  /\ count' = count + 1 /\ count' \in 1..MaxFiles /\ written' = written \cup {NewFile}
         /\ NewFile \in Files /\ NewFile.no = count + 1 /\ NewFile.path = name
         /\ NewFile.first = first /\ NewFile.last = last /\ NewFile.asked = ByName
<1>1. count' = count + 1 /\ count' \in 1..MaxFiles
  BY FileNameAssumption DEF TypeOK, CallInv, Write
<1>2. written' = written \cup {NewFile}
  BY DEF Write, NewFile, ByName
<1>3. name \in Paths /\ first \in 0..MaxClock /\ last \in 0..MaxClock
  BY DEF TypeOK, CallInv
<1>4. NewFile \in Files
  BY <1>1, <1>3 DEF NewFile, Files, ByName
<1>5. NewFile.no = count + 1 /\ NewFile.path = name /\ NewFile.first = first /\ NewFile.last = last
     /\ NewFile.asked = ByName
  BY DEF NewFile
<1> QED
  BY <1>1, <1>2, <1>4, <1>5

LEMMA AnswerFields ==
  ASSUME NEW n, NEW p
  PROVE  /\ Answer(n, p).no = n /\ Answer(n, p).path = p
         /\ n \in 1..MaxFiles /\ p \in Paths => Answer(n, p) \in [no : 1..MaxFiles, path : Paths]
BY DEF Answer

\* Nothing has been asked for.
LEMMA InitIInv == Init => IInv
BY FileNameAssumption
   DEF Init, IInv, TypeOK, CallInv, FilesInv, DoingInv, AnsweredInv, NoCall, NoRequest

\* Each step leaves the types.
LEMMA NextTypeOK == TypeOK /\ CallInv /\ DoingInv /\ [Next]_vars => TypeOK'
<1> SUFFICES ASSUME TypeOK, CallInv, DoingInv, [Next]_vars PROVE TypeOK'
  OBVIOUS
<1>1. CASE Tick
  BY <1>1, FileNameAssumption
     DEF Tick, TypeOK
<1>2. ASSUME NEW id \in RecorderIds, NEW request \in Requests, SetOutputFile(id, request)
     PROVE  TypeOK'
  BY <1>2, RequestAccepted DEF SetOutputFile, TypeOK
<1>3. ASSUME NEW id \in RecorderIds, NEW request \in Requests, TakeSnapshot(id, request)
     PROVE  TypeOK'
  <2>1. request \in Accepted /\ (request.file # NoName => request \in Paths)
    BY <1>3, RequestAccepted, AcceptedPath DEF TakeSnapshot
  <2> QED
    BY <1>3, <2>1 DEF TakeSnapshot, CreateRecordFileName, TypeOK, Prefixes
<1>4. ASSUME NEW id \in RecorderIds, Start(id)
     PROVE  TypeOK'
  <2>1. BaseOf(id) \in Accepted /\ (BaseOf(id).file # NoName => BaseOf(id) \in Paths)
    BY DefaultAccepted, AcceptedPath DEF BaseOf, TypeOK
  <2> HIDE DEF BaseOf
  <2> QED
    BY <1>4, <2>1 DEF Start, CreateRecordFileName, TypeOK, Prefixes
<1>5. ASSUME NEW id \in RecorderIds, Stop(id)
     PROVE  TypeOK'
  <2>1. doing[id] \in 1..MaxFiles
    BY <1>5, FileNameAssumption DEF Stop, TypeOK
  <2>2. path[id] \in Paths
    BY <1>5 DEF Stop, TypeOK, DoingInv, Files
  <2>3. answered' = answered \cup {Answer(doing[id], path[id])}
    BY <1>5 DEF Stop, Answer
  <2>4. answered' \subseteq [no : 1..MaxFiles, path : Paths]
    BY <2>1, <2>2, <2>3, AnswerFields DEF TypeOK
  <2>5. doing' \in [RecorderIds -> 0..MaxFiles]
    BY <1>5, FileNameAssumption DEF Stop, TypeOK
  <2> QED
    BY <1>5, <2>4, <2>5 DEF Stop, TypeOK
<1>6. CASE NameWithHundredths
  <2>1. clock % Second \in Nat /\ call.asked \in Accepted /\ call.prefix \in Prefixes
    BY <1>6, SecondIn DEF NameWithHundredths, CallInv, TypeOK
  <2>3. name' \in Paths
    BY <2>1, <1>6, TimedPath DEF NameWithHundredths, TypeOK
  <2> QED
    BY <1>6, <2>3 DEF NameWithHundredths, TypeOK
<1>7. CASE PipelineStarts
  <2>1. name \in Paths /\ call.id \in RecorderIds
    BY <1>7 DEF PipelineStarts, CallInv
  <2>2. path' \in [RecorderIds -> Paths \cup {NoRequest}]
    BY <1>7, <2>1 DEF PipelineStarts, TypeOK
  <2>3. /\ count' \in 0..MaxFiles /\ written' \subseteq Files
        /\ doing' \in [RecorderIds -> 0..MaxFiles]
    <3>1. CASE Write
      BY <1>7, <3>1, WriteMakes DEF PipelineStarts, TypeOK
    <3>2. CASE UNCHANGED <<count, written, doing>>
      BY <3>2 DEF TypeOK
    <3> QED
      BY <1>7, <3>1, <3>2 DEF PipelineStarts
  <2>4. answered' \subseteq [no : 1..MaxFiles, path : Paths]
    BY <1>7 DEF PipelineStarts, TypeOK
  <2> QED
    BY <1>7, <2>2, <2>3, <2>4, FileNameAssumption DEF PipelineStarts, Return, TypeOK
<1>8. CASE SnapshotTaken
  <2>1. name \in Paths
    BY <1>8 DEF SnapshotTaken, CallInv
  <2>2. /\ count' \in 0..MaxFiles /\ written' \subseteq Files
        /\ answered' \subseteq [no : 1..MaxFiles, path : Paths]
    <3>1. CASE Write /\ answered' = answered \cup {[no |-> count + 1, path |-> name]}
      <4>1. answered' = answered \cup {Answer(count + 1, name)}
        BY <3>1 DEF Answer
      <4>2. /\ count' = count + 1 /\ count' \in 1..MaxFiles
            /\ written' = written \cup {NewFile} /\ NewFile \in Files
        BY <1>8, <3>1, WriteMakes DEF SnapshotTaken
      <4>3. count' \in 0..MaxFiles /\ written' \subseteq Files
        BY <4>2 DEF TypeOK
      <4>4. answered' \subseteq [no : 1..MaxFiles, path : Paths]
        BY <4>1, <4>2, <2>1, AnswerFields DEF TypeOK
      <4> QED
        BY <4>3, <4>4
    <3>2. CASE UNCHANGED <<count, written, answered>>
      BY <3>2 DEF TypeOK
    <3> QED
      BY <1>8, <3>1, <3>2 DEF SnapshotTaken
  <2> QED
    BY <1>8, <2>2, FileNameAssumption DEF SnapshotTaken, Return, TypeOK
<1>9. CASE UNCHANGED vars
  BY <1>9, FileNameAssumption
     DEF vars, TypeOK
<1> QED
  BY <1>1, <1>2, <1>3, <1>4, <1>5, <1>6, <1>7, <1>8, <1>9 DEF Next

\* The handler.
LEMMA NextCallInv == TypeOK /\ CallInv /\ [Next]_vars => CallInv'
<1> SUFFICES ASSUME TypeOK, CallInv, [Next]_vars PROVE CallInv'
  OBVIOUS
<1> USE FileNameAssumption DEF TypeOK, CallInv, ByName
<1>1. CASE Tick
  BY <1>1 DEF Tick
<1>2. ASSUME NEW id \in RecorderIds, NEW request \in Requests, SetOutputFile(id, request)
     PROVE  CallInv'
  BY <1>2 DEF SetOutputFile, IsInTargetFolders
<1>3. ASSUME NEW id \in RecorderIds, NEW request \in Requests, TakeSnapshot(id, request)
     PROVE  CallInv'
  <2>1. request \in Accepted /\ (request.file # NoName => request \in Paths)
    BY <1>3, RequestAccepted, AcceptedPath DEF TakeSnapshot
  <2> QED
    BY <1>3, <2>1 DEF TakeSnapshot, CreateRecordFileName, Prefixes
<1>4. ASSUME NEW id \in RecorderIds, Start(id)
     PROVE  CallInv'
  <2>1. BaseOf(id) \in Accepted /\ (BaseOf(id).file # NoName => BaseOf(id) \in Paths)
    BY DefaultAccepted, AcceptedPath DEF BaseOf
  <2> QED
    BY <1>4, <2>1 DEF Start, CreateRecordFileName, Prefixes
<1>5. ASSUME NEW id \in RecorderIds, Stop(id)
     PROVE  CallInv'
  BY <1>5 DEF Stop
<1>6. CASE NameWithHundredths
  <2>1. clock % Second \in Nat /\ call.asked \in Accepted /\ call.prefix \in Prefixes
    BY <1>6, SecondIn DEF NameWithHundredths, CallInv, TypeOK
  <2>3. name' \in Paths /\ TimedAt(name', first', last')
    BY <2>1, <1>6, TimedPath DEF NameWithHundredths, TypeOK, TimedAt
  <2> QED
    BY <1>6, <2>1, <2>3 DEF NameWithHundredths, CallInv
<1>7. CASE PipelineStarts
  BY <1>7 DEF PipelineStarts, Write, Return
<1>8. CASE SnapshotTaken
  BY <1>8 DEF SnapshotTaken, Write, Return
<1>9. CASE UNCHANGED vars
  BY <1>9 DEF vars
<1> QED
  BY <1>1, <1>2, <1>3, <1>4, <1>5, <1>6, <1>7, <1>8, <1>9 DEF Next

\* The files.
LEMMA NextFilesInv == TypeOK /\ CallInv /\ FilesInv /\ [Next]_vars => FilesInv'
<1> SUFFICES ASSUME TypeOK, CallInv, FilesInv, [Next]_vars PROVE FilesInv'
  OBVIOUS
<1> USE FileNameAssumption DEF TypeOK, CallInv, FilesInv
<1>1. CASE Tick
  BY <1>1 DEF Tick
<1>2. ASSUME NEW id \in RecorderIds, NEW request \in Requests, SetOutputFile(id, request)
     PROVE  FilesInv'
  BY <1>2 DEF SetOutputFile, IsInTargetFolders
<1>3. ASSUME NEW id \in RecorderIds, NEW request \in Requests, TakeSnapshot(id, request)
     PROVE  FilesInv'
  BY <1>3 DEF TakeSnapshot, IsInTargetFolders, CreateRecordFileName
<1>4. ASSUME NEW id \in RecorderIds, Start(id)
     PROVE  FilesInv'
  BY <1>4 DEF Start, CreateRecordFileName, BaseOf, Default
<1>5. ASSUME NEW id \in RecorderIds, Stop(id)
     PROVE  FilesInv'
  BY <1>5 DEF Stop
<1>6. CASE NameWithHundredths
  BY <1>6 DEF NameWithHundredths
<1>7. CASE PipelineStarts
  <2>1. CASE Write
    <3>1. /\ count' = count + 1 /\ written' = written \cup {NewFile} /\ NewFile.no = count + 1
          /\ (~NewFile.asked => TimedAt(NewFile.path, NewFile.first, NewFile.last))
      BY <1>7, <2>1, WriteMakes DEF PipelineStarts
    <3>2. \A f \in written : f.no <= count + 1
      BY FileNameAssumption DEF Files
    <3>3. \A f \in written' : f \in written \/ f = NewFile
      BY <3>1
    <3> HIDE DEF TypeOK, CallInv
    <3>4. \A f \in written' : f.no <= count'
      <4>1. NewFile.no <= count'
        BY <3>1, FileNameAssumption DEF TypeOK
      <4> QED
        BY <3>1, <3>2, <3>3, <4>1
    <3>5. \A f \in written' : ~f.asked => TimedAt(f.path, f.first, f.last)
      BY <3>1, <3>3
    <3> QED
      BY <3>4, <3>5
  <2>2. CASE UNCHANGED <<count, written>>
    BY <2>2
  <2> QED
    BY <1>7, <2>1, <2>2 DEF PipelineStarts
<1>8. CASE SnapshotTaken
  <2>1. CASE Write
    <3>1. /\ count' = count + 1 /\ written' = written \cup {NewFile} /\ NewFile.no = count + 1
          /\ (~NewFile.asked => TimedAt(NewFile.path, NewFile.first, NewFile.last))
      BY <1>8, <2>1, WriteMakes DEF SnapshotTaken
    <3>2. \A f \in written : f.no <= count + 1
      BY FileNameAssumption DEF Files
    <3>3. \A f \in written' : f \in written \/ f = NewFile
      BY <3>1
    <3> HIDE DEF TypeOK, CallInv
    <3>4. \A f \in written' : f.no <= count'
      <4>1. NewFile.no <= count'
        BY <3>1, FileNameAssumption DEF TypeOK
      <4> QED
        BY <3>1, <3>2, <3>3, <4>1
    <3>5. \A f \in written' : ~f.asked => TimedAt(f.path, f.first, f.last)
      BY <3>1, <3>3
    <3> QED
      BY <3>4, <3>5
  <2>2. CASE UNCHANGED <<count, written>>
    BY <2>2
  <2> QED
    BY <1>8, <2>1, <2>2 DEF SnapshotTaken
<1>9. CASE UNCHANGED vars
  BY <1>9 DEF vars
<1> QED
  BY <1>1, <1>2, <1>3, <1>4, <1>5, <1>6, <1>7, <1>8, <1>9 DEF Next

\* The recordings: a failed start changes the path of a recorder that is not recording.
LEMMA NextDoingInv == TypeOK /\ CallInv /\ DoingInv /\ [Next]_vars => DoingInv'
<1> SUFFICES ASSUME TypeOK, CallInv, DoingInv, [Next]_vars PROVE DoingInv'
  OBVIOUS
<1> USE FileNameAssumption DEF TypeOK, CallInv, DoingInv, Prefixes
<1>1. CASE Tick
  BY <1>1 DEF Tick
<1>2. ASSUME NEW id \in RecorderIds, NEW request \in Requests, SetOutputFile(id, request)
     PROVE  DoingInv'
  BY <1>2 DEF SetOutputFile, IsInTargetFolders
<1>3. ASSUME NEW id \in RecorderIds, NEW request \in Requests, TakeSnapshot(id, request)
     PROVE  DoingInv'
  BY <1>3 DEF TakeSnapshot, IsInTargetFolders, CreateRecordFileName
<1>4. ASSUME NEW id \in RecorderIds, Start(id)
     PROVE  DoingInv'
  BY <1>4 DEF Start, CreateRecordFileName, BaseOf, Default
<1>5. ASSUME NEW id \in RecorderIds, Stop(id)
     PROVE  DoingInv'
  BY <1>5 DEF Stop
<1>6. CASE NameWithHundredths
  BY <1>6 DEF NameWithHundredths
<1>7. CASE PipelineStarts
  <2>1. /\ pc = "pipeline" /\ call.id \in RecorderIds /\ doing[call.id] = 0
        /\ path' = [path EXCEPT ![call.id] = name]
    BY <1>7 DEF PipelineStarts
  <2>2. CASE Write /\ doing' = [doing EXCEPT ![call.id] = count + 1]
    <3>1. /\ written' = written \cup {NewFile} /\ NewFile.no = count + 1 /\ NewFile.path = name
      BY <2>1, <2>2, WriteMakes
    <3> QED
      BY <2>1, <2>2, <3>1
  <2>3. CASE UNCHANGED doing /\ (Write \/ UNCHANGED written)
    <3>1. written \subseteq written'
      BY <2>3 DEF Write
    <3> QED
      BY <2>1, <2>3, <3>1
  <2> QED
    BY <1>7, <2>2, <2>3 DEF PipelineStarts
<1>8. CASE SnapshotTaken
  <2>1. UNCHANGED <<path, doing>> /\ written \subseteq written'
    BY <1>8 DEF SnapshotTaken, Write
  <2> QED
    BY <2>1
<1>9. CASE UNCHANGED vars
  BY <1>9 DEF vars
<1> QED
  BY <1>1, <1>2, <1>3, <1>4, <1>5, <1>6, <1>7, <1>8, <1>9 DEF Next

\* The answers.
LEMMA NextAnsweredInv == TypeOK /\ CallInv /\ DoingInv /\ AnsweredInv /\ [Next]_vars => AnsweredInv'
<1> SUFFICES ASSUME TypeOK, CallInv, DoingInv, AnsweredInv, [Next]_vars PROVE AnsweredInv'
  OBVIOUS
<1> USE FileNameAssumption DEF TypeOK, DoingInv, AnsweredInv
<1>1. CASE Tick
  BY <1>1 DEF Tick
<1>2. ASSUME NEW id \in RecorderIds, NEW request \in Requests, SetOutputFile(id, request)
     PROVE  AnsweredInv'
  BY <1>2 DEF SetOutputFile, IsInTargetFolders
<1>3. ASSUME NEW id \in RecorderIds, NEW request \in Requests, TakeSnapshot(id, request)
     PROVE  AnsweredInv'
  BY <1>3 DEF TakeSnapshot, IsInTargetFolders, CreateRecordFileName
<1>4. ASSUME NEW id \in RecorderIds, Start(id)
     PROVE  AnsweredInv'
  BY <1>4 DEF Start, CreateRecordFileName, BaseOf, Default
<1>5. ASSUME NEW id \in RecorderIds, Stop(id)
     PROVE  AnsweredInv'
  <2>1. answered' = answered \cup {Answer(doing[id], path[id])} /\ UNCHANGED written
    BY <1>5 DEF Stop, Answer
  <2>2. \E f \in written : f.no = doing[id] /\ f.path = path[id]
    BY <1>5 DEF Stop
  <2>3. Answer(doing[id], path[id]).no = doing[id] /\ Answer(doing[id], path[id]).path = path[id]
    BY AnswerFields
  <2> HIDE DEF TypeOK, DoingInv
  <2> QED
    BY <2>1, <2>2, <2>3
<1>6. CASE NameWithHundredths
  BY <1>6 DEF NameWithHundredths
<1>7. CASE PipelineStarts
  BY <1>7 DEF PipelineStarts, Write, Return
<1>8. CASE SnapshotTaken
  <2>1. CASE Write /\ answered' = answered \cup {[no |-> count + 1, path |-> name]}
    <3>1. answered' = answered \cup {Answer(count + 1, name)}
      BY <2>1 DEF Answer
    <3>2. written' = written \cup {NewFile} /\ NewFile.no = count + 1 /\ NewFile.path = name
      BY <2>1, <1>8, WriteMakes DEF SnapshotTaken
    <3>3. Answer(count + 1, name).no = count + 1 /\ Answer(count + 1, name).path = name
      BY AnswerFields
    <3> HIDE DEF TypeOK, DoingInv
    <3> QED
      BY <3>1, <3>2, <3>3
  <2>2. CASE UNCHANGED <<count, written, answered>>
    BY <2>2
  <2> QED
    BY <1>8, <2>1, <2>2 DEF SnapshotTaken
<1>9. CASE UNCHANGED vars
  BY <1>9 DEF vars
<1> QED
  BY <1>1, <1>2, <1>3, <1>4, <1>5, <1>6, <1>7, <1>8, <1>9 DEF Next

\* It holds in every reachable state.
LEMMA SpecIInv == Spec => []IInv
<1>1. IInv /\ [Next]_vars => IInv'
  BY NextTypeOK, NextCallInv, NextFilesInv, NextDoingInv, NextAnsweredInv DEF IInv
<1> QED
  BY InitIInv, <1>1, PTL DEF Spec

\* Type correctness: the text of every path that is kept begins with a target folder, and
\* every file that is written has such a path and two readings of the clock.
THEOREM TypeCorrect == Spec => []TypeOK
<1>1. IInv => TypeOK
  BY DEF IInv
<1> QED
  BY <1>1, SpecIInv, PTL

\* What stop and takeSnapshot answer is the path of their own file, and no later file is
\* written over it, whatever the two paths look like, unless one of them was asked for by its
\* name, both were begun in the same hundredth, one got its name while a second began, or
\* the later one was begun when local time had gone back.
THEOREM FilesKept == Spec => []KeptFile
<1>1. IInv => KeptFile
  <2> SUFFICES ASSUME IInv, NEW answer \in answered,
                      NEW file \in written, file.no = answer.no, file.path = answer.path,
                      NEW other \in written, other.no > file.no, SameFile(other.path, file.path),
                      ~file.asked, ~other.asked, ~Straddles(file), ~Straddles(other),
                      file.last # other.last
               PROVE  MayShare(file, other)
    BY DEF IInv, AnsweredInv, KeptFile, MayShare
  <2> DEFINE s == file.last \div Second
             t == other.last \div Second
  <2>1. file.last \in 0..MaxClock /\ other.last \in 0..MaxClock
    BY DEF IInv, TypeOK, Files
  <2>2. LocalTime[s] = LocalTime[t] /\ file.last % Second = other.last % Second
    BY DEF IInv, FilesInv, TimedAt, SameFile, Straddles
  <2>3. s # t
    BY <2>1, <2>2, SameReading
  <2>4. s \in 0..MaxClock /\ t \in 0..MaxClock
    BY <2>1, SecondIn
  <2> QED
    BY <2>2, <2>3, <2>4 DEF MayShare
<1> QED
  BY <1>1, SpecIInv, PTL
=============================================================================
