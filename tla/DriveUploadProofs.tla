-------------------------- MODULE DriveUploadProofs --------------------------
(***************************************************************************)
(* DriveUpload for any runs, jobs, packages and number of failed requests: *)
(* types, the isolation of jobs, at most one verified run per folder, no   *)
(* folder twice while runs do not overlap, and why a run fails.            *)
(*                                                                         *)
(* The drive only grows, so what a run has found, made or sent stays where *)
(* it was.  A run that verifies sees its own files and no others; a run    *)
(* verified before it would have left files of its own in the folder.  If  *)
(* no request has failed, whoever made something knows of it, so a run     *)
(* that meets another's work meets a run of its job that is on its way.    *)
(***************************************************************************)
EXTENDS DriveUpload, DriveProofs

\* The folder id exists, with this name, in this parent.
Led(id, name, parent) ==
  \E i \in items : i.id = id /\ i.name = name /\ i.parent = parent

\* The path of a run leads from the root to the folder of its job.
PathInv(u) ==
  /\ up[u].pc = "idle" => up[u].path = <<>>
  /\ up[u].pc \in {"find", "make"} => Len(up[u].path) \in {0, 1}
  /\ up[u].pc \in {"send", "verify", "verified"} => Len(up[u].path) = 2
  /\ Len(up[u].path) >= 1 => Led(up[u].path[1], "jobs", Root)
  /\ Len(up[u].path) = 2 => Led(up[u].path[2], JobOf[u], up[u].path[1])

\* What a run has sent is its own and lies in the folder it is in.
SentInv(u) ==
  /\ up[u].pc \in {"idle", "find", "make"} => up[u].sent = <<>>
  /\ up[u].pc = "send" => Len(up[u].sent) < Len(Package)
  /\ up[u].pc \in {"verify", "verified"} => Len(up[u].sent) = Len(Package)
  /\ \A k \in DOMAIN up[u].sent :
       /\ up[u].sent[k][1] = u
       /\ \E i \in items : i.id = up[u].sent[k] /\ i.parent = Here(u)

\* TypeOK without the observer, which no other part depends on.
Types == DriveTypeOK /\ up \in [Clients -> Run]

UploadInv ==
  /\ Types
  /\ Kept
  /\ \A u \in Clients : PathInv(u) /\ SentInv(u)
  /\ Isolated

-----------------------------------------------------------------------------
\* A new item is well formed and its maker's.
LEMMA CreateLemma ==
  ASSUME Kept, NEW c \in Clients, NEW parent \in Ids, NEW name \in Names,
         NEW kind \in {"folder", "file"}, Create(c, parent, name, kind)
  PROVE  /\ Kept' /\ items \subseteq items' /\ NewId(c) \in Ids /\ NewId(c)[1] = c
         /\ \E i \in items' : i.id = NewId(c) /\ i.name = name /\ i.parent = parent
         /\ \A i \in items' \ items :
              i.id = NewId(c) /\ i.parent = parent /\ i.kind = kind
<1>1. NewId(c)[1] = c
  BY DEF NewId
<1> QED
  BY <1>1, CreateAdds

\* In a drive that only grows, a run that does nothing keeps its invariants.
LEMMA OthersKeep ==
  ASSUME NEW u \in Clients, PathInv(u), SentInv(u), up'[u] = up[u], items \subseteq items'
  PROVE  PathInv(u)' /\ SentInv(u)'
BY DEF PathInv, SentInv, Led, Here

\* Isolation: only new files can break it, and they lie in their maker's folder.
LEMMA IsolationKeeps ==
  ASSUME Isolated, items \subseteq items',
         \A i \in items' \ items : i.kind = "file" =>
           \E folder, above \in items :
             /\ i.parent = folder.id /\ folder.name = JobOf[i.id[1]]
             /\ folder.parent = above.id /\ above.name = "jobs" /\ above.parent = Root
  PROVE  Isolated'
BY DEF Isolated

LEMMA UploadInit == Init => UploadInv
<1> SUFFICES ASSUME Init PROVE UploadInv
  OBVIOUS
<1>1. Kept
  BY KeptInit DEF Init, DriveInit
<1>2. Types
  BY ErrorsAssumption DEF Init, DriveInit, Types, DriveTypeOK, Run
<1>3. \A u \in Clients : PathInv(u) /\ SentInv(u)
  BY DEF Init, PathInv, SentInv
<1>4. Isolated
  BY DEF Init, DriveInit, Isolated
<1> QED
  BY <1>1, <1>2, <1>3, <1>4 DEF UploadInv

-----------------------------------------------------------------------------
\* Where a run is, and what it looks for, are an id and a name.
LEMMA HereWanted ==
  ASSUME Types, NEW u \in Clients
  PROVE  /\ Here(u) \in Ids
         /\ up[u].path = <<>> => Here(u) = Root
         /\ Len(up[u].path) = 1 => Here(u) = up[u].path[1]
         /\ Len(up[u].path) = 2 => Here(u) = up[u].path[2]
         /\ up[u].path = <<>> => Wanted(u) = "jobs"
         /\ Len(up[u].path) = 1 => Wanted(u) = JobOf[u]
         /\ Len(up[u].path) \in {0, 1} => Wanted(u) \in Names
<1>1. up[u].path \in Seq(Ids)
  BY DEF Types, Run
<1>2. Root \in Ids
  BY DEF Ids
<1>3. up[u].path # <<>> => Last(up[u].path) \in Ids
  BY <1>1 DEF Last
<1>4. JobOf[u] \in Names /\ "jobs" \in Names
  BY PackageAssumption
<1>5. Len(up[u].path) = 0 => up[u].path = <<>>
  BY <1>1
<1> QED
  BY <1>1, <1>2, <1>3, <1>4, <1>5 DEF Here, Wanted, Last

\* Entering the wanted folder keeps path and type.
LEMMA EnterKeeps ==
  ASSUME UploadInv, NEW u \in Clients, up[u].pc \in {"find", "make"},
         NEW id \in Ids, Enter(u, id), items \subseteq items',
         \E i \in items' : i.id = id /\ i.name = Wanted(u) /\ i.parent = Here(u)
  PROVE  up' \in [Clients -> Run] /\ \A v \in Clients : (PathInv(v) /\ SentInv(v))'
<1> USE DEF UploadInv
<1>1. up \in [Clients -> Run] /\ up[u].path \in Seq(Ids) /\ Len(up[u].path) \in {0, 1}
  BY DEF Types, Run, PathInv
<1>2. up'[u].path = Append(up[u].path, id) /\ up'[u].sent = up[u].sent
      /\ up'[u].pc = IF up[u].path = <<>> THEN "find" ELSE "send"
  BY <1>1 DEF Enter, Run
<1>3. up' \in [Clients -> Run]
  <2> DEFINE next == [up[u] EXCEPT !.path = Append(@, id),
                                   !.pc = IF up[u].path = <<>> THEN "find" ELSE "send"]
  <2>1. Append(up[u].path, id) \in Seq(Ids)
    BY <1>1
  <2>2. next \in Run
    BY <1>1, <2>1 DEF Run
  <2>3. up' = [up EXCEPT ![u] = next]
    BY <1>1 DEF Enter, Run
  <2> QED
    BY <1>1, <2>2, <2>3
<1>4. \A v \in Clients \ {u} : (PathInv(v) /\ SentInv(v))'
  BY <1>1, OthersKeep DEF Enter
<1>5. SentInv(u)'
  <2>1. up[u].sent = <<>>
    BY DEF SentInv
  <2>2. Len(Package) > 0
    BY PackageAssumption
  <2> QED
    BY <1>2, <2>1, <2>2 DEF SentInv
<1>6. PathInv(u)'
  <2>1. CASE Len(up[u].path) = 0
    <3>1. up[u].path = <<>>
      BY <1>1, <2>1
    <3>2. Led(id, "jobs", Root)'
      BY <3>1, HereWanted DEF Led
    <3>3. Len(up'[u].path) = 1 /\ up'[u].path[1] = id /\ up'[u].pc = "find"
      BY <1>2, <3>1
    <3> QED
      BY <3>2, <3>3 DEF PathInv
  <2>2. CASE Len(up[u].path) = 1
    <3>1. \E i \in items' : i.id = id /\ i.name = JobOf[u] /\ i.parent = up[u].path[1]
      BY <2>2, HereWanted
    <3>2. \E i \in items' : i.id = up[u].path[1] /\ i.name = "jobs" /\ i.parent = Root
      BY <2>2 DEF PathInv, Led
    <3>3. Len(up'[u].path) = 2 /\ up'[u].path[1] = up[u].path[1] /\ up'[u].path[2] = id
          /\ up'[u].pc = "send"
      BY <1>1, <1>2, <2>2
    <3> QED
      BY <3>1, <3>2, <3>3 DEF PathInv, Led
  <2> QED
    BY <1>1, <2>1, <2>2
<1> QED
  BY <1>3, <1>4, <1>5, <1>6

\* A run that stops keeps everything but its pc.
LEMMA StopKeeps ==
  ASSUME UploadInv, NEW u \in Clients, Stop(u), items \subseteq items'
  PROVE  up' \in [Clients -> Run] /\ \A v \in Clients : (PathInv(v) /\ SentInv(v))'
<1> USE DEF UploadInv
<1>1. up \in [Clients -> Run]
  BY DEF Types
<1>2. up' \in [Clients -> Run]
  BY <1>1 DEF Stop, Run, Ended
<1>3. \A v \in Clients \ {u} : (PathInv(v) /\ SentInv(v))'
  BY <1>1, OthersKeep DEF Stop
<1>4. up'[u].pc = "failed" /\ up'[u].path = up[u].path /\ up'[u].sent = up[u].sent
  BY <1>1 DEF Stop, Run
<1>5. (PathInv(u) /\ SentInv(u))'
  BY <1>4 DEF PathInv, SentInv, Led, Here
<1> QED
  BY <1>2, <1>3, <1>5

-----------------------------------------------------------------------------
\* A run that sends a file.
LEMMA SendKeeps ==
  ASSUME UploadInv, NEW u \in Clients, Send(u)
  PROVE  UploadInv'
<1> USE DEF UploadInv
<1> DEFINE k == Len(up[u].sent) + 1
           name == Package[k]
<1>1. up \in [Clients -> Run] /\ up[u].sent \in Seq(Ids) /\ up[u].pc = "send"
  BY DEF Types, Run, Send
<1>2. k \in 1 .. Len(Package) /\ name \in Names
  BY <1>1, PackageAssumption DEF SentInv
<1>3. name = Last(Package) <=> k = Len(Package)
  BY <1>2, PackageAssumption DEF Last, IsInjective
<1>4. Len(up[u].path) = 2 /\ Here(u) \in Ids /\ Here(u) = up[u].path[2]
  BY <1>1, HereWanted DEF PathInv
<1>5. DriveTypeOK
  BY DEF Types
<1>6. ASSUME Create(u, Here(u), name, "file")
      PROVE  /\ items \subseteq items' /\ Kept'
             /\ Isolated'
  <2>1. items \subseteq items' /\ Kept'
    BY <1>2, <1>4, <1>5, <1>6, CreateLemma
  <2>2. \A i \in items' \ items : i.id[1] = u /\ i.parent = up[u].path[2]
    BY <1>2, <1>4, <1>5, <1>6, CreateLemma
  <2>3. Led(up[u].path[1], "jobs", Root) /\ Led(up[u].path[2], JobOf[u], up[u].path[1])
    BY <1>4 DEF PathInv
  <2>4. Isolated'
    BY <2>1, <2>2, <2>3, IsolationKeeps DEF Led
  <2> QED
    BY <2>1, <2>4
<1>7. CASE Create(u, Here(u), name, "file") /\ UNCHANGED errors
           /\ up' = [up EXCEPT ![u].sent = Append(@, NewId(u)),
                               ![u].pc = IF name = Last(Package) THEN "verify" ELSE "send"]
  <2>1. NewId(u) \in Ids /\ NewId(u)[1] = u
        /\ \E i \in items' : i.id = NewId(u) /\ i.parent = Here(u)
    BY <1>2, <1>4, <1>5, <1>7, CreateLemma
  <2> DEFINE next == [up[u] EXCEPT !.sent = Append(@, NewId(u)),
                                   !.pc = IF name = Last(Package) THEN "verify" ELSE "send"]
  <2>2. Append(up[u].sent, NewId(u)) \in Seq(Ids)
    BY <1>1, <2>1
  <2>3. next \in Run
    BY <1>1, <2>2 DEF Run
  <2>4. up' = [up EXCEPT ![u] = next]
    BY <1>1, <1>7 DEF Run
  <2>5. next.path = up[u].path /\ next.sent = Append(up[u].sent, NewId(u))
        /\ next.pc = IF name = Last(Package) THEN "verify" ELSE "send"
    BY <1>1 DEF Run
  <2> HIDE DEF next
  <2>6. up' \in [Clients -> Run] /\ up'[u] = next
    BY <1>1, <2>3, <2>4
  <2>7. Types'
    BY <1>5, <1>6, <1>7, <2>6 DEF Types, DriveTypeOK, Kept
  <2>8. \A v \in Clients \ {u} : (PathInv(v) /\ SentInv(v))'
    BY <1>1, <1>6, <1>7, <2>4, OthersKeep
  <2>9. PathInv(u)'
    BY <1>4, <1>6, <1>7, <2>5, <2>6 DEF PathInv, Led
  <2>10. SentInv(u)'
    <3>1. Here(u)' = Here(u)
      BY <2>5, <2>6 DEF Here
    <3>2. Len(up'[u].sent) = k
      BY <1>1, <2>1, <2>5, <2>6
    <3>3. \A n \in DOMAIN up'[u].sent :
            \/ n \in DOMAIN up[u].sent /\ up'[u].sent[n] = up[u].sent[n]
            \/ up'[u].sent[n] = NewId(u)
      BY <1>1, <2>1, <2>5, <2>6
    <3>6. items \subseteq items'
      BY <1>6, <1>7
    <3>7. \A n \in DOMAIN up[u].sent :
            /\ up[u].sent[n][1] = u
            /\ \E i \in items' : i.id = up[u].sent[n] /\ i.parent = Here(u)
      BY <3>6 DEF SentInv
    <3>4. \A n \in DOMAIN up'[u].sent :
            /\ up'[u].sent[n][1] = u
            /\ \E i \in items' : i.id = up'[u].sent[n] /\ i.parent = Here(u)
      BY <2>1, <3>3, <3>7
    <3>5. up'[u].pc = IF k = Len(Package) THEN "verify" ELSE "send"
      BY <1>3, <2>5, <2>6
    <3> HIDE DEF k, name
    <3> QED
      BY <1>2, <3>1, <3>2, <3>4, <3>5, PackageAssumption DEF SentInv
  <2> QED
    BY <1>6, <1>7, <2>7, <2>8, <2>9, <2>10
<1>8. CASE CreateFails(u, Here(u), name, "file") /\ Stop(u)
  <2>1. items \subseteq items' /\ Kept' /\ Isolated'
    <3>1. CASE UNCHANGED items
      BY <3>1, KeptStays, IsolationKeeps
    <3>2. CASE Create(u, Here(u), name, "file")
      BY <3>2, <1>6
    <3> QED
      BY <1>8, <3>1, <3>2 DEF CreateFails
  <2>2. errors' \in 0 .. MaxErrors
    BY <1>5, <1>8, ErrorsAssumption DEF CreateFails, RequestFails, DriveTypeOK
  <2> QED
    BY <1>8, <2>1, <2>2, StopKeeps DEF Types, DriveTypeOK, Kept
<1> QED
  BY <1>7, <1>8 DEF Send

\* A run that makes a folder.
LEMMA MakeKeeps ==
  ASSUME UploadInv, NEW u \in Clients, Make(u)
  PROVE  UploadInv'
<1> USE DEF UploadInv
<1>1. up[u].pc = "make" /\ up[u].path \in Seq(Ids) /\ Len(up[u].path) \in {0, 1}
  BY DEF Make, PathInv, Types, Run
<1>2. Here(u) \in Ids /\ Wanted(u) \in Names
  BY <1>1, HereWanted
<1>3. DriveTypeOK
  BY DEF Types
<1>4. ASSUME Create(u, Here(u), Wanted(u), "folder")
      PROVE  /\ items \subseteq items' /\ Kept'
             /\ Isolated'
  <2>1. items \subseteq items' /\ Kept'
        /\ \A i \in items' \ items : i.kind = "folder"
    BY <1>2, <1>3, <1>4, CreateLemma
  <2> QED
    BY <2>1, IsolationKeeps
<1>5. CASE Create(u, Here(u), Wanted(u), "folder") /\ Enter(u, NewId(u)) /\ UNCHANGED errors
  <2>1. NewId(u) \in Ids
        /\ \E i \in items' : i.id = NewId(u) /\ i.name = Wanted(u) /\ i.parent = Here(u)
    BY <1>2, <1>5, CreateLemma
  <2>2. up' \in [Clients -> Run] /\ \A v \in Clients : (PathInv(v) /\ SentInv(v))'
    BY <1>1, <1>4, <1>5, <2>1, EnterKeeps
  <2> QED
    BY <1>3, <1>4, <1>5, <2>2 DEF Types, DriveTypeOK, Kept
<1>6. CASE CreateFails(u, Here(u), Wanted(u), "folder") /\ Stop(u)
  <2>1. items \subseteq items' /\ Kept' /\ Isolated'
    <3>1. CASE UNCHANGED items
      BY <3>1, KeptStays, IsolationKeeps
    <3>2. CASE Create(u, Here(u), Wanted(u), "folder")
      BY <3>2, <1>4
    <3> QED
      BY <1>6, <3>1, <3>2 DEF CreateFails
  <2>2. errors' \in 0 .. MaxErrors
    BY <1>3, <1>6, ErrorsAssumption DEF CreateFails, RequestFails, DriveTypeOK
  <2> QED
    BY <1>6, <2>1, <2>2, StopKeeps DEF Types, DriveTypeOK, Kept
<1> QED
  BY <1>5, <1>6 DEF Make

\* A run that reads a listing, begins or ends.
LEMMA ReadKeeps ==
  ASSUME UploadInv, NEW u \in Clients, Start(u) \/ Find(u) \/ Verify(u) \/ GiveUp(u)
  PROVE  UploadInv'
<1> USE DEF UploadInv
<1>1. up \in [Clients -> Run] /\ up[u].path \in Seq(Ids) /\ DriveTypeOK
  BY DEF Types, Run
<1>2. items' = items
  BY DEF Start, Find, Verify, GiveUp, drive
<1>3. errors' \in 0 .. MaxErrors
  BY <1>1, ErrorsAssumption DEF Start, Find, Verify, GiveUp, drive, RequestFails, DriveTypeOK
<1>4. Isolated'
  BY <1>2, IsolationKeeps
<1>5. ASSUME NEW pc, up' = [up EXCEPT ![u].pc = pc],
             \/ up[u].pc = "idle" /\ pc \in {"find", "refused"} /\ up[u].path = <<>>
             \/ up[u].pc = "find" /\ pc = "make"
             \/ up[u].pc = "verify" /\ pc \in {"verified", "failed"}
             \/ pc = "failed"
      PROVE  up' \in [Clients -> Run] /\ \A v \in Clients : (PathInv(v) /\ SentInv(v))'
  <2>1. up'[u].pc = pc /\ up'[u].path = up[u].path /\ up'[u].sent = up[u].sent
    BY <1>1, <1>5 DEF Run
  <2>2. up' \in [Clients -> Run]
    BY <1>1, <1>5 DEF Run, Ended
  <2>3. \A v \in Clients \ {u} : (PathInv(v) /\ SentInv(v))'
    BY <1>1, <1>2, <1>5, OthersKeep
  <2>4. PathInv(u)'
    BY <1>2, <1>5, <2>1 DEF PathInv, Led
  <2>5. SentInv(u)'
    BY <1>2, <1>5, <2>1 DEF SentInv, Here
  <2> QED
    BY <2>2, <2>3, <2>4, <2>5
<1>6. up' \in [Clients -> Run] /\ \A v \in Clients : (PathInv(v) /\ SentInv(v))'
  <2>1. CASE Start(u)
    BY <1>5, <2>1 DEF Start, PathInv
  <2>2. CASE Find(u)
    <3>1. PICK page \in Pages(Here(u)) :
            LET matches == {i \in page : i.name = Wanted(u)}
            IN  \/ matches = {} /\ up' = [up EXCEPT ![u].pc = "make"]
                \/ Stop(u)
                \/ \E i \in matches : Enter(u, i.id)
      BY <2>2 DEF Find
    <3>2. CASE up' = [up EXCEPT ![u].pc = "make"]
      BY <1>5, <2>2, <3>2 DEF Find
    <3>3. CASE Stop(u)
      BY <1>5, <3>3 DEF Stop
    <3>4. ASSUME NEW i \in page, i.name = Wanted(u), Enter(u, i.id)
          PROVE  up' \in [Clients -> Run] /\ \A v \in Clients : (PathInv(v) /\ SentInv(v))'
      <4>1. page \subseteq Children(Here(u))
        BY DEF Pages
      <4>2. i \in items /\ i.parent = Here(u) /\ i.id \in Ids
        BY <1>1, <4>1 DEF Children, DriveTypeOK, Item
      <4> QED
        BY <1>2, <2>2, <3>4, <4>2, EnterKeeps DEF Find
    <3> QED
      BY <3>1, <3>2, <3>3, <3>4
  <2>3. CASE Verify(u)
    BY <1>5, <2>3 DEF Verify
  <2>4. CASE GiveUp(u)
    BY <1>5, <2>4 DEF GiveUp, Stop
  <2> QED
    BY <2>1, <2>2, <2>3, <2>4
<1> QED
  BY <1>1, <1>2, <1>3, <1>4, <1>6, KeptStays DEF Types, DriveTypeOK

-----------------------------------------------------------------------------
LEMMA UploadStep == UploadInv /\ [Next]_vars => UploadInv'
<1> SUFFICES ASSUME UploadInv, [Next]_vars PROVE UploadInv'
  OBVIOUS
<1>1. ASSUME NEW u \in Clients, Step(u) PROVE UploadInv'
  BY <1>1, SendKeeps, MakeKeeps, ReadKeeps DEF Step
<1>2. CASE UNCHANGED vars
  BY <1>2, KeptStays DEF vars, UploadInv, Types, DriveTypeOK, PathInv, SentInv, Led, Here, Isolated
<1> QED
  BY <1>1, <1>2 DEF Next

THEOREM UploadInvariance == Spec => []UploadInv
BY UploadInit, UploadStep, PTL DEF Spec

\* Every variable holds a value of its type.
THEOREM UploadTypes == Spec => []TypeOK
<1>1. Init => overlapped \in BOOLEAN
  BY DEF Init
<1>2. overlapped \in BOOLEAN /\ [Next]_vars => (overlapped \in BOOLEAN)'
  BY DEF Next, Step, Start, vars
<1>3. UploadInv /\ overlapped \in BOOLEAN => TypeOK
  BY DEF UploadInv, Types, TypeOK
<1> QED
  BY <1>1, <1>2, <1>3, UploadInvariance, PTL DEF Spec

\* A run's files only ever lie in a folder of its own job, in a folder "jobs"
\* of the configured parent.
THEOREM UploadIsolated == Spec => []Isolated
BY UploadInvariance, PTL DEF UploadInv

\* A run that verifies is alone in its folder: everything there is its own.
LEMMA VerifierIsAlone ==
  ASSUME SmallPackage, UploadInv, NEW v \in Clients, Verify(v), up'[v].pc = "verified"
  PROVE  \A i \in Children(Here(v)) : i.id[1] = v
<1>1. up \in [Clients -> Run]
  BY DEF UploadInv, Types
<1>2. PICK page \in Pages(Here(v)) : Confirmed(v, page)
  <2>1. PICK page \in Pages(Here(v)) :
          up' = [up EXCEPT ![v].pc = IF Confirmed(v, page) THEN "verified" ELSE "failed"]
    BY DEF Verify
  <2>2. Confirmed(v, page)
    BY <1>1, <2>1 DEF Run
  <2> QED
    BY <2>2
<1>3. Len(Package) \in Nat
  BY PackageAssumption
<1>4. Cardinality(page) # PageSize
  BY <1>2, <1>3, PageAssumption DEF Confirmed, SmallPackage
<1>5. page = Children(Here(v))
  BY <1>2, <1>4 DEF Pages
<1>6. \A i \in page : \E k \in DOMAIN up[v].sent : i.id = up[v].sent[k]
  BY <1>2 DEF Confirmed, Range
<1> QED
  BY <1>5, <1>6 DEF UploadInv, SentInv

\* A verified run has left files of its own in its folder.
LEMMA VerifiedLeavesFiles ==
  ASSUME UploadInv, NEW u \in Clients, Verified(u)
  PROVE  \E i \in Children(Here(u)) : i.id[1] = u
<1>1. up[u].sent \in Seq(Ids) /\ Len(up[u].sent) = Len(Package)
  BY DEF UploadInv, Types, Run, SentInv, Verified
<1>2. 1 \in DOMAIN up[u].sent
  BY <1>1, PackageAssumption
<1> QED
  BY <1>2 DEF UploadInv, SentInv, Children

LEMMA OneVerifiedStep ==
  SmallPackage /\ UploadInv /\ OneVerifiedPerFolder /\ [Next]_vars => OneVerifiedPerFolder'
<1> SUFFICES ASSUME SmallPackage, UploadInv, OneVerifiedPerFolder, [Next]_vars
             PROVE  OneVerifiedPerFolder'
  OBVIOUS
<1>1. up \in [Clients -> Run]
  BY DEF UploadInv, Types
<1>2. ASSUME NEW v \in Clients, Verify(v), up'[v].pc = "verified"
      PROVE  OneVerifiedPerFolder'
  <2>1. \A u \in Clients : up'[u].path = up[u].path
    BY <1>1, <1>2 DEF Verify, Run
  <2>2. \A u \in Clients : Here(u)' = Here(u)
    BY <2>1 DEF Here
  <2>3. \A u \in Clients \ {v} : Verified(u)' => Verified(u)
    BY <1>1, <1>2 DEF Verify, Verified
  <2>4. \A u \in Clients \ {v} : Verified(u) => Here(u) # Here(v)
    BY <1>2, VerifierIsAlone, VerifiedLeavesFiles
  <2> QED
    BY <2>2, <2>3, <2>4 DEF OneVerifiedPerFolder
<1>3. ASSUME NEW v \in Clients, Step(v), ~(Verify(v) /\ up'[v].pc = "verified")
      PROVE  OneVerifiedPerFolder'
  <2>1. \A u \in Clients : Verified(u)' => Verified(u)
    BY <1>1, <1>3
       DEF Step, Start, Find, Make, Send, Verify, GiveUp, Stop, Enter, Verified, Run
  <2>2. \A u \in Clients : Verified(u)' => Here(u)' = Here(u)
    BY <1>1, <1>3
       DEF Step, Start, Find, Make, Send, Verify, GiveUp, Stop, Enter, Verified, Run, Here
  <2> QED
    BY <2>1, <2>2 DEF OneVerifiedPerFolder
<1>4. CASE UNCHANGED vars
  BY <1>4 DEF vars, OneVerifiedPerFolder, Verified, Here
<1> QED
  BY <1>2, <1>3, <1>4 DEF Next

\* If a listing shows more files than a package has, no folder is verified for
\* two runs, whatever runs overlap and whatever requests fail.
THEOREM UploadOneVerified == ASSUME SmallPackage PROVE Spec => []OneVerifiedPerFolder
<1>1. Init => OneVerifiedPerFolder
  BY DEF Init, OneVerifiedPerFolder, Verified
<1>2. UploadInv /\ OneVerifiedPerFolder /\ [Next]_vars => OneVerifiedPerFolder'
  BY OneVerifiedStep
<1> QED
  BY <1>1, <1>2, UploadInvariance, PTL DEF Spec

-----------------------------------------------------------------------------
(***************************************************************************)
(* Folders, while runs do not overlap and listings fit                     *)
(***************************************************************************)
Busy(u) == up[u].pc \notin {"idle"} \cup Ended

OneBusy == ~overlapped => \A u, v \in Clients : Busy(u) /\ Busy(v) => u = v

FoldersFit == \A i \in items : i.kind = "folder" => Cardinality(Children(i.parent)) <= PageSize

FoldersOnce ==
  \A i, k \in items :
    (i.kind = "folder" /\ k.kind = "folder" /\ i.parent = k.parent /\ i.name = k.name) => i = k

\* The folder that a run is about to make is not there.
NotMade(u) ==
  up[u].pc = "make" =>
    \A i \in Children(Here(u)) : i.kind = "folder" => i.name # Wanted(u)

FoldersInv ==
  OneBusy /\ (~overlapped /\ FoldersFit => FoldersOnce /\ \A u \in Clients : NotMade(u))

LEMMA OneBusyKeeps ==
  ASSUME UploadInv, OneBusy, NEW u \in Clients, Step(u)
  PROVE  /\ OneBusy' /\ \A v \in Clients \ {u} : up'[v] = up[v]
         /\ ~overlapped' => ~overlapped /\ \A v \in Clients \ {u} : ~Busy(v)
<1>1. up \in [Clients -> Run]
  BY DEF UploadInv, Types
<1>2. \A v \in Clients \ {u} : up'[v] = up[v]
  BY <1>1 DEF Step, Start, Find, Make, Send, Verify, GiveUp, Stop, Enter
<1>3. \A v \in Clients \ {u} : Busy(v)' = Busy(v)
  BY <1>2 DEF Busy
<1>4. CASE Start(u)
  <2>1. ~overlapped' => ~overlapped /\ \A v \in Clients : ~Busy(v)
    BY <1>4 DEF Start, Busy
  <2> QED
    BY <1>2, <1>3, <2>1 DEF OneBusy
<1>5. CASE ~Start(u)
  <2>1. Busy(u) /\ overlapped' = overlapped
    BY <1>5 DEF Step, Find, Make, Send, Verify, GiveUp, Busy, Ended
  <2> QED
    BY <1>2, <1>3, <2>1 DEF OneBusy
<1> QED
  BY <1>4, <1>5

LEMMA FoldersFitBefore ==
  ASSUME Kept, Kept', items \subseteq items', FoldersFit'
  PROVE  FoldersFit
<1> SUFFICES ASSUME NEW i \in items, i.kind = "folder"
             PROVE  Cardinality(Children(i.parent)) <= PageSize
  BY DEF FoldersFit
<1> DEFINE f == i.parent
<1>1. Cardinality(Children(f)') <= PageSize
  BY DEF FoldersFit, Children
<1> HIDE DEF f
<1>2. Cardinality(Children(f)) <= PageSize
  BY <1>1, FewerBefore
<1> QED
  BY <1>2 DEF f

\* A listing that can hide a folder would have to be of one that holds none.
LEMMA FindSees ==
  ASSUME UploadInv, FoldersFit, NEW u \in Clients, Find(u), up'[u].pc = "make"
  PROVE  NotMade(u)'
<1>1. up \in [Clients -> Run] /\ items' = items
  BY DEF UploadInv, Types, Find, drive
<1>2. PICK page \in Pages(Here(u)) :
        LET matches == {i \in page : i.name = Wanted(u)}
        IN  \/ matches = {} /\ up' = [up EXCEPT ![u].pc = "make"]
            \/ Stop(u)
            \/ \E i \in matches : Enter(u, i.id)
  BY DEF Find
<1>3. ~Stop(u)
  BY <1>1 DEF Stop, Run
<1>4. \A id : ~Enter(u, id)
  BY <1>1 DEF Enter, Run
<1>5. \A i \in page : i.name # Wanted(u)
  BY <1>2, <1>3, <1>4
<1>6. Here(u)' = Here(u) /\ Wanted(u)' = Wanted(u)
  BY <1>1, <1>2, <1>3, <1>4 DEF Here, Wanted, Run
<1>7. ASSUME NEW i \in Children(Here(u)), i.kind = "folder"
      PROVE  i.name # Wanted(u)
  <2>1. Cardinality(Children(Here(u))) <= PageSize
    BY <1>7 DEF FoldersFit, Children
  <2>2. page = Children(Here(u))
    BY <2>1 DEF Pages
  <2> QED
    BY <1>5, <2>2
<1> QED
  BY <1>1, <1>6, <1>7 DEF NotMade, Children

LEMMA FoldersStep ==
  ASSUME UploadInv, FoldersInv, [Next]_vars
  PROVE  FoldersInv'
<1> USE DEF FoldersInv
<1>1. CASE UNCHANGED vars
  BY <1>1 DEF vars, OneBusy, Busy, FoldersFit, FoldersOnce, NotMade, Children, Here, Wanted
<1>2. ASSUME NEW u \in Clients, Step(u)
      PROVE  FoldersInv'
  <2>1. /\ OneBusy' /\ \A v \in Clients \ {u} : up'[v] = up[v]
        /\ ~overlapped' => ~overlapped /\ \A v \in Clients \ {u} : ~Busy(v)
    BY <1>2, OneBusyKeeps
  <2>2. Kept /\ Kept' /\ up \in [Clients -> Run]
    BY <1>2, UploadStep DEF UploadInv, Types, Next
  <2>3. ASSUME ~overlapped', FoldersFit'
        PROVE  FoldersOnce' /\ \A v \in Clients : NotMade(v)'
    <3>1. items \subseteq items'
      BY <1>2 DEF Step, Start, Find, Make, Send, Verify, GiveUp, drive, Create, CreateFails
    <3>2. FoldersOnce /\ NotMade(u)
      BY <2>1, <2>2, <2>3, <3>1, FoldersFitBefore
    <3>3. \A v \in Clients \ {u} : NotMade(v)'
      BY <2>1, <2>3 DEF NotMade, Busy, Ended
    <3>4. CASE Start(u) \/ Find(u) \/ Verify(u) \/ GiveUp(u)
      <4>1. items' = items
        BY <3>4 DEF Start, Find, Verify, GiveUp, drive
      <4>2. up'[u].pc = "make" => Find(u)
        BY <2>2, <3>4 DEF Start, Verify, GiveUp, Stop, Run
      <4>3. NotMade(u)'
        <5>1. CASE up'[u].pc = "make"
          BY <2>1, <2>2, <2>3, <3>1, <4>2, <5>1, FindSees, FoldersFitBefore
        <5>2. CASE up'[u].pc # "make"
          BY <5>2 DEF NotMade
        <5> QED
          BY <5>1, <5>2
      <4> QED
        BY <3>2, <3>3, <4>1, <4>3 DEF FoldersOnce
    <3>5. CASE Make(u)
      <4>1. up'[u].pc \in {"find", "send", "failed"} /\ up[u].pc = "make"
        BY <2>2, <3>5 DEF Make, Enter, Stop, Run
      <4>2. Here(u) \in Ids /\ Wanted(u) \in Names
        BY <4>1, HereWanted DEF UploadInv, PathInv
      <4>3. \/ items' = items
            \/ \E new : /\ items' = items \cup {new}
                        /\ new.parent = Here(u) /\ new.name = Wanted(u)
        <5>1. CASE Create(u, Here(u), Wanted(u), "folder")
          <6> DEFINE here == Here(u)
                     wanted == Wanted(u)
          <6>1. here \in Ids /\ wanted \in Names /\ Create(u, here, wanted, "folder")
            BY <4>2, <5>1
          <6> HIDE DEF here, wanted
          <6>2. \E new : items' = items \cup {new} /\ new.parent = here /\ new.name = wanted
            BY <2>2, <6>1, CreateAdds
          <6> QED
            BY <6>2 DEF here, wanted
        <5> QED
          BY <3>5, <5>1 DEF Make, CreateFails
      <4>4. \A i \in items : i.kind = "folder" => ~(i.parent = Here(u) /\ i.name = Wanted(u))
        BY <3>2, <4>1 DEF NotMade, Children
      <4>5. FoldersOnce'
        BY <3>2, <4>3, <4>4 DEF FoldersOnce
      <4> QED
        BY <3>3, <4>1, <4>5 DEF NotMade
    <3>6. CASE Send(u)
      <4>1. up'[u].pc \in {"send", "verify", "failed"}
        BY <2>2, <3>6 DEF Send, Stop, Run
      <4>2. \A i \in items' \ items : i.kind = "file"
        BY <3>6 DEF Send, Create, CreateFails
      <4>3. FoldersOnce'
        BY <3>2, <4>2 DEF FoldersOnce
      <4> QED
        BY <3>3, <4>1, <4>3 DEF NotMade
    <3> QED
      BY <1>2, <3>4, <3>5, <3>6 DEF Step
  <2> QED
    BY <2>1, <2>3
<1> QED
  BY <1>1, <1>2 DEF Next

\* Runs that follow one another never make a folder twice: find_or_create sees
\* all there is, whatever creations have only looked failed.
THEOREM UploadUniqueFolders == Spec => []UniqueFolders
<1>1. Init => FoldersInv
  BY DEF Init, DriveInit, FoldersInv, OneBusy, Busy, FoldersOnce, NotMade
<1>2. UploadInv /\ FoldersInv /\ [Next]_vars => (UploadInv /\ FoldersInv)'
  BY FoldersStep, UploadStep
<1>3. FoldersInv => UniqueFolders
  BY DEF FoldersInv, FoldersFit, FoldersOnce, UniqueFolders
<1> QED
  BY <1>1, <1>2, <1>3, UploadInit, PTL DEF Spec

-----------------------------------------------------------------------------
(***************************************************************************)
(* Why a run fails                                                         *)
(***************************************************************************)
\* The drive has three levels: folders "jobs", in them the jobs' folders, in
\* them the files.
IsTop(i) == i.kind = "folder" /\ i.name = "jobs" /\ i.parent = Root
IsJobs(i) ==
  /\ i.kind = "folder" /\ i.name = JobOf[i.id[1]]
  /\ \E above \in items : above.id = i.parent /\ above.parent = Root
IsFile(i) ==
  /\ i.kind = "file"
  /\ \E folder \in items :
       folder.id = i.parent /\ folder.parent # Root /\ folder.name = JobOf[i.id[1]]

Levels == \A i \in items : IsTop(i) \/ IsJobs(i) \/ IsFile(i)

\* If no request has failed, who has made something knows of it.
Known(i) ==
  i.parent # Root =>
    LET u == i.id[1]
    IN  /\ Len(up[u].path) = 2
        /\ i.kind = "folder" => up[u].path[2] = i.id
        /\ i.kind = "file" => \E k \in DOMAIN up[u].sent : up[u].sent[k] = i.id

\* What a run has sent are the files of its package.
Named(u) ==
  \A k \in DOMAIN up[u].sent :
    /\ k \in DOMAIN Package
    /\ \E i \in items : i.id = up[u].sent[k] /\ i.name = Package[k] /\ i.parent = Here(u)

LevelsInv ==
  /\ Levels
  /\ errors = 0 => \A i \in items : Known(i)
  /\ \A u \in Clients : Named(u)

LEMMA MakerIsClient == Kept => \A i \in items : i.id[1] \in Clients
BY RootIsNoItem DEF Kept, Item, Ids

LEMMA ChildOfTop ==
  ASSUME Kept, Levels, NEW i \in items, NEW above \in items,
         above.id = i.parent, above.parent = Root
  PROVE  IsJobs(i) /\ i.parent # Root
BY RootIsNoItem DEF Kept, SameId, Levels, IsTop, IsFile

LEMMA ChildOfJobs ==
  ASSUME Kept, Levels, NEW i \in items, NEW folder \in items,
         folder.id = i.parent, folder.parent # Root
  PROVE  IsFile(i) /\ i.parent # Root /\ folder.name = JobOf[i.id[1]]
BY RootIsNoItem DEF Kept, SameId, Levels, IsTop, IsJobs, IsFile

LEMMA Appending ==
  ASSUME NEW S, NEW s \in Seq(S), NEW e
  PROVE  /\ Append(s, e) # <<>> /\ Len(Append(s, e)) = Len(s) + 1
         /\ Append(s, e)[Len(s) + 1] = e
         /\ DOMAIN Append(s, e) = 1 .. Len(s) + 1
         /\ \A k \in DOMAIN s : k \in DOMAIN Append(s, e) /\ Append(s, e)[k] = s[k]
<1>1. s \in Seq(S \cup {e}) /\ e \in S \cup {e}
  OBVIOUS
<1> QED
  BY <1>1

\* What a step of a run leaves as it is.
LEMMA StepGrows ==
  ASSUME UploadInv, NEW u \in Clients, Step(u)
  PROVE  /\ items \subseteq items' /\ (errors' = 0 => errors = 0)
         /\ \A v \in Clients \ {u} : up'[v] = up[v]
         /\ Len(up[u].path) = 2 => up'[u].path = up[u].path
         /\ up[u].sent # <<>> => up'[u].path = up[u].path
         /\ up[u].path # <<>> => up'[u].path # <<>>
         /\ \A k \in DOMAIN up[u].sent : k \in DOMAIN up'[u].sent /\ up'[u].sent[k] = up[u].sent[k]
<1>1. /\ up \in [Clients -> Run] /\ up[u].path \in Seq(Ids)
      /\ up[u].sent \in Seq(Ids) /\ errors \in Nat
  BY ErrorsAssumption DEF UploadInv, Types, DriveTypeOK, Run
<1>2. up[u].pc \in {"find", "make"} => Len(up[u].path) # 2 /\ up[u].sent = <<>>
  BY DEF UploadInv, PathInv, SentInv
<1>3. items \subseteq items'
  BY DEF Step, Start, Find, Make, Send, Verify, GiveUp, drive, Create, CreateFails
<1>4. errors' = errors \/ errors' = errors + 1
  BY DEF Step, Start, Find, Make, Send, Verify, GiveUp, drive, CreateFails, RequestFails
<1>5. CASE Start(u) \/ Verify(u) \/ GiveUp(u)
  <2>1. \A v \in Clients \ {u} : up'[v] = up[v]
    BY <1>1, <1>5 DEF Start, Verify, GiveUp, Stop
  <2>2. up'[u].path = up[u].path /\ up'[u].sent = up[u].sent
    BY <1>1, <1>5 DEF Start, Verify, GiveUp, Stop, Run
  <2> QED
    BY <1>1, <1>3, <1>4, <2>1, <2>2
<1>6. CASE Send(u)
  <2>1. \/ Stop(u)
        \/ up' = [up EXCEPT ![u].sent = Append(@, NewId(u)),
             ![u].pc = IF Package[Len(up[u].sent) + 1] = Last(Package) THEN "verify" ELSE "send"]
    BY <1>6 DEF Send
  <2>2. \A v \in Clients \ {u} : up'[v] = up[v]
    BY <1>1, <2>1 DEF Stop
  <2>3. up'[u].path = up[u].path
    BY <1>1, <2>1 DEF Stop, Run
  <2>4. up'[u].sent = up[u].sent \/ up'[u].sent = Append(up[u].sent, NewId(u))
    BY <1>1, <2>1 DEF Stop, Run
  <2>5. \A k \in DOMAIN up[u].sent : k \in DOMAIN up'[u].sent /\ up'[u].sent[k] = up[u].sent[k]
    BY <1>1, <2>4, Appending
  <2> QED
    BY <1>1, <1>3, <1>4, <2>2, <2>3, <2>5
<1>7. CASE Find(u) \/ Make(u)
  <2>1. up[u].pc \in {"find", "make"}
    BY <1>7 DEF Find, Make
  <2>2. \/ Stop(u)
        \/ up' = [up EXCEPT ![u].pc = "make"]
        \/ \E id : Enter(u, id)
    BY <1>7 DEF Find, Make
  <2>3. /\ \A v \in Clients \ {u} : up'[v] = up[v]
        /\ up'[u].sent = up[u].sent
        /\ up[u].path # <<>> => up'[u].path # <<>>
    <3>1. CASE Stop(u) \/ up' = [up EXCEPT ![u].pc = "make"]
      <4>1. up'[u].path = up[u].path /\ up'[u].sent = up[u].sent
        BY <1>1, <3>1 DEF Stop, Run
      <4> QED
        BY <1>1, <3>1, <4>1 DEF Stop
    <3>2. ASSUME NEW id, Enter(u, id)
          PROVE  /\ \A v \in Clients \ {u} : up'[v] = up[v]
                 /\ up'[u].sent = up[u].sent
                 /\ up[u].path # <<>> => up'[u].path # <<>>
      <4>1. up'[u].path = Append(up[u].path, id) /\ up'[u].sent = up[u].sent
        BY <1>1, <3>2 DEF Enter, Run
      <4>2. up'[u].path # <<>>
        BY <1>1, <4>1, Appending
      <4>3. \A v \in Clients \ {u} : up'[v] = up[v]
        BY <1>1, <3>2 DEF Enter
      <4> QED
        BY <4>1, <4>2, <4>3
    <3> QED
      BY <2>2, <3>1, <3>2
  <2> QED
    BY <1>1, <1>2, <1>3, <1>4, <2>1, <2>3
<1> QED
  BY <1>5, <1>6, <1>7 DEF Step

\* A step that leaves the drive alone, or adds an item where it belongs.
LEMMA LevelsGrow ==
  ASSUME UploadInv, LevelsInv, NEW u \in Clients, Step(u), Named(u)',
         \/ items' = items
         \/ \E new : /\ items' = items \cup {new}
                     /\ (IsTop(new) \/ IsJobs(new) \/ IsFile(new))
                     /\ errors' = 0 => Known(new)'
  PROVE  LevelsInv'
<1> USE DEF LevelsInv
<1>1. /\ items \subseteq items' /\ (errors' = 0 => errors = 0)
      /\ \A v \in Clients \ {u} : up'[v] = up[v]
      /\ Len(up[u].path) = 2 => up'[u].path = up[u].path
      /\ \A k \in DOMAIN up[u].sent : k \in DOMAIN up'[u].sent /\ up'[u].sent[k] = up[u].sent[k]
  BY StepGrows
<1>2. \A i : (IsTop(i) => IsTop(i)') /\ (IsJobs(i) => IsJobs(i)') /\ (IsFile(i) => IsFile(i)')
  BY <1>1 DEF IsTop, IsJobs, IsFile
<1>3. Levels'
  BY <1>1, <1>2 DEF Levels
<1>4. ASSUME NEW i \in items, Known(i)
      PROVE  Known(i)'
  <2>1. i.id[1] \in Clients
    BY MakerIsClient DEF UploadInv
  <2>2. CASE i.id[1] = u
    BY <1>1, <1>4, <2>2 DEF Known
  <2>3. CASE i.id[1] # u
    <3>1. up'[i.id[1]] = up[i.id[1]]
      BY <1>1, <2>1, <2>3
    <3> QED
      BY <1>4, <3>1 DEF Known
  <2> QED
    BY <2>2, <2>3
<1>5. errors' = 0 => \A i \in items' : Known(i)'
  BY <1>1, <1>4
<1>6. \A v \in Clients \ {u} : Named(v)'
  BY <1>1 DEF Named, Here
<1> QED
  BY <1>3, <1>5, <1>6

\* Named, for a run that sends nothing.
LEMMA NamedStays ==
  ASSUME NEW u \in Clients, Named(u), items \subseteq items',
         up'[u].sent = up[u].sent, up[u].sent # <<>> => up'[u].path = up[u].path,
         up[u].sent \in Seq(Ids)
  PROVE  Named(u)'
<1>1. CASE up[u].sent = <<>>
  BY <1>1 DEF Named
<1>2. CASE up[u].sent # <<>>
  BY <1>2 DEF Named, Here
<1> QED
  BY <1>1, <1>2

LEMMA MakeLevels ==
  ASSUME UploadInv, LevelsInv, NEW u \in Clients, Step(u), Make(u)
  PROVE  LevelsInv'
<1>1. /\ up \in [Clients -> Run] /\ up[u].path \in Seq(Ids)
      /\ up[u].sent \in Seq(Ids) /\ errors \in Nat
  BY ErrorsAssumption DEF UploadInv, Types, DriveTypeOK, Run
<1>2. Len(up[u].path) \in {0, 1} /\ up[u].sent = <<>>
  BY DEF UploadInv, PathInv, SentInv, Make
<1>3. Here(u) \in Ids /\ Wanted(u) \in Names
  BY <1>2, HereWanted DEF UploadInv
<1>4. Named(u)'
  <2>1. up'[u].sent = up[u].sent
    BY <1>1 DEF Make, Enter, Stop, Run
  <2> QED
    BY <1>2, <2>1 DEF Named
<1>5. CASE items' = items
  BY <1>4, <1>5, LevelsGrow
<1>6. CASE Create(u, Here(u), Wanted(u), "folder")
  <2>1. PICK new \in Item :
          /\ items' = items \cup {new} /\ new.id = NewId(u) /\ new.id[1] = u
          /\ new.parent = Here(u) /\ new.name = Wanted(u) /\ new.kind = "folder"
    <3> DEFINE here == Here(u)
               wanted == Wanted(u)
    <3>1. here \in Ids /\ wanted \in Names /\ Create(u, here, wanted, "folder") /\ Kept
      BY <1>3, <1>6 DEF UploadInv
    <3> HIDE DEF here, wanted
    <3>2. \E new \in Item :
            /\ items' = items \cup {new} /\ new.id = NewId(u) /\ new.id[1] = u
            /\ new.parent = here /\ new.name = wanted /\ new.kind = "folder"
      BY <3>1, CreateAdds
    <3> QED
      BY <3>2 DEF here, wanted
  <2>2. CASE Len(up[u].path) = 0
    <3>1. up[u].path = <<>>
      BY <1>1, <2>2
    <3>2. new.parent = Root /\ new.name = "jobs"
      BY <2>1, <3>1, HereWanted DEF UploadInv
    <3>3. IsTop(new)
      BY <2>1, <3>2 DEF IsTop
    <3>4. Known(new)'
      BY <3>2 DEF Known
    <3> QED
      BY <1>4, <2>1, <3>3, <3>4, LevelsGrow
  <2>3. CASE Len(up[u].path) = 1
    <3>1. new.parent = up[u].path[1] /\ new.name = JobOf[u]
      BY <2>1, <2>3, HereWanted DEF UploadInv
    <3>2. Led(up[u].path[1], "jobs", Root)
      BY <2>3 DEF UploadInv, PathInv
    <3>3. IsJobs(new)
      BY <2>1, <3>1, <3>2 DEF IsJobs, Led
    <3>4. ASSUME errors' = 0
          PROVE  Known(new)'
      <4>1. Enter(u, NewId(u))
        BY <1>1, <3>4 DEF Make, CreateFails, RequestFails
      <4>2. up'[u].path = Append(up[u].path, NewId(u))
        BY <1>1, <4>1 DEF Enter, Run
      <4>3. Len(up'[u].path) = 2 /\ up'[u].path[2] = NewId(u)
        BY <1>1, <2>3, <4>2, Appending
      <4> QED
        BY <2>1, <4>3 DEF Known
    <3> QED
      BY <1>4, <2>1, <3>3, <3>4, LevelsGrow
  <2> QED
    BY <1>2, <2>2, <2>3
<1> QED
  BY <1>5, <1>6 DEF Make, CreateFails

LEMMA SendLevels ==
  ASSUME UploadInv, LevelsInv, NEW u \in Clients, Step(u), Send(u)
  PROVE  LevelsInv'
<1> DEFINE n == Len(up[u].sent) + 1
<1>1. /\ up \in [Clients -> Run] /\ up[u].path \in Seq(Ids)
      /\ up[u].sent \in Seq(Ids) /\ errors \in Nat /\ Kept
  BY ErrorsAssumption DEF UploadInv, Types, DriveTypeOK, Run
<1>2. Len(up[u].path) = 2 /\ n \in 1 .. Len(Package) /\ Package[n] \in Names
  <2>1. Len(up[u].path) = 2 /\ Len(up[u].sent) < Len(Package)
    BY DEF UploadInv, PathInv, SentInv, Send
  <2> QED
    BY <1>1, <2>1, PackageAssumption
<1>3. Here(u) \in Ids /\ Here(u) = up[u].path[2]
  BY <1>2, HereWanted DEF UploadInv
<1>4. items \subseteq items'
  BY StepGrows
<1>5. ASSUME Stop(u)
      PROVE  Named(u)'
  <2>1. up'[u].sent = up[u].sent /\ up'[u].path = up[u].path
    BY <1>1, <1>5 DEF Stop, Run
  <2> QED
    BY <1>1, <1>4, <2>1, NamedStays DEF LevelsInv
<1>6. CASE items' = items
  <2>1. CASE Stop(u)
    BY <1>5, <1>6, <2>1, LevelsGrow
  <2>2. CASE Create(u, Here(u), Package[n], "file")
    <3>1. \E new \in Item : items' = items \cup {new} /\ \A i \in items : i.id # new.id
      <4> DEFINE here == Here(u)
                 name == Package[n]
      <4>1. here \in Ids /\ name \in Names /\ Create(u, here, name, "file")
        BY <1>2, <1>3, <2>2
      <4> HIDE DEF here, name
      <4> QED
        BY <1>1, <4>1, CreateAdds
    <3> QED
      BY <1>6, <3>1
  <2> QED
    BY <2>1, <2>2 DEF Send
<1>7. CASE Create(u, Here(u), Package[n], "file")
  <2>1. PICK new \in Item :
          /\ items' = items \cup {new} /\ new.id = NewId(u) /\ new.id[1] = u
          /\ new.parent = Here(u) /\ new.name = Package[n] /\ new.kind = "file"
    <3> DEFINE here == Here(u)
               name == Package[n]
    <3>1. here \in Ids /\ name \in Names /\ Create(u, here, name, "file")
      BY <1>2, <1>3, <1>7
    <3> HIDE DEF here, name
    <3>2. \E new \in Item :
            /\ items' = items \cup {new} /\ new.id = NewId(u) /\ new.id[1] = u
            /\ new.parent = here /\ new.name = name /\ new.kind = "file"
      BY <1>1, <3>1, CreateAdds
    <3> QED
      BY <3>2 DEF here, name
  <2>2. Led(up[u].path[1], "jobs", Root) /\ Led(up[u].path[2], JobOf[u], up[u].path[1])
    BY <1>2 DEF UploadInv, PathInv
  <2>3. IsFile(new)
    BY <1>1, <1>3, <2>1, <2>2, RootIsNoItem DEF IsFile, Led
  <2>4. CASE Stop(u)
    <3>1. errors' # 0
      BY <1>1, <2>4 DEF Send, CreateFails, RequestFails, Stop, Run
    <3> QED
      BY <1>5, <2>1, <2>3, <2>4, <3>1, LevelsGrow
  <2>5. CASE ~Stop(u)
    <3>1. up' = [up EXCEPT ![u].sent = Append(@, NewId(u)),
                   ![u].pc = IF Package[n] = Last(Package) THEN "verify" ELSE "send"]
      BY <2>5 DEF Send
    <3>2. up'[u].sent = Append(up[u].sent, NewId(u)) /\ up'[u].path = up[u].path
      BY <1>1, <3>1 DEF Run
    <3>3. /\ DOMAIN up'[u].sent = 1 .. n /\ up'[u].sent[n] = NewId(u)
          /\ DOMAIN up[u].sent = 1 .. n - 1
          /\ \A k \in DOMAIN up[u].sent : up'[u].sent[k] = up[u].sent[k]
      BY <1>1, <3>2, Appending
    <3>4. Known(new)'
      BY <1>2, <2>1, <3>2, <3>3 DEF Known
    <3>5. Named(u)'
      <4>1. Here(u)' = Here(u)
        BY <3>2 DEF Here
      <4>2. ASSUME NEW k \in 1 .. n
            PROVE  /\ k \in DOMAIN Package
                   /\ \E i \in items' : /\ i.id = up'[u].sent[k] /\ i.name = Package[k]
                                        /\ i.parent = Here(u)
        <5>1. CASE k = n
          BY <1>2, <2>1, <3>3, <5>1
        <5>2. CASE k # n
          <6>1. k \in DOMAIN up[u].sent
            BY <1>2, <3>3, <5>2
          <6>2. /\ k \in DOMAIN Package
                /\ \E i \in items : /\ i.id = up[u].sent[k] /\ i.name = Package[k]
                                    /\ i.parent = Here(u)
            BY <6>1 DEF LevelsInv, Named
          <6> QED
            BY <1>4, <3>3, <6>1, <6>2
        <5> QED
          BY <5>1, <5>2
      <4> QED
        BY <3>3, <4>1, <4>2 DEF Named
    <3> QED
      BY <2>1, <2>3, <3>4, <3>5, LevelsGrow
  <2> QED
    BY <2>4, <2>5
<1> QED
  BY <1>6, <1>7 DEF Send, CreateFails

LEMMA LevelsStep == UploadInv /\ LevelsInv /\ [Next]_vars => LevelsInv'
<1> SUFFICES ASSUME UploadInv, LevelsInv, [Next]_vars
             PROVE  LevelsInv'
  OBVIOUS
<1>1. CASE UNCHANGED vars
  BY <1>1 DEF vars, LevelsInv, Levels, IsTop, IsJobs, IsFile, Known, Named, Here
<1>2. ASSUME NEW u \in Clients, Step(u)
      PROVE  LevelsInv'
  <2>1. CASE Start(u) \/ Find(u) \/ Verify(u) \/ GiveUp(u)
    <3>1. items' = items
      BY <2>1 DEF Start, Find, Verify, GiveUp, drive
    <3>2. up \in [Clients -> Run] /\ up[u].sent \in Seq(Ids)
      BY DEF UploadInv, Types, Run
    <3>3. up'[u].sent = up[u].sent
      BY <2>1, <3>2 DEF Start, Find, Verify, GiveUp, Stop, Enter, Run
    <3>4. up[u].sent # <<>> => up'[u].path = up[u].path
      BY <1>2, StepGrows
    <3>5. Named(u)'
      BY <3>1, <3>2, <3>3, <3>4, NamedStays DEF LevelsInv
    <3> QED
      BY <1>2, <3>1, <3>5, LevelsGrow
  <2> QED
    BY <1>2, <2>1, MakeLevels, SendLevels DEF Step
<1> QED
  BY <1>1, <1>2 DEF Next

-----------------------------------------------------------------------------
\* FailureExplained, for one run.
Explained(u) ==
  \/ errors > 0
  \/ \E v \in Clients \ {u} : JobOf[v] = JobOf[u] /\ up[v].path # <<>>
  \/ Cardinality(FoldersNamed(Root, "jobs")) > 1

\* An explanation stays one: errors are counted, paths never given up and
\* folders never deleted.
LEMMA StillExplained ==
  ASSUME UploadInv, NEW u \in Clients, Step(u), NEW v \in Clients, Explained(v)
  PROVE  Explained(v)'
<1>1. UploadInv'
  BY UploadStep DEF Next
<1>2. errors \in Nat /\ errors' \in Nat
  BY <1>1, ErrorsAssumption DEF UploadInv, Types, DriveTypeOK
<1>3. /\ items \subseteq items' /\ (errors' = 0 => errors = 0)
      /\ \A w \in Clients \ {u} : up'[w] = up[w]
      /\ up[u].path # <<>> => up'[u].path # <<>>
  BY StepGrows
<1>4. CASE errors > 0
  BY <1>2, <1>3, <1>4 DEF Explained
<1>5. CASE \E w \in Clients \ {v} : JobOf[w] = JobOf[v] /\ up[w].path # <<>>
  <2>1. PICK w \in Clients \ {v} : JobOf[w] = JobOf[v] /\ up[w].path # <<>>
    BY <1>5
  <2>2. up'[w].path # <<>>
    BY <1>3, <2>1
  <2> QED
    BY <2>1, <2>2 DEF Explained
<1>6. CASE Cardinality(FoldersNamed(Root, "jobs")) > 1
  <2> DEFINE before == FoldersNamed(Root, "jobs")
             after == FoldersNamed(Root, "jobs")'
  <2>1. IsFiniteSet(after) /\ before \in SUBSET after
    BY <1>1, <1>3, FS_Subset DEF UploadInv, Kept, FoldersNamed, Children
  <2>2. Cardinality(before) > 1
    BY <1>6
  <2>3. Cardinality(after) > 1
    <3> HIDE DEF before, after
    <3>1. IsFiniteSet(before) /\ Cardinality(before) <= Cardinality(after)
      BY <2>1, FS_Subset
    <3>2. Cardinality(before) \in Nat /\ Cardinality(after) \in Nat
      BY <2>1, <3>1, FS_CardinalityType
    <3> QED
      BY <2>2, <3>1, <3>2
  <2> QED
    BY <2>3 DEF Explained
<1> QED
  BY <1>4, <1>5, <1>6 DEF Explained

LEMMA TwoTops ==
  ASSUME Kept, NEW i \in items, NEW k \in items, i # k, IsTop(i), IsTop(k)
  PROVE  Cardinality(FoldersNamed(Root, "jobs")) > 1
<1> DEFINE tops == FoldersNamed(Root, "jobs")
<1>1. IsFiniteSet(tops) /\ {i, k} \in SUBSET tops
  BY FS_Subset DEF Kept, FoldersNamed, Children, IsTop
<1>2. IsFiniteSet({i}) /\ Cardinality({i}) = 1
  BY FS_Singleton
<1>3. {i, k} = {i} \cup {k} /\ k \notin {i}
  OBVIOUS
<1> HIDE DEF tops
<1>4. Cardinality({i, k}) = 2
  BY <1>2, <1>3, FS_AddElement
<1>5. 2 <= Cardinality(tops) /\ Cardinality(tops) \in Nat
  BY <1>1, <1>4, FS_Subset, FS_CardinalityType
<1> QED
  BY <1>5 DEF tops

\* A folder that find_or_create_child_folder cannot choose is a second "jobs",
\* or the folder another run has made for the job.
LEMMA FindExplained ==
  ASSUME UploadInv, LevelsInv, NEW u \in Clients, Step(u), Find(u), up'[u].pc = "failed"
  PROVE  Explained(u)
<1>1. /\ up \in [Clients -> Run] /\ up[u].path \in Seq(Ids) /\ errors \in Nat
      /\ Kept /\ Levels
  BY ErrorsAssumption DEF UploadInv, LevelsInv, Types, DriveTypeOK, Run
<1>2. up[u].pc = "find" /\ Len(up[u].path) \in {0, 1}
  BY DEF UploadInv, PathInv, Find
<1>3. PICK page \in Pages(Here(u)) :
        LET matches == {i \in page : i.name = Wanted(u)}
        IN  \/ matches = {} /\ up' = [up EXCEPT ![u].pc = "make"]
            \/ \E i \in matches : i.kind # "folder" \/ \E k \in matches : k # i
            \/ \E i \in matches : Enter(u, i.id)
  BY DEF Find
<1>4. up' # [up EXCEPT ![u].pc = "make"] /\ \A id : ~Enter(u, id)
  BY <1>1 DEF Enter, Run
<1>5. page \subseteq Children(Here(u))
  BY DEF Pages
<1>6. PICK i \in items : /\ i.parent = Here(u) /\ i.name = Wanted(u)
                        /\ \/ i.kind # "folder"
                           \/ \E k \in items : k.parent = Here(u) /\ k.name = Wanted(u) /\ k # i
  BY <1>3, <1>4, <1>5 DEF Children
<1>7. CASE Len(up[u].path) = 0
  <2>1. up[u].path = <<>>
    BY <1>1, <1>7
  <2>2. Here(u) = Root /\ Wanted(u) = "jobs"
    BY <2>1, HereWanted DEF UploadInv
  <2>3. \A k \in items : k.parent = Root => IsTop(k)
    BY <1>1, RootIsNoItem DEF Levels, IsTop, IsJobs, IsFile
  <2>4. PICK k \in items : k # i /\ IsTop(k) /\ IsTop(i)
    BY <1>6, <2>2, <2>3 DEF IsTop
  <2> QED
    BY <1>1, <2>4, TwoTops DEF Explained
<1>8. CASE Len(up[u].path) = 1
  <2>1. Here(u) = up[u].path[1] /\ Wanted(u) = JobOf[u]
    BY <1>8, HereWanted DEF UploadInv
  <2>2. Led(up[u].path[1], "jobs", Root)
    BY <1>8 DEF UploadInv, PathInv
  <2>3. IsJobs(i) /\ i.parent # Root
    BY <1>1, <1>6, <2>1, <2>2, ChildOfTop DEF Led
  <2>4. CASE errors = 0
    <3> DEFINE v == i.id[1]
    <3>1. v \in Clients /\ JobOf[v] = JobOf[u]
      BY <1>1, <1>6, <2>1, <2>3, MakerIsClient DEF IsJobs
    <3>2. Len(up[v].path) = 2
      BY <2>3, <2>4 DEF LevelsInv, Known
    <3>3. v # u
      BY <1>8, <3>2
    <3>4. up[v].path # <<>>
      BY <3>2
    <3> QED
      BY <3>1, <3>3, <3>4 DEF Explained
  <2> QED
    BY <1>1, <2>4 DEF Explained
<1> QED
  BY <1>2, <1>7, <1>8

\* A run alone in its folder, after no failed request, finds what it has sent.
LEMMA AloneConfirms ==
  ASSUME SmallPackage, UploadInv, LevelsInv, NEW u \in Clients, up[u].pc = "verify",
         ~Explained(u), NEW page \in Pages(Here(u))
  PROVE  Confirmed(u, page)
<1> DEFINE here == Children(Here(u))
           sent == up[u].sent
<1>1. /\ up \in [Clients -> Run] /\ up[u].path \in Seq(Ids) /\ sent \in Seq(Ids)
      /\ errors \in Nat /\ Kept /\ Levels
  BY ErrorsAssumption DEF UploadInv, LevelsInv, Types, DriveTypeOK, Run
<1>2. Len(up[u].path) = 2 /\ DOMAIN sent = DOMAIN Package /\ DOMAIN Package = 1 .. Len(Package)
      /\ Len(Package) \in Nat
  BY <1>1, PackageAssumption DEF UploadInv, PathInv, SentInv
<1>3. Here(u) = up[u].path[2]
  BY <1>2, HereWanted DEF UploadInv
<1>4. PICK folder \in items : folder.id = Here(u) /\ folder.name = JobOf[u] /\ folder.parent # Root
  BY <1>1, <1>2, <1>3, RootIsNoItem DEF UploadInv, PathInv, Led
<1>5. errors = 0 /\ \A v \in Clients \ {u} : JobOf[v] = JobOf[u] => up[v].path = <<>>
  BY <1>1 DEF Explained
<1>6. ASSUME NEW i \in here
      PROVE  \E k \in DOMAIN sent : sent[k] = i.id
  <2>1. i \in items /\ i.parent = Here(u)
    BY DEF Children
  <2>2. IsFile(i) /\ i.parent # Root /\ JobOf[i.id[1]] = JobOf[u]
    BY <1>1, <1>4, <2>1, ChildOfJobs
  <2>3. i.id[1] \in Clients /\ Known(i)
    BY <1>1, <1>5, <2>1, MakerIsClient DEF LevelsInv
  <2>4. up[i.id[1]].path # <<>>
    <3>1. Len(up[i.id[1]].path) = 2
      BY <2>2, <2>3 DEF Known
    <3>2. \A s : Len(s) = 2 => s # <<>>
      OBVIOUS
    <3> QED
      BY <3>1, <3>2
  <2>5. i.id[1] = u
    BY <1>5, <2>2, <2>3, <2>4
  <2> QED
    BY <2>2, <2>3, <2>5 DEF Known, IsFile
<1>7. \A k \in DOMAIN sent : \E i \in here : i.id = sent[k] /\ i.name = Package[k]
  BY DEF LevelsInv, Named, Children
<1>8. \A i \in here, k \in DOMAIN sent : i.id = sent[k] => i.name = Package[k]
  BY <1>1, <1>7 DEF Kept, SameId, Children
<1>9. {i.name : i \in here} = Range(Package) /\ Range(sent) = {i.id : i \in here}
  BY <1>2, <1>6, <1>7, <1>8 DEF Range
<1>10. Cardinality(here) = Len(Package)
  <2> DEFINE f == [k \in 1 .. Len(Package) |-> CHOOSE i \in here : i.id = sent[k]]
  <2>1. \A k \in 1 .. Len(Package) : f[k] \in here /\ f[k].id = sent[k] /\ f[k].name = Package[k]
    BY <1>2, <1>7, <1>8
  <2>2. \A i \in here : \E k \in 1 .. Len(Package) : f[k] = i
    BY <1>1, <1>2, <1>6, <2>1 DEF Kept, SameId, Children
  <2>3. \A k, m \in 1 .. Len(Package) : f[k] = f[m] => k = m
    BY <1>2, <2>1, PackageAssumption DEF IsInjective
  <2>4. f \in [1 .. Len(Package) -> here]
    BY <2>1
  <2> HIDE DEF f, here
  <2>5. f \in Bijection(1 .. Len(Package), here)
    BY <2>2, <2>3, <2>4 DEF Bijection, Injection, Surjection, IsInjective
  <2> QED
    BY <1>2, <2>5, FS_CountingElements DEF ExistsBijection
<1>11. page = here
  BY <1>2, <1>10, PageAssumption DEF Pages, SmallPackage
<1> QED
  BY <1>9, <1>10, <1>11 DEF Confirmed

LEMMA FailureStep ==
  SmallPackage /\ UploadInv /\ LevelsInv /\ FailureExplained /\ [Next]_vars => FailureExplained'
<1> SUFFICES ASSUME SmallPackage, UploadInv, LevelsInv, FailureExplained, [Next]_vars
             PROVE  FailureExplained'
  OBVIOUS
<1>1. CASE UNCHANGED vars
  BY <1>1 DEF vars, FailureExplained, FoldersNamed, Children
<1>2. ASSUME NEW u \in Clients, Step(u)
      PROVE  FailureExplained'
  <2>1. up \in [Clients -> Run] /\ errors \in Nat
    BY ErrorsAssumption DEF UploadInv, Types, DriveTypeOK
  <2>2. \A v \in Clients : up[v].pc = "failed" => Explained(v)'
    BY <1>2, StillExplained DEF FailureExplained, Explained
  <2>3. \A v \in Clients \ {u} : up'[v] = up[v]
    BY <1>2, StepGrows
  <2>4. ASSUME up'[u].pc = "failed"
        PROVE  Explained(u)'
    <3>1. CASE Find(u)
      BY <1>2, <2>4, <3>1, FindExplained, StillExplained
    <3>2. CASE Verify(u)
      <4>1. PICK page \in Pages(Here(u)) :
              up' = [up EXCEPT ![u].pc = IF Confirmed(u, page) THEN "verified" ELSE "failed"]
        BY <3>2 DEF Verify
      <4>2. ~Confirmed(u, page)
        BY <2>1, <2>4, <4>1 DEF Run
      <4>3. Explained(u)
        BY <3>2, <4>2, AloneConfirms DEF Verify
      <4> QED
        BY <1>2, <4>3, StillExplained
    <3>3. CASE Make(u) \/ Send(u) \/ GiveUp(u)
      <4>1. errors' = errors + 1
        BY <2>1, <2>4, <3>3 DEF Make, Send, GiveUp, Enter, CreateFails, RequestFails, Run
      <4> QED
        BY <2>1, <4>1 DEF Explained
    <3>4. ~Start(u)
      BY <2>1, <2>4 DEF Start, Run
    <3> QED
      BY <1>2, <3>1, <3>2, <3>3, <3>4 DEF Step
  <2>5. \A v \in Clients : up'[v].pc = "failed" => Explained(v)'
    BY <2>2, <2>3, <2>4
  <2> QED
    BY <2>5 DEF FailureExplained, Explained
<1> QED
  BY <1>1, <1>2 DEF Next

\* If a listing shows more files than a package has, runs of other jobs do not
\* make a run fail, unless two of them have each made a folder "jobs".
THEOREM UploadFailureExplained == ASSUME SmallPackage PROVE Spec => []FailureExplained
<1>1. Init => LevelsInv /\ FailureExplained
  BY DEF Init, DriveInit, LevelsInv, Levels, Named, FailureExplained
<1>2. UploadInv /\ LevelsInv /\ FailureExplained /\ [Next]_vars
        => (UploadInv /\ LevelsInv /\ FailureExplained)'
  BY UploadStep, LevelsStep, FailureStep
<1> QED
  BY <1>1, <1>2, UploadInit, PTL DEF Spec
=============================================================================
