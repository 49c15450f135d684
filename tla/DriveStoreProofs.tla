--------------------------- MODULE DriveStoreProofs ---------------------------
(***************************************************************************)
(* DriveStore for any calls, jobs, packages and number of failed requests: *)
(* types, that no call answers with another job's files, that repeated     *)
(* calls store no file twice, and that only a failed request stops a call. *)
(*                                                                         *)
(* The first two need no bound on the listings: a file lies where its job  *)
(* is named, whatever a listing hides.  The third is an invariant of those *)
(* states in which the folders fit on a page; before a call creates an     *)
(* item, its last listing has shown that there is none of this name, and   *)
(* since then nobody else could have made one.  So the listings that a     *)
(* call reads are in order, which gives the last.                          *)
(***************************************************************************)
EXTENDS DriveStore, DriveProofs

JobFolder(id, job) == \E f \in items : f.id = id /\ f.parent = Root /\ f.name = job

\* An item is its job's folder, or a file in such a folder.
Placed(i) ==
  \/ i.parent = Root /\ i.name = JobOf[i.id[1]]
  \/ i.name \in FileNames /\ JobFolder(i.parent, JobOf[i.id[1]])

Stored == Kept /\ \A i \in items : Placed(i)

\* A call works in its job's folder, and answers with what lies in it.
CallInv(c) ==
  /\ IsCall(call[c])
  /\ call[c].pc \in {"look", "send", "verify", "done"} => JobFolder(call[c].folder, JobOf[c])
  /\ call[c].pc = "done" =>
       \A id \in Range(call[c].ids) : \E i \in items : i.id = id /\ i.parent = call[c].folder

StoreInv ==
  /\ Stored /\ errors \in 0 .. MaxErrors
  /\ DOMAIN call = Clients /\ \A c \in Clients : CallInv(c)

-----------------------------------------------------------------------------
LEMMA StoredStays == Stored /\ UNCHANGED items => Stored'
BY KeptStays DEF Stored, Placed, JobFolder

\* Where a new item is put decides whether the drive is still in order.
LEMMA CreateKeeps ==
  ASSUME Stored, NEW c \in Clients, NEW parent \in Ids, NEW name \in Names,
         NEW kind \in {"folder", "file"}, Create(c, parent, name, kind),
         \/ parent = Root /\ name = JobOf[c]
         \/ name \in FileNames /\ JobFolder(parent, JobOf[c])
  PROVE  /\ Stored' /\ items \subseteq items' /\ NewId(c) \in Ids
         /\ \E new \in items' : /\ items' = items \cup {new} /\ new.id = NewId(c)
                                /\ new.parent = parent /\ new.name = name
<1>1. Kept' /\ NewId(c) \in Ids
  BY CreateAdds DEF Stored
<1>2. PICK new : /\ items' = items \cup {new} /\ new.id = NewId(c) /\ new.id[1] = c
                 /\ new.parent = parent /\ new.name = name
  BY CreateAdds DEF Stored
<1>3. \A id, job : JobFolder(id, job) => JobFolder(id, job)'
  BY <1>2 DEF JobFolder
<1>4. \A i \in items : Placed(i)'
  BY <1>3 DEF Stored, Placed
<1>5. Placed(new)'
  <2>1. \/ new.parent = Root /\ new.name = JobOf[c]
        \/ new.name \in FileNames /\ JobFolder(new.parent, JobOf[c])'
    BY <1>2, <1>3
  <2> QED
    BY <1>2, <2>1 DEF Placed, JobFolder
<1> QED
  BY <1>1, <1>2, <1>4, <1>5 DEF Stored

LEMMA OthersKeep ==
  ASSUME NEW c \in Clients, CallInv(c), call'[c] = call[c], items \subseteq items'
  PROVE  CallInv(c)'
BY DEF CallInv, JobFolder


\* A step of one call: what it must establish about itself.
LEMMA CallChanges ==
  ASSUME StoreInv, Stored', items \subseteq items', errors' \in 0 .. MaxErrors,
         NEW c \in Clients, NEW rec, IsCall(rec), call' = [call EXCEPT ![c] = rec],
         rec.pc \in {"look", "send", "verify", "done"} =>
           \E f \in items' : f.id = rec.folder /\ f.parent = Root /\ f.name = JobOf[c],
         rec.pc = "done" =>
           \A id \in Range(rec.ids) : \E i \in items' : i.id = id /\ i.parent = rec.folder
  PROVE  StoreInv'
<1>1. DOMAIN call = Clients
  BY DEF StoreInv
<1>2. DOMAIN call' = Clients /\ call'[c] = rec /\ \A d \in Clients \ {c} : call'[d] = call[d]
  BY <1>1
<1>3. \A d \in Clients \ {c} : CallInv(d)'
  BY <1>2, OthersKeep DEF StoreInv
<1>4. CallInv(c)'
  BY <1>2 DEF CallInv, JobFolder
<1> QED
  BY <1>2, <1>3, <1>4 DEF StoreInv

LEMMA JobFoldersStay ==
  ASSUME items \subseteq items', NEW id, NEW job, JobFolder(id, job)
  PROVE  \E f \in items' : f.id = id /\ f.parent = Root /\ f.name = job
BY DEF JobFolder

LEMMA GotoKeeps ==
  ASSUME StoreInv, Stored', items \subseteq items', errors' \in 0 .. MaxErrors,
         NEW c \in Clients, NEW pc, Goto(c, pc),
         \/ pc \in {"find", "make", "failed"}
         \/ pc \in {"send", "verify"} /\ call[c].pc \in {"look", "send"}
  PROVE  StoreInv'
<1> DEFINE rec == [call[c] EXCEPT !.pc = pc]
<1>1. DOMAIN call = Clients /\ IsCall(call[c])
  BY DEF StoreInv, CallInv
<1>2. /\ DOMAIN rec = {"pc", "folder", "ids"} /\ rec.pc = pc
      /\ rec.folder = call[c].folder /\ rec.ids = call[c].ids
  BY <1>1 DEF IsCall
<1>3. call' = [call EXCEPT ![c] = rec]
  BY <1>1 DEF Goto
<1>4. call[c].pc \in {"look", "send"} => JobFolder(call[c].folder, JobOf[c])
  BY DEF StoreInv, CallInv
<1> HIDE DEF rec
<1>5. IsCall(rec)
  BY <1>1, <1>2 DEF IsCall
<1>6. rec.pc \in {"look", "send", "verify", "done"} =>
        \E f \in items' : f.id = rec.folder /\ f.parent = Root /\ f.name = JobOf[c]
  BY <1>2, <1>4, JobFoldersStay
<1>7. rec.pc # "done"
  BY <1>2
<1> QED
  BY <1>3, <1>5, <1>6, <1>7, CallChanges

LEMMA EnterKeeps ==
  ASSUME StoreInv, Stored', items \subseteq items', errors' \in 0 .. MaxErrors,
         NEW c \in Clients, NEW id \in Ids,
         call' = [call EXCEPT ![c].pc = "look", ![c].folder = id],
         \E f \in items' : f.id = id /\ f.parent = Root /\ f.name = JobOf[c]
  PROVE  StoreInv'
<1> DEFINE rec == [call[c] EXCEPT !.pc = "look", !.folder = id]
<1>1. DOMAIN call = Clients /\ IsCall(call[c])
  BY DEF StoreInv, CallInv
<1>2. /\ DOMAIN rec = {"pc", "folder", "ids"} /\ rec.pc = "look"
      /\ rec.folder = id /\ rec.ids = call[c].ids
  BY <1>1 DEF IsCall
<1>3. call' = [call EXCEPT ![c] = rec]
  BY <1>1 DEF IsCall
<1> HIDE DEF rec
<1>4. IsCall(rec)
  BY <1>1, <1>2 DEF IsCall
<1> QED
  BY <1>2, <1>3, <1>4, CallChanges

\* A listing of the folder is taken over: by Look, and by Verify as the result.
LEMMA TakeOverKeeps ==
  ASSUME StoreInv, UNCHANGED drive, NEW c \in Clients, NEW page \in Pages(call[c].folder),
         Existing(page), NEW pc \in {"send", "done"}, call[c].pc \in {"look", "verify"},
         call' = [call EXCEPT ![c].pc = pc, ![c].ids = FileIds(page)]
  PROVE  StoreInv'
<1> DEFINE rec == [call[c] EXCEPT !.pc = pc, !.ids = FileIds(page)]
<1>1. DOMAIN call = Clients /\ IsCall(call[c])
  BY DEF StoreInv, CallInv
<1>2. /\ DOMAIN rec = {"pc", "folder", "ids"} /\ rec.pc = pc
      /\ rec.folder = call[c].folder /\ rec.ids = FileIds(page)
  BY <1>1 DEF IsCall
<1>3. call' = [call EXCEPT ![c] = rec]
  BY <1>1 DEF IsCall
<1>4. page \subseteq Children(call[c].folder) /\ items \subseteq Item
  BY DEF Pages, StoreInv, Stored, Kept
<1>5. \A id \in Range(FileIds(page)) :
        id \in Ids /\ \E i \in items : i.id = id /\ i.parent = call[c].folder
  BY <1>4 DEF FileIds, Range, Children, Item
<1>6. DOMAIN FileIds(page) \subseteq FileNames
  BY DEF FileIds, Existing
<1> HIDE DEF rec
<1>7. IsCall(rec)
  BY <1>1, <1>2, <1>5, <1>6 DEF IsCall
<1>8. items' = items /\ errors' = errors /\ Stored'
  BY StoredStays DEF drive, StoreInv
<1>9. \E f \in items' : f.id = rec.folder /\ f.parent = Root /\ f.name = JobOf[c]
  BY <1>2, <1>8 DEF StoreInv, CallInv, JobFolder
<1>10. \A id \in Range(rec.ids) : \E i \in items' : i.id = id /\ i.parent = rec.folder
  BY <1>2, <1>5, <1>8
<1> QED
  BY <1>3, <1>7, <1>8, <1>9, <1>10, CallChanges DEF StoreInv


LEMMA NamesAreNames ==
  /\ FileNames \subseteq Names
  /\ \A k \in DOMAIN Expected : Expected[k] \in FileNames
  /\ \A c \in Clients : JobOf[c] \in Names /\ JobOf[c] \notin FileNames
BY ExpectedAssumption DEF FileNames, Range

LEMMA BeginStep == ASSUME StoreInv, NEW c \in Clients, Begin(c) \/ GiveUp(c) PROVE StoreInv'
<1>1. items' = items /\ Stored'
  BY StoredStays DEF Begin, GiveUp, drive, StoreInv
<1>2. errors' \in 0 .. MaxErrors
  BY ErrorsAssumption DEF StoreInv, Begin, GiveUp, drive, RequestFails
<1> QED
  BY <1>1, <1>2, GotoKeeps DEF Begin, GiveUp

LEMMA FindStep == ASSUME StoreInv, NEW c \in Clients, Find(c) PROVE StoreInv'
<1>1. items' = items /\ Stored' /\ errors' \in 0 .. MaxErrors
  BY StoredStays DEF Find, drive, StoreInv
<1>2. PICK page \in Pages(Root) :
        \/ Goto(c, "make")
        \/ Goto(c, "failed")
        \/ \E i \in page : /\ i.name = JobOf[c]
                           /\ call' = [call EXCEPT ![c].pc = "look", ![c].folder = i.id]
  BY DEF Find
<1>3. page \subseteq Children(Root) /\ items \subseteq Item
  BY DEF Pages, StoreInv, Stored, Kept
<1>4. CASE Goto(c, "make") \/ Goto(c, "failed")
  BY <1>1, <1>4, GotoKeeps
<1>5. ASSUME NEW i \in page, i.name = JobOf[c],
             call' = [call EXCEPT ![c].pc = "look", ![c].folder = i.id]
      PROVE  StoreInv'
  <2>1. i \in items' /\ i.id \in Ids /\ i.parent = Root
    BY <1>1, <1>3 DEF Children, Item
  <2> QED
    BY <1>1, <1>5, <2>1, EnterKeeps
<1> QED
  BY <1>2, <1>4, <1>5

LEMMA MakeStep == ASSUME StoreInv, NEW c \in Clients, Make(c) PROVE StoreInv'
<1>1. JobOf[c] \in Names /\ Root \in Ids /\ Stored
  BY NamesAreNames DEF StoreInv, Ids
<1>2. ASSUME Create(c, Root, JobOf[c], "folder")
      PROVE  /\ Stored' /\ items \subseteq items' /\ NewId(c) \in Ids
             /\ \E new \in items' : new.id = NewId(c) /\ new.parent = Root /\ new.name = JobOf[c]
  BY <1>1, <1>2, CreateKeeps
<1>3. CASE /\ Create(c, Root, JobOf[c], "folder")
           /\ call' = [call EXCEPT ![c].pc = "look", ![c].folder = NewId(c)]
           /\ UNCHANGED errors
  BY <1>2, <1>3, EnterKeeps DEF StoreInv
<1>4. CASE CreateFails(c, Root, JobOf[c], "folder") /\ Goto(c, "failed")
  <2>1. Stored' /\ items \subseteq items'
    <3>1. CASE UNCHANGED items
      BY <3>1, StoredStays DEF StoreInv
    <3>2. CASE Create(c, Root, JobOf[c], "folder")
      BY <1>2, <3>2
    <3> QED
      BY <1>4, <3>1, <3>2 DEF CreateFails
  <2>2. errors' \in 0 .. MaxErrors
    BY <1>4, ErrorsAssumption DEF StoreInv, CreateFails, RequestFails
  <2> QED
    BY <1>4, <2>1, <2>2, GotoKeeps
<1> QED
  BY <1>3, <1>4 DEF Make

LEMMA LookStep == ASSUME StoreInv, NEW c \in Clients, Look(c) \/ Verify(c) PROVE StoreInv'
<1>1. UNCHANGED drive /\ call[c].pc \in {"look", "verify"}
  BY DEF Look, Verify
<1>2. items' = items /\ Stored' /\ errors' \in 0 .. MaxErrors
  BY <1>1, StoredStays DEF drive, StoreInv
<1>3. PICK page \in Pages(call[c].folder) :
        \/ Goto(c, "failed")
        \/ /\ Existing(page)
           /\ \E pc \in {"send", "done"} :
                call' = [call EXCEPT ![c].pc = pc, ![c].ids = FileIds(page)]
  BY DEF Look, Verify
<1>4. CASE Goto(c, "failed")
  BY <1>2, <1>4, GotoKeeps
<1>5. CASE /\ Existing(page)
           /\ \E pc \in {"send", "done"} :
                call' = [call EXCEPT ![c].pc = pc, ![c].ids = FileIds(page)]
  BY <1>1, <1>5, TakeOverKeeps
<1> QED
  BY <1>3, <1>4, <1>5

\* The file that a call is about to send, and what the drive becomes with it.
LEMMA SendCreates ==
  ASSUME StoreInv, NEW c \in Clients, call[c].pc = "send", NEW name \in FileNames,
         Create(c, call[c].folder, name, "file")
  PROVE  /\ Stored' /\ items \subseteq items' /\ NewId(c) \in Ids
         /\ \E new : items' = items \cup {new} /\ new.parent = call[c].folder /\ new.name = name
<1>1. call[c].folder \in Ids /\ JobFolder(call[c].folder, JobOf[c]) /\ Stored /\ name \in Names
  BY NamesAreNames DEF StoreInv, CallInv, IsCall
<1> DEFINE folder == call[c].folder
<1>2. Create(c, folder, name, "file") /\ folder \in Ids /\ JobFolder(folder, JobOf[c])
  BY <1>1
<1> HIDE DEF folder
<1>3. /\ Stored' /\ items \subseteq items' /\ NewId(c) \in Ids
      /\ \E new : items' = items \cup {new} /\ new.parent = folder /\ new.name = name
  BY <1>1, <1>2, CreateKeeps
<1> QED
  BY <1>3 DEF folder

LEMMA SendStep == ASSUME StoreInv, NEW c \in Clients, Send(c) PROVE StoreInv'
<1>1. call[c].pc = "send" /\ DOMAIN call = Clients /\ IsCall(call[c])
  BY DEF Send, StoreInv, CallInv
<1>2. CASE Goto(c, "verify") /\ UNCHANGED drive
  <2>1. items' = items /\ Stored' /\ errors' \in 0 .. MaxErrors
    BY <1>2, StoredStays DEF drive, StoreInv
  <2> QED
    BY <1>1, <1>2, <2>1, GotoKeeps
<1>3. ASSUME NEW k \in Missing(c), Create(c, call[c].folder, Expected[k], "file"),
             call' = [call EXCEPT ![c].ids = Added(@, Expected[k], NewId(c))],
             UNCHANGED errors
      PROVE  StoreInv'
  <2>1. Expected[k] \in FileNames
    BY <1>3, NamesAreNames DEF Missing
  <2>2. Stored' /\ items \subseteq items' /\ NewId(c) \in Ids
    BY <1>1, <1>3, <2>1, SendCreates
  <2> DEFINE ids == Added(call[c].ids, Expected[k], NewId(c))
             rec == [call[c] EXCEPT !.ids = ids]
  <2>3. DOMAIN ids = {Expected[k]} \cup DOMAIN call[c].ids
    BY DEF Added
  <2>4. \A name \in DOMAIN ids : ids[name] \in {NewId(c)} \cup Range(call[c].ids)
    BY DEF Added, Range
  <2>5. Range(ids) \subseteq Ids
    BY <1>1, <2>2, <2>4 DEF IsCall, Range
  <2>6. DOMAIN ids \subseteq FileNames
    BY <1>1, <2>1, <2>3 DEF IsCall
  <2> HIDE DEF ids
  <2>7. /\ DOMAIN rec = {"pc", "folder", "ids"} /\ rec.pc = "send"
        /\ rec.folder = call[c].folder /\ rec.ids = ids
    BY <1>1 DEF IsCall
  <2>8. call' = [call EXCEPT ![c] = rec]
    BY <1>1, <1>3 DEF ids, IsCall
  <2> HIDE DEF rec
  <2>9. IsCall(rec)
    BY <1>1, <2>5, <2>6, <2>7 DEF IsCall
  <2>10. \E f \in items' : f.id = rec.folder /\ f.parent = Root /\ f.name = JobOf[c]
    BY <1>1, <2>2, <2>7, JobFoldersStay DEF StoreInv, CallInv
  <2>11. errors' \in 0 .. MaxErrors
    BY <1>3 DEF StoreInv
  <2> QED
    BY <2>2, <2>7, <2>8, <2>9, <2>10, <2>11, CallChanges
<1>4. ASSUME NEW k \in Missing(c), CreateFails(c, call[c].folder, Expected[k], "file"),
             Goto(c, "failed")
      PROVE  StoreInv'
  <2>1. Expected[k] \in FileNames
    BY <1>4, NamesAreNames DEF Missing
  <2>2. Stored' /\ items \subseteq items'
    <3>1. CASE UNCHANGED items
      BY <3>1, StoredStays DEF StoreInv
    <3>2. CASE Create(c, call[c].folder, Expected[k], "file")
      BY <1>1, <2>1, <3>2, SendCreates
    <3> QED
      BY <1>4, <3>1, <3>2 DEF CreateFails
  <2>3. errors' \in 0 .. MaxErrors
    BY <1>4, ErrorsAssumption DEF StoreInv, CreateFails, RequestFails
  <2> QED
    BY <1>4, <2>2, <2>3, GotoKeeps
<1> QED
  BY <1>2, <1>3, <1>4 DEF Send

LEMMA StoreInit == Init => StoreInv
<1> SUFFICES ASSUME Init PROVE StoreInv
  OBVIOUS
<1>1. items = {} /\ errors = 0 /\ DOMAIN call = Clients
      /\ \A c \in Clients : call[c] = [pc |-> "idle", folder |-> Root, ids |-> NoFiles]
  BY DEF Init, DriveInit
<1>2. Stored
  BY <1>1, KeptInit DEF Stored
<1>3. DOMAIN NoFiles = {} /\ Range(NoFiles) = {}
  BY DEF NoFiles, Range
<1>4. \A c \in Clients : CallInv(c)
  BY <1>1, <1>3 DEF CallInv, IsCall, Ids
<1> QED
  BY <1>1, <1>2, <1>4, ErrorsAssumption DEF StoreInv

LEMMA StoreStep == StoreInv /\ [Next]_vars => StoreInv'
<1> SUFFICES ASSUME StoreInv, [Next]_vars PROVE StoreInv'
  OBVIOUS
<1>1. CASE UNCHANGED vars
  BY <1>1, StoredStays DEF vars, StoreInv, CallInv, JobFolder
<1>2. ASSUME NEW c \in Clients, Step(c) PROVE StoreInv'
  BY <1>2, BeginStep, FindStep, MakeStep, LookStep, SendStep DEF Step
<1> QED
  BY <1>1, <1>2 DEF Next

\* Everything lies where its job is named, for any calls, listings and failures.
THEOREM StoreInvariance == Spec => []StoreInv
BY StoreInit, StoreStep, PTL DEF Spec

\* Every variable holds a value of its type.
THEOREM StoreTypes == Spec => []TypeOK
<1>1. StoreInv => TypeOK
  BY DEF StoreInv, Stored, Kept, CallInv, TypeOK, DriveTypeOK
<1> QED
  BY <1>1, StoreInvariance, PTL

\* What upload_result_package returns are files of this job: no assumption on
\* how much a listing shows, on failures, or on what other jobs upload.
THEOREM StoreOwnFiles == Spec => []OwnFiles
<1>1. StoreInv => OwnFiles
  <2> SUFFICES ASSUME StoreInv, NEW c \in Clients, call[c].pc = "done",
                      NEW i \in items, i.id \in Range(call[c].ids)
               PROVE  JobOf[i.id[1]] = JobOf[c]
    BY DEF OwnFiles
  <2>1. PICK f \in items : f.id = call[c].folder /\ f.parent = Root /\ f.name = JobOf[c]
    BY DEF StoreInv, CallInv, JobFolder
  <2>2. PICK k \in items : k.id = i.id /\ k.parent = f.id
    BY <2>1 DEF StoreInv, CallInv
  <2>3. f.id # Root
    BY RootIsNoItem DEF StoreInv, Stored
  <2>4. PICK g \in items : g.id = f.id /\ g.name = JobOf[k.id[1]]
    BY <2>2, <2>3 DEF StoreInv, Stored, Placed, JobFolder
  <2>5. g = f
    BY <2>4 DEF StoreInv, Stored, Kept, SameId
  <2> QED
    BY <2>1, <2>2, <2>4, <2>5
<1> QED
  BY <1>1, StoreInvariance, PTL

-----------------------------------------------------------------------------
(***************************************************************************)
(* No duplicates, while listings fit                                       *)
(***************************************************************************)
Active(c) == call[c].pc \notin {"idle", "done", "failed"}

OneAtATime ==
  \A c, d \in Clients : c # d /\ JobOf[c] = JobOf[d] => ~(Active(c) /\ Active(d))

Once == \A i, k \in items : i.parent = k.parent /\ i.name = k.name => i = k

\* What a call is about to create is not there.
NotThere(c) ==
  /\ call[c].pc = "make" => \A i \in Children(Root) : i.name # JobOf[c]
  /\ call[c].pc = "send" => \A i \in Children(call[c].folder) : i.name \in DOMAIN call[c].ids

AllOnce == Once /\ \A c \in Clients : NotThere(c)

OnceInv == StoreInv /\ OneAtATime /\ (ListingsFit => AllOnce)

\* A job's folder without duplicates has no more files than a package.
LEMMA FolderFits ==
  ASSUME PackageFits, Stored, Once, NEW folder, folder # Root
  PROVE  Pages(folder) = {Children(folder)}
<1> DEFINE Places == 1 .. Len(Expected)
           names == [i \in Children(folder) |-> i.name]
<1>1. Expected \in Seq(Names) /\ Len(Expected) \in Nat
  BY ExpectedAssumption
<1>2. IsFiniteSet(Places) /\ Cardinality(Places) = Len(Expected)
  BY <1>1, FS_Interval
<1>3. Expected \in Surjection(Places, FileNames)
  BY <1>1 DEF Surjection, FileNames, Range
<1>4. IsFiniteSet(FileNames) /\ Cardinality(FileNames) <= Len(Expected)
  <2> HIDE DEF Places
  <2> QED
    BY <1>2, <1>3, FS_Surjection
<1>5. \A i \in Children(folder) : i.name \in FileNames
  BY DEF Children, Stored, Placed
<1>6. names \in Injection(Children(folder), FileNames)
  BY <1>5 DEF Injection, IsInjective, Once, Children
<1>7. IsFiniteSet(Children(folder)) /\ Cardinality(Children(folder)) <= Cardinality(FileNames)
  <2> HIDE DEF names
  <2> QED
    BY <1>4, <1>6, FS_Injection
<1>8. Cardinality(Children(folder)) \in Nat /\ Cardinality(FileNames) \in Nat
  BY <1>4, <1>7, FS_CardinalityType
<1>9. Cardinality(Children(folder)) <= PageSize
  BY <1>1, <1>4, <1>7, <1>8, PageAssumption DEF PackageFits
<1> QED
  BY <1>9 DEF Pages

\* Two calls for one job are never under way together.
LEMMA OneAtATimeKeeps ==
  ASSUME StoreInv, OneAtATime, NEW c \in Clients, Step(c)
  PROVE  OneAtATime' /\ \A d \in Clients \ {c} : call'[d] = call[d]
<1>1. DOMAIN call = Clients /\ \A d \in Clients : IsCall(call[d])
  BY DEF StoreInv, CallInv
<1>2. \A d \in Clients \ {c} : call'[d] = call[d]
  BY <1>1 DEF Step, Begin, Find, Make, Look, Send, Verify, GiveUp, Goto
<1>3. \/ Active(c)
      \/ \A d \in Clients : JobOf[d] = JobOf[c] => ~Active(d)
  BY DEF Step, Begin, Find, Make, Look, Send, Verify, GiveUp, Active
<1>4. \A d \in Clients \ {c} : Active(d)' = Active(d)
  BY <1>2 DEF Active
<1>5. OneAtATime'
  BY <1>3, <1>4 DEF OneAtATime
<1> QED
  BY <1>2, <1>5

\* A step that creates nothing.
LEMMA NothingNew ==
  ASSUME AllOnce, items' = items, NEW c \in Clients, NotThere(c)',
         \A d \in Clients \ {c} : call'[d] = call[d]
  PROVE  AllOnce'
<1>1. \A d \in Clients \ {c} : NotThere(d)'
  BY DEF AllOnce, NotThere, Children
<1> QED
  BY <1>1 DEF AllOnce, Once

\* A step that creates an item which is not there and nobody else is to make.
LEMMA SomethingNew ==
  ASSUME AllOnce, NEW c \in Clients, NotThere(c)', NEW new, items' = items \cup {new},
         \A i \in items : ~(i.parent = new.parent /\ i.name = new.name),
         \A d \in Clients \ {c} :
           /\ call'[d] = call[d]
           /\ call[d].pc = "make" => new.parent # Root \/ new.name # JobOf[d]
           /\ call[d].pc = "send" => new.parent # call[d].folder
  PROVE  AllOnce'
<1>1. \A d \in Clients \ {c} : NotThere(d)'
  BY DEF AllOnce, NotThere, Children
<1>2. Once'
  BY DEF AllOnce, Once
<1> QED
  BY <1>1, <1>2 DEF AllOnce


LEMMA QuietOnce ==
  ASSUME StoreInv, AllOnce, NEW c \in Clients, Begin(c) \/ Verify(c) \/ GiveUp(c),
         \A d \in Clients \ {c} : call'[d] = call[d]
  PROVE  AllOnce'
<1>1. DOMAIN call = Clients /\ IsCall(call[c])
  BY DEF StoreInv, CallInv
<1>2. items' = items /\ call'[c].pc \notin {"make", "send"}
  BY <1>1 DEF Begin, Verify, GiveUp, Goto, drive, IsCall
<1> QED
  BY <1>2, NothingNew DEF NotThere

\* The parent's listing shows all jobs' folders.
LEMMA FindOnce ==
  ASSUME StoreInv, AllOnce, ListingsFit, NEW c \in Clients, Find(c),
         \A d \in Clients \ {c} : call'[d] = call[d]
  PROVE  AllOnce'
<1>1. DOMAIN call = Clients /\ IsCall(call[c]) /\ items' = items
  BY DEF StoreInv, CallInv, Find, drive
<1>2. Pages(Root) = {Children(Root)}
  BY DEF Pages, ListingsFit
<1>3. \/ call'[c].pc \in {"look", "failed"}
      \/ \A i \in Children(Root) : i.name # JobOf[c]
  BY <1>1, <1>2 DEF Find, Goto, IsCall
<1>4. call'[c].pc # "send"
  BY <1>1 DEF Find, Goto, IsCall
<1>5. NotThere(c)'
  BY <1>1, <1>3, <1>4 DEF NotThere, Children
<1> QED
  BY <1>1, <1>5, NothingNew

LEMMA MakeOnce ==
  ASSUME StoreInv, AllOnce, OneAtATime, NEW c \in Clients, Make(c),
         \A d \in Clients \ {c} : call'[d] = call[d]
  PROVE  AllOnce'
<1>1. DOMAIN call = Clients /\ IsCall(call[c]) /\ call[c].pc = "make"
  BY DEF StoreInv, CallInv, Make
<1>2. call'[c].pc \in {"look", "failed"}
  BY <1>1 DEF Make, Goto, IsCall
<1>3. NotThere(c)'
  BY <1>2 DEF NotThere
<1>4. CASE items' = items
  BY <1>3, <1>4, NothingNew
<1>5. CASE Create(c, Root, JobOf[c], "folder")
  <2>1. JobOf[c] \in Names /\ Root \in Ids /\ Stored
    BY NamesAreNames DEF StoreInv, Ids
  <2>2. PICK new : items' = items \cup {new} /\ new.parent = Root /\ new.name = JobOf[c]
    BY <1>5, <2>1, CreateKeeps
  <2>3. \A i \in items : ~(i.parent = new.parent /\ i.name = new.name)
    BY <1>1, <2>2 DEF AllOnce, NotThere, Children
  <2>4. \A d \in Clients \ {c} : call[d].pc = "make" => JobOf[d] # JobOf[c]
    BY <1>1 DEF OneAtATime, Active
  <2>5. \A d \in Clients : call[d].pc = "send" => call[d].folder # Root
    BY RootIsNoItem DEF StoreInv, Stored, CallInv, JobFolder
  <2> QED
    BY <1>3, <2>2, <2>3, <2>4, <2>5, SomethingNew
<1> QED
  BY <1>4, <1>5 DEF Make, CreateFails

\* The listing of the folder shows all its files.
LEMMA LookOnce ==
  ASSUME PackageFits, StoreInv, AllOnce, NEW c \in Clients, Look(c),
         \A d \in Clients \ {c} : call'[d] = call[d]
  PROVE  AllOnce'
<1>1. DOMAIN call = Clients /\ IsCall(call[c]) /\ items' = items /\ call[c].pc = "look"
  BY DEF StoreInv, CallInv, Look, drive
<1>2. call[c].folder # Root
  BY <1>1, RootIsNoItem DEF StoreInv, Stored, CallInv, JobFolder
<1>3. Pages(call[c].folder) = {Children(call[c].folder)}
  BY <1>2, FolderFits DEF AllOnce, StoreInv
<1> DEFINE all == Children(call[c].folder)
<1>4. \/ Goto(c, "failed")
      \/ call' = [call EXCEPT ![c].pc = "send", ![c].ids = FileIds(all)]
  BY <1>3 DEF Look
<1>5. CASE Goto(c, "failed")
  <2>1. call'[c].pc = "failed"
    BY <1>1, <1>5 DEF Goto, IsCall
  <2> QED
    BY <1>1, <2>1, NothingNew DEF NotThere
<1>6. CASE call' = [call EXCEPT ![c].pc = "send", ![c].ids = FileIds(all)]
  <2>1. /\ call'[c].pc = "send" /\ call'[c].folder = call[c].folder
        /\ call'[c].ids = FileIds(all)
    BY <1>1, <1>6 DEF IsCall
  <2>2. \A i \in all : i.name \in DOMAIN FileIds(all)
    BY DEF FileIds
  <2>3. NotThere(c)'
    BY <1>1, <2>1, <2>2 DEF NotThere, Children
  <2> QED
    BY <1>1, <2>3, NothingNew
<1> QED
  BY <1>4, <1>5, <1>6

\* Folders of different jobs are different.
LEMMA FoldersApart ==
  ASSUME StoreInv, OneAtATime, NEW c \in Clients, NEW d \in Clients, c # d,
         call[c].pc = "send", call[d].pc = "send"
  PROVE  call[c].folder # call[d].folder
<1>1. JobOf[c] # JobOf[d]
  BY DEF OneAtATime, Active
<1>2. PICK f \in items : f.id = call[c].folder /\ f.name = JobOf[c]
  BY DEF StoreInv, CallInv, JobFolder
<1>3. PICK g \in items : g.id = call[d].folder /\ g.name = JobOf[d]
  BY DEF StoreInv, CallInv, JobFolder
<1> QED
  BY <1>1, <1>2, <1>3 DEF StoreInv, Stored, Kept, SameId

LEMMA SendOnce ==
  ASSUME StoreInv, AllOnce, OneAtATime, NEW c \in Clients, Send(c),
         \A d \in Clients \ {c} : call'[d] = call[d]
  PROVE  AllOnce'
<1>1. DOMAIN call = Clients /\ IsCall(call[c]) /\ call[c].pc = "send"
  BY DEF StoreInv, CallInv, Send
<1>2. ASSUME items' = items, Goto(c, "verify") \/ Goto(c, "failed")
      PROVE  AllOnce'
  <2>1. call'[c].pc \in {"verify", "failed"}
    BY <1>1, <1>2 DEF Goto, IsCall
  <2> QED
    BY <1>2, <2>1, NothingNew DEF NotThere
<1>3. ASSUME NEW k \in Missing(c), Create(c, call[c].folder, Expected[k], "file"),
             \/ Goto(c, "failed")
             \/ call' = [call EXCEPT ![c].ids = Added(@, Expected[k], NewId(c))]
      PROVE  AllOnce'
  <2>1. Expected[k] \in FileNames /\ Expected[k] \notin DOMAIN call[c].ids
    BY <1>3, NamesAreNames DEF Missing
  <2>2. PICK new : /\ items' = items \cup {new}
                   /\ new.parent = call[c].folder /\ new.name = Expected[k]
    BY <1>1, <1>3, <2>1, SendCreates
  <2>3. \A i \in items : ~(i.parent = new.parent /\ i.name = new.name)
    BY <1>1, <2>1, <2>2 DEF AllOnce, NotThere, Children
  <2>4. call[c].folder # Root
    BY <1>1, RootIsNoItem DEF StoreInv, Stored, CallInv, JobFolder
  <2>5. \A d \in Clients \ {c} : call[d].pc = "send" => new.parent # call[d].folder
    BY <1>1, <2>2, FoldersApart
  <2>6. NotThere(c)'
    <3>1. CASE Goto(c, "failed")
      <4>1. call'[c].pc = "failed"
        BY <1>1, <3>1 DEF Goto, IsCall
      <4> QED
        BY <4>1 DEF NotThere
    <3>2. CASE call' = [call EXCEPT ![c].ids = Added(@, Expected[k], NewId(c))]
      <4> DEFINE ids == Added(call[c].ids, Expected[k], NewId(c))
      <4>1. DOMAIN ids = DOMAIN call[c].ids \cup {Expected[k]}
        BY DEF Added
      <4>2. call' = [call EXCEPT ![c].ids = ids]
        BY <1>1, <3>2
      <4> HIDE DEF ids
      <4>3. call'[c].pc = "send" /\ call'[c].folder = call[c].folder /\ call'[c].ids = ids
        BY <1>1, <4>2 DEF IsCall
      <4>4. \A i \in items' : i.parent = call[c].folder => i.name \in DOMAIN ids
        BY <1>1, <2>2, <4>1 DEF AllOnce, NotThere, Children
      <4> QED
        BY <4>3, <4>4 DEF NotThere, Children
    <3> QED
      BY <1>3, <3>1, <3>2
  <2> QED
    BY <2>2, <2>3, <2>4, <2>5, <2>6, SomethingNew
<1> QED
  BY <1>2, <1>3 DEF Send, CreateFails, drive

LEMMA OnceInit == Init => OnceInv
BY StoreInit DEF Init, DriveInit, OnceInv, OneAtATime, Active, AllOnce, Once, NotThere

LEMMA OnceStep == ASSUME PackageFits, OnceInv, [Next]_vars PROVE OnceInv'
<1> USE DEF OnceInv
<1>1. StoreInv'
  BY StoreStep
<1>2. CASE UNCHANGED vars
  BY <1>1, <1>2
     DEF vars, OneAtATime, Active, ListingsFit, AllOnce, Once, NotThere, Children
<1>3. ASSUME NEW c \in Clients, Step(c)
      PROVE  OnceInv'
  <2>1. OneAtATime' /\ \A d \in Clients \ {c} : call'[d] = call[d]
    BY <1>3, OneAtATimeKeeps
  <2>2. ASSUME ListingsFit'
        PROVE  AllOnce'
    <3>1. items \subseteq items'
      BY <1>3 DEF Step, Begin, Find, Make, Look, Send, Verify, GiveUp, drive, Create, CreateFails
    <3>2. ListingsFit
      BY <1>1, <2>2, <3>1, FewerBefore DEF StoreInv, Stored, ListingsFit
    <3> QED
      BY <1>3, <2>1, <3>2, QuietOnce, FindOnce, MakeOnce, LookOnce, SendOnce DEF Step
  <2> QED
    BY <1>1, <2>1, <2>2
<1> QED
  BY <1>2, <1>3 DEF Next

\* However many calls for a job follow one another, and whatever they have left
\* behind, no folder and no file is created that is already there.
THEOREM StoreNoDuplicates == ASSUME PackageFits PROVE Spec => []NoDuplicates
<1>1. OnceInv /\ [Next]_vars => OnceInv'
  BY OnceStep
<1>2. OnceInv => NoDuplicates
  BY DEF OnceInv, AllOnce, Once, NoDuplicates
<1> QED
  BY <1>1, <1>2, OnceInit, PTL DEF Spec

-----------------------------------------------------------------------------
(***************************************************************************)
(* Why a call raises                                                       *)
(***************************************************************************)
RootFolders == \A i \in items : i.parent = Root => i.kind = "folder"

\* The files that a call knows are in its folder; before it verifies, it knows
\* them all.
Holds(c) ==
  /\ call[c].pc \in {"send", "verify"} =>
       \A name \in DOMAIN call[c].ids :
         \E i \in items : i.parent = call[c].folder /\ i.name = name
  /\ call[c].pc = "verify" => DOMAIN call[c].ids = FileNames

HeldInv == RootFolders /\ \A c \in Clients : Holds(c)

\* As long as listings fit, a call raises only in answer to a request that has
\* just failed; never because of what earlier calls have left in the drive.
RaisesForARequest ==
  [][ListingsFit => \A c \in Clients :
       call'[c].pc = "failed" /\ call[c].pc # "failed" => errors' = errors + 1]_vars

\* A step after which a call knows no more than it did.
LEMMA HeldStays ==
  ASSUME HeldInv, NEW c \in Clients, items \subseteq items', RootFolders', Holds(c)',
         \A d \in Clients \ {c} : call'[d] = call[d]
  PROVE  HeldInv'
<1>1. \A d \in Clients \ {c} : Holds(d)'
  BY DEF HeldInv, Holds
<1> QED
  BY <1>1 DEF HeldInv

LEMMA LookHolds ==
  ASSUME StoreInv, NEW c \in Clients, Look(c)
  PROVE  Holds(c)'
<1>1. DOMAIN call = Clients /\ IsCall(call[c]) /\ items' = items
  BY DEF StoreInv, CallInv, Look, drive
<1>2. PICK page \in Pages(call[c].folder) :
        \/ Goto(c, "failed")
        \/ call' = [call EXCEPT ![c].pc = "send", ![c].ids = FileIds(page)]
  BY DEF Look
<1>3. page \subseteq Children(call[c].folder)
  BY DEF Pages
<1>4. CASE Goto(c, "failed")
  <2>1. call'[c].pc = "failed"
    BY <1>1, <1>4 DEF Goto, IsCall
  <2> QED
    BY <2>1 DEF Holds
<1>5. CASE call' = [call EXCEPT ![c].pc = "send", ![c].ids = FileIds(page)]
  <2>1. /\ call'[c].pc = "send" /\ call'[c].folder = call[c].folder
        /\ call'[c].ids = FileIds(page)
    BY <1>1, <1>5 DEF IsCall
  <2>2. \A name \in DOMAIN FileIds(page) :
          \E i \in items : i.parent = call[c].folder /\ i.name = name
    BY <1>3 DEF FileIds, Children
  <2> QED
    BY <1>1, <2>1, <2>2 DEF Holds
<1> QED
  BY <1>2, <1>4, <1>5

LEMMA SendHolds ==
  ASSUME StoreInv, HeldInv, NEW c \in Clients, Send(c)
  PROVE  RootFolders' /\ Holds(c)'
<1>1. DOMAIN call = Clients /\ IsCall(call[c]) /\ call[c].pc = "send"
  BY DEF StoreInv, CallInv, Send
<1>2. call[c].folder # Root
  BY <1>1, RootIsNoItem DEF StoreInv, Stored, CallInv, JobFolder
<1>3. RootFolders'
  <2>1. items' = items \/ \E k : Create(c, call[c].folder, Expected[k], "file")
    BY DEF Send, CreateFails, drive
  <2>2. \A i \in items' \ items : i.parent = call[c].folder
    BY <2>1 DEF Create
  <2> QED
    BY <1>2, <2>2 DEF HeldInv, RootFolders
<1>4. CASE Missing(c) = {} /\ Goto(c, "verify") /\ UNCHANGED drive
  <2>1. /\ call'[c].pc = "verify" /\ call'[c].folder = call[c].folder
        /\ call'[c].ids = call[c].ids
    BY <1>1, <1>4 DEF Goto, IsCall
  <2>2. FileNames = DOMAIN call[c].ids
    BY <1>1, <1>4 DEF Missing, IsCall, FileNames, Range
  <2>3. items' = items
    BY <1>4 DEF drive
  <2>4. \A name \in DOMAIN call[c].ids :
          \E i \in items : i.parent = call[c].folder /\ i.name = name
    BY <1>1 DEF HeldInv, Holds
  <2> QED
    BY <1>3, <2>1, <2>2, <2>3, <2>4 DEF Holds
<1>5. CASE Goto(c, "failed")
  <2>1. call'[c].pc = "failed"
    BY <1>1, <1>5 DEF Goto, IsCall
  <2> QED
    BY <1>3, <2>1 DEF Holds
<1>6. ASSUME NEW k \in Missing(c), Create(c, call[c].folder, Expected[k], "file"),
             call' = [call EXCEPT ![c].ids = Added(@, Expected[k], NewId(c))]
      PROVE  Holds(c)'
  <2>1. Expected[k] \in FileNames
    BY <1>6, NamesAreNames DEF Missing
  <2>2. PICK new : /\ items' = items \cup {new}
                   /\ new.parent = call[c].folder /\ new.name = Expected[k]
    BY <1>1, <1>6, <2>1, SendCreates
  <2> DEFINE ids == Added(call[c].ids, Expected[k], NewId(c))
  <2>3. DOMAIN ids = DOMAIN call[c].ids \cup {Expected[k]}
    BY DEF Added
  <2>4. call' = [call EXCEPT ![c].ids = ids]
    BY <1>1, <1>6
  <2> HIDE DEF ids
  <2>5. call'[c].pc = "send" /\ call'[c].folder = call[c].folder /\ call'[c].ids = ids
    BY <1>1, <2>4 DEF IsCall
  <2>6. \A name \in DOMAIN ids : \E i \in items' : i.parent = call[c].folder /\ i.name = name
    BY <1>1, <2>2, <2>3 DEF HeldInv, Holds
  <2> QED
    BY <2>5, <2>6 DEF Holds
<1> QED
  BY <1>3, <1>4, <1>5, <1>6 DEF Send

LEMMA HeldStep == ASSUME OnceInv, HeldInv, [Next]_vars PROVE HeldInv'
<1>1. CASE UNCHANGED vars
  BY <1>1 DEF vars, HeldInv, RootFolders, Holds
<1>2. ASSUME NEW c \in Clients, Step(c)
      PROVE  HeldInv'
  <2>1. \A d \in Clients \ {c} : call'[d] = call[d]
    BY <1>2, OneAtATimeKeeps DEF OnceInv
  <2>2. DOMAIN call = Clients /\ IsCall(call[c])
    BY DEF OnceInv, StoreInv, CallInv
  <2>3. items \subseteq items'
    BY <1>2 DEF Step, Begin, Find, Make, Look, Send, Verify, GiveUp, drive, Create, CreateFails
  <2>4. CASE Begin(c) \/ Find(c) \/ Verify(c) \/ GiveUp(c)
    <3>1. items' = items /\ call'[c].pc \notin {"send", "verify"}
      BY <2>2, <2>4 DEF Begin, Find, Verify, GiveUp, Goto, drive, IsCall
    <3> QED
      BY <2>1, <3>1, HeldStays DEF HeldInv, RootFolders, Holds
  <2>5. CASE Make(c)
    <3>1. call'[c].pc \in {"look", "failed"}
      BY <2>2, <2>5 DEF Make, Goto, IsCall
    <3>2. \A i \in items' \ items : i.kind = "folder"
      BY <2>5 DEF Make, Create, CreateFails
    <3> QED
      BY <2>1, <2>3, <3>1, <3>2, HeldStays DEF HeldInv, RootFolders, Holds
  <2>6. CASE Look(c)
    <3>1. items' = items
      BY <2>6 DEF Look, drive
    <3> QED
      BY <2>1, <2>6, <3>1, LookHolds, HeldStays DEF HeldInv, RootFolders, OnceInv
  <2>7. CASE Send(c)
    BY <2>1, <2>3, <2>7, SendHolds, HeldStays DEF OnceInv
  <2> QED
    BY <1>2, <2>4, <2>5, <2>6, <2>7 DEF Step
<1> QED
  BY <1>1, <1>2 DEF Next

\* A listing of the job's folder is always in order.
LEMMA ListingInOrder ==
  ASSUME PackageFits, StoreInv, AllOnce, NEW c \in Clients, call[c].pc \in {"look", "verify"},
         NEW page \in Pages(call[c].folder)
  PROVE  page = Children(call[c].folder) /\ Existing(page)
<1>1. call[c].folder # Root
  BY RootIsNoItem DEF StoreInv, Stored, CallInv, JobFolder
<1>2. page = Children(call[c].folder)
  BY <1>1, FolderFits DEF AllOnce, StoreInv
<1>3. Existing(page)
  BY <1>1, <1>2 DEF Existing, Children, StoreInv, Stored, Placed, AllOnce, Once
<1> QED
  BY <1>2, <1>3

LEMMA RaisingStep ==
  ASSUME PackageFits, OnceInv, HeldInv, ListingsFit, NEW c \in Clients, Step(c),
         NEW d \in Clients, call'[d].pc = "failed", call[d].pc # "failed"
  PROVE  errors' = errors + 1
<1>1. DOMAIN call = Clients /\ IsCall(call[c]) /\ StoreInv /\ AllOnce
  BY DEF OnceInv, StoreInv, CallInv
<1>2. d = c
  BY OneAtATimeKeeps DEF OnceInv
<1>3. ~Begin(c)
  BY <1>1, <1>2 DEF Begin, Goto, IsCall
<1>4. CASE Find(c)
  <2>1. Pages(Root) = {Children(Root)}
    BY DEF Pages, ListingsFit
  <2>2. \E i \in Children(Root) :
          /\ i.name = JobOf[c]
          /\ i.kind # "folder" \/ \E k \in Children(Root) : k.name = JobOf[c] /\ k # i
    BY <1>1, <1>2, <1>4, <2>1 DEF Find, Goto, IsCall
  <2> QED
    BY <1>1, <2>2 DEF AllOnce, Once, Children, HeldInv, RootFolders
<1>5. CASE Look(c)
  <2>1. call[c].pc = "look"
    BY <1>5 DEF Look
  <2>2. PICK page \in Pages(call[c].folder) :
          IF Existing(page)
          THEN call' = [call EXCEPT ![c].pc = "send", ![c].ids = FileIds(page)]
          ELSE Goto(c, "failed")
    BY <1>5 DEF Look
  <2>3. ~Existing(page)
    BY <1>1, <1>2, <2>2 DEF IsCall
  <2> QED
    BY <1>1, <2>1, <2>3, ListingInOrder
<1>6. CASE Verify(c)
  <2>1. call[c].pc = "verify"
    BY <1>6 DEF Verify
  <2>2. PICK page \in Pages(call[c].folder) :
          IF Existing(page) /\ {i.name : i \in page} = FileNames
          THEN call' = [call EXCEPT ![c].pc = "done", ![c].ids = FileIds(page)]
          ELSE Goto(c, "failed")
    BY <1>6 DEF Verify
  <2>3. page = Children(call[c].folder) /\ Existing(page)
    BY <1>1, <2>1, ListingInOrder
  <2>4. {i.name : i \in page} # FileNames
    BY <1>1, <1>2, <2>2, <2>3 DEF IsCall
  <2>5. FileNames \subseteq {i.name : i \in page}
    BY <2>1, <2>3 DEF HeldInv, Holds, Children
  <2> QED
    BY <2>3, <2>4, <2>5 DEF Existing
<1>7. CASE Make(c) \/ Send(c) \/ GiveUp(c)
  BY <1>1, <1>2, <1>7 DEF Make, Send, GiveUp, CreateFails, RequestFails, Goto, IsCall
<1> QED
  BY <1>3, <1>4, <1>5, <1>6, <1>7 DEF Step

\* What a failed call leaves behind never makes a later one raise: the safety
\* half of RetrySucceeds.
THEOREM StoreRaisesForARequest == ASSUME PackageFits PROVE Spec => RaisesForARequest
<1>1. Init => HeldInv
  BY DEF Init, DriveInit, HeldInv, RootFolders, Holds
<1>2. OnceInv /\ HeldInv /\ [Next]_vars => (OnceInv /\ HeldInv)'
  BY OnceStep, HeldStep
<1>3. OnceInv /\ HeldInv /\ [Next]_vars =>
        [ListingsFit => \A c \in Clients :
           call'[c].pc = "failed" /\ call[c].pc # "failed" => errors' = errors + 1]_vars
  BY RaisingStep DEF Next
<1> QED
  BY <1>1, <1>2, <1>3, OnceInit, PTL DEF Spec, RaisesForARequest
=============================================================================
