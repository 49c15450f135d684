------------------------------- MODULE Drive -------------------------------
(***************************************************************************)
(* Google Drive as its two clients in this repository use it: folders are  *)
(* listed one page at a time and searched by name, items are created by    *)
(* POST and never deleted.  Names are not unique.  A client is a run of    *)
(* scripts/upload_goff_result_to_drive.py or a call of RealDriveService.   *)
(***************************************************************************)
EXTENDS Integers, FiniteSets

CONSTANTS
  Clients,    \* everybody who creates items
  Names,      \* names of folders and files
  PageSize,   \* how many children the first page of a listing shows
  MaxErrors   \* bound on requests that fail

ASSUME PageAssumption == PageSize \in Nat \ {0}
ASSUME ErrorsAssumption == MaxErrors \in Nat

VARIABLES
  items,      \* what the drive holds
  errors      \* requests that have failed so far

drive == <<items, errors>>

\* The configured parent folder. Every other item is identified by its maker
\* and how many items that maker had made.
Root == <<"root", 0>>
Ids == {Root} \cup (Clients \X (Nat \ {0}))

Item == [id: Ids, parent: Ids, name: Names, kind: {"folder", "file"}]

DriveTypeOK == items \subseteq Item /\ errors \in 0 .. MaxErrors

DriveInit == items = {} /\ errors = 0

Children(f) == {i \in items : i.parent = f}

\* What a listing of f may return: its children, if they fit on the one page
\* that is read, else any PageSize of them.
Pages(f) ==
  LET all == Children(f)
  IN  IF Cardinality(all) <= PageSize THEN {all}
      ELSE {page \in SUBSET all : Cardinality(page) = PageSize}

FoldersNamed(f, name) ==
  {i \in Children(f) : i.name = name /\ i.kind = "folder"}

NewId(c) == <<c, Cardinality({i \in items : i.id[1] = c}) + 1>>

Create(c, parent, name, kind) ==
  items' = items \cup
    {[id |-> NewId(c), parent |-> parent, name |-> name, kind |-> kind]}

RequestFails == errors < MaxErrors /\ errors' = errors + 1

\* A POST that fails may have been carried out all the same, but not after it
\* has failed.
CreateFails(c, parent, name, kind) ==
  /\ RequestFails
  /\ UNCHANGED items \/ Create(c, parent, name, kind)
=============================================================================
