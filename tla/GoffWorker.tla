----------------------------- MODULE GoffWorker -----------------------------
(***************************************************************************)
(* One run of scripts/sarguardian_worker.py inside the science workflow:   *)
(* login, discovery, selection, then for one product after the other       *)
(* download, read and delete; inversion; the result package.  In benchmark *)
(* mode only the first product is processed, discovery is not retried, and *)
(* the package appears in one rename.                                      *)
(*                                                                         *)
(* pc: login discover select check download read delete invert             *)
(*     summary table manifest (the files of the package, in this order)    *)
(*     cleanup (the finally block)   ended   killed                        *)
(***************************************************************************)
EXTENDS EarthdataLogin, FiniteSets, SequencesExt

CONSTANTS
  Products,    \* the GOFF products there are, numbered in the order of names
  EdgeOf,      \* [Products -> the edge (direction, path, dates)], numbered in order
  PR,          \* the products processed as PR; the others are UR
  Documented,  \* EXPECTED_EDGES
  Tries        \* 3 attempts at discovery and at each download

ASSUME ProductsAssumption ==
  /\ Products \subseteq Nat /\ IsFiniteSet(Products) /\ PR \subseteq Products
  /\ EdgeOf \in [Products -> Nat]
  /\ Documented \subseteq Nat /\ IsFiniteSet(Documented)
ASSUME TriesAssumption == Tries \in Nat \ {0}

VARIABLES
  mode,      \* [benchmark, regression], how the run was started
  pc,
  tries,     \* failed attempts of the current search or download
  found,     \* results of the discovery
  selected,  \* selected_items
  read,      \* [product, file] of every product read, in order
  raw,       \* .h5 files in raw_dir, [product, whole]
  result,    \* files in the result directory
  exit       \* "none", "ok" or "error"

work == <<mode, pc, tries, found, selected, read, raw, result, exit>>
worker == <<work, access>>

Package == {"result.json", "timeseries.csv", "manifest.json", "README.txt"}

WorkerInit ==
  /\ AccessInit
  /\ mode \in [benchmark: BOOLEAN, regression: BOOLEAN]
  /\ pc = "login" /\ tries = 0 /\ exit = "none"
  /\ found = {} /\ selected = <<>> /\ read = <<>>
  /\ raw = {} /\ result = {}

Goto(p) == pc' = p /\ UNCHANGED <<mode, exit, access>>

\* An exception, a StageFailure or another: on to the finally block.
Raise ==
  /\ pc' = "cleanup" /\ exit' = "error"
  /\ UNCHANGED <<mode, access>>

-----------------------------------------------------------------------------
\* Parameters, science revision or area of interest are not as they should be.
Refuse ==
  /\ pc = "login" /\ log = <<>>
  /\ pc' = "ended" /\ exit' = "error"
  /\ UNCHANGED <<mode, tries, found, selected, read, raw, result, access>>

LoginStep ==
  /\ pc = "login"
  /\ AccessStep
  /\ UNCHANGED work

LoginEnds ==
  /\ pc = "login"
  /\ \/ stage = "granted" /\ Goto("discover")
     \/ stage = "denied" /\ Raise
  /\ UNCHANGED <<tries, found, selected, read, raw, result>>

\* Both collections are searched; any error begins the search anew.
Discover ==
  /\ pc = "discover"
  /\ \/ \E some \in SUBSET Products : found' = some /\ tries' = 0 /\ Goto("select")
     \/ /\ UNCHANGED found
        /\ tries' = tries + 1
        /\ IF mode.benchmark \/ tries' = Tries THEN Raise ELSE Goto("discover")
  /\ UNCHANGED <<selected, read, raw, result>>

Edges(ps) == {EdgeOf[p] : p \in ps}

\* Variant: the first by name, whatever its processing.
PreferredByName(ps, edge) ==
  LET options == {p \in ps : EdgeOf[p] = edge}
  IN  CHOOSE p \in options : \A q \in options : p <= q

\* PR before UR, then by name.
Preferred(ps, edge) ==
  LET options == {p \in ps : EdgeOf[p] = edge}
      best == IF options \cap PR = {} THEN options ELSE options \cap PR
  IN  CHOOSE p \in best : \A q \in best : p <= q

\* The edges from the lowest to the highest.
InOrder(edges) ==
  [i \in 1 .. Cardinality(edges) |->
     CHOOSE e \in edges : Cardinality({d \in edges : d < e}) = i - 1]

\* choose_documented_stack: a PR product for each expected edge, or nothing.
DocumentedStack(ps) ==
  IF Documented \subseteq Edges(ps \cap PR)
  THEN [i \in DOMAIN InOrder(Documented) |-> Preferred(ps \cap PR, InOrder(Documented)[i])]
  ELSE <<>>

\* choose_runtime_stack: one product for every edge that was found.
RuntimeStack(ps) ==
  [i \in DOMAIN InOrder(Edges(ps)) |-> Preferred(ps, InOrder(Edges(ps))[i])]

Select ==
  /\ pc = "select"
  /\ LET stack == IF mode.regression THEN DocumentedStack(found) ELSE RuntimeStack(found)
     IN  IF stack = <<>> THEN Raise /\ UNCHANGED selected
         ELSE selected' = stack /\ Goto("check")
  /\ UNCHANGED <<tries, found, read, raw, result>>

\* What is processed: all that was selected, or its first product.
Todo == IF mode.benchmark THEN SubSeq(selected, 1, 1) ELSE selected
Current == Todo[Len(read) + 1]

CheckDisk ==
  /\ pc = "check"
  /\ Goto("download") \/ Raise
  /\ UNCHANGED <<tries, found, selected, read, raw, result>>

\* What earthaccess.download does: it skips a file that exists; else it writes
\* the file, does nothing, or fails and may leave a part of it.
DownloadsTo(files, ok) ==
  IF \E f \in raw : f.product = Current THEN ok /\ files = raw
  ELSE \/ ok /\ files \in {raw, raw \cup {[product |-> Current, whole |-> TRUE]}}
       \/ ~ok /\ files \in {raw, raw \cup {[product |-> Current, whole |-> FALSE]}}

\* Variant: what a failed attempt has left is not removed.
DownloadLeavesParts ==
  /\ pc = "download"
  /\ \E ok \in BOOLEAN, files \in SUBSET [product: Products, whole: BOOLEAN] :
       /\ DownloadsTo(files, ok)
       /\ raw' = files
       /\ IF ok THEN tries' = 0 /\ Goto("read")
          ELSE /\ tries' = tries + 1
               /\ IF tries' = Tries THEN Raise ELSE Goto("download")
  /\ UNCHANGED <<found, selected, read, result>>

\* An attempt at the download; if it fails, whatever lies in raw_dir goes, and
\* if that fails too, so does the run.
Download ==
  /\ pc = "download"
  /\ \E ok \in BOOLEAN, files \in SUBSET [product: Products, whole: BOOLEAN] :
       /\ DownloadsTo(files, ok)
       /\ \/ ok /\ raw' = files /\ tries' = 0 /\ Goto("read")
          \/ /\ ~ok /\ raw' = {} /\ tries' = tries + 1
             /\ IF tries' = Tries THEN Raise ELSE Goto("download")
          \/ ~ok /\ raw' = files /\ UNCHANGED tries /\ Raise
  /\ UNCHANGED <<found, selected, read, result>>

\* There is one raw file, this one.
OnlyRawFile(f) == raw = {f}

\* read_goff on the one raw file, its grid and its lattice. It fails if the
\* file or the grid is not as it should be.
Read ==
  /\ pc = "read"
  /\ \/ Raise /\ UNCHANGED read
     \/ \E f \in raw :
          /\ OnlyRawFile(f)
          /\ read' = Append(read, [product |-> Current, file |-> f])
          /\ Goto("delete")
  /\ UNCHANGED <<tries, found, selected, raw, result>>

\* Variant: the raw file is left for the finally block.
DeleteLater ==
  /\ pc = "delete"
  /\ Goto(IF Len(read) < Len(Todo) THEN "check" ELSE "invert")
  /\ UNCHANGED <<tries, found, selected, read, raw, result>>

\* The raw file is deleted and none may be left; the next product follows.
Delete ==
  /\ pc = "delete"
  /\ \/ raw' = {} /\ Goto(IF Len(read) < Len(Todo) THEN "check" ELSE "invert")
     \/ raw' \in {raw, {}} /\ Raise
  /\ UNCHANGED <<tries, found, selected, read, result>>

\* Common reference and inversion (the science code); none in benchmark mode.
Invert ==
  /\ pc = "invert"
  /\ Goto("summary") \/ (~mode.benchmark /\ Raise)
  /\ UNCHANGED <<tries, found, selected, read, raw, result>>

\* Variant: the manifest is written first.
ManifestFirst ==
  [summary |-> "manifest.json", table |-> "timeseries.csv", manifest |-> "result.json"]

\* Full mode writes one file after the other.
FileAt ==
  [summary |-> "result.json", table |-> "timeseries.csv", manifest |-> "manifest.json"]

Succeed == pc' = "cleanup" /\ exit' = "ok" /\ UNCHANGED <<mode, access>>

\* A write that fails may leave its file.
PublishFile ==
  /\ ~mode.benchmark /\ pc \in DOMAIN FileAt
  /\ \/ /\ result' = result \cup {FileAt[pc]}
        /\ CASE pc = "summary" -> Goto("table")
             [] pc = "table" -> Goto("manifest")
             [] pc = "manifest" -> Succeed
     \/ result' \in {result, result \cup {FileAt[pc]}} /\ Raise
  /\ UNCHANGED <<tries, found, selected, read, raw>>

\* write_result_package_atomically, in benchmark mode: all files or none.
PublishAtOnce ==
  /\ mode.benchmark /\ pc = "summary"
  /\ \/ result' = Package /\ Succeed
     \/ UNCHANGED result /\ Raise
  /\ UNCHANGED <<tries, found, selected, read, raw>>

\* The finally block; an error in it is dropped.
CleanUp ==
  /\ pc = "cleanup"
  /\ Goto("ended")
  /\ raw' = {} \/ UNCHANGED raw
  /\ UNCHANGED <<tries, found, selected, read, result>>

\* The process is stopped from outside: perhaps in the middle of a write,
\* perhaps with time for the finally block.
Kill ==
  /\ pc \notin {"ended", "killed"}
  /\ Goto("killed")
  /\ raw' = {} \/ UNCHANGED raw
  /\ \/ UNCHANGED result
     \/ ~mode.benchmark /\ pc \in DOMAIN FileAt /\ result' = result \cup {FileAt[pc]}
  /\ UNCHANGED <<tries, found, selected, read>>

WorkerStep ==
  \/ Refuse \/ LoginStep \/ LoginEnds \/ Discover \/ Select
  \/ CheckDisk \/ Download \/ Read \/ Delete
  \/ Invert \/ PublishFile \/ PublishAtOnce \/ CleanUp

WorkerSpec == WorkerInit /\ [][WorkerStep \/ Kill]_worker

-----------------------------------------------------------------------------
WorkerTypeOK ==
  /\ AccessTypeOK
  /\ mode \in [benchmark: BOOLEAN, regression: BOOLEAN]
  /\ pc \in {"login", "discover", "select", "check", "download", "read", "delete", "invert",
             "summary", "table", "manifest", "cleanup", "ended", "killed"}
  /\ tries \in 0 .. Tries
  /\ found \subseteq Products /\ selected \in Seq(Products)
  /\ read \in Seq([product: Products, file: [product: Products, whole: BOOLEAN]])
  /\ raw \subseteq [product: Products, whole: BOOLEAN]
  /\ result \subseteq Package
  /\ exit \in {"none", "ok", "error"}

Processed == {read[i].product : i \in DOMAIN read}

\* Products of several gigabytes: at no time are there two raw files, and what
\* is there when a download begins is nothing, on every path through failures.
OneRawFile ==
  /\ Cardinality(raw) <= 1
  /\ pc = "check" => raw = {}

\* Every product is computed from its own, whole file: a part that a failed
\* attempt has left, which the next attempt would skip, is never read.
ReadsOwnFile ==
  \A i \in DOMAIN read : read[i].file = [product |-> read[i].product, whole |-> TRUE]

\* A manifest, which says "completed" and "cleanup success", is only ever seen
\* beside the other results, after all products to process were read, and with
\* no raw file left; also when the run was killed or a write has failed.
ManifestMeansDone ==
  "manifest.json" \in result =>
    /\ {"result.json", "timeseries.csv"} \subseteq result
    /\ Processed = Range(Todo) /\ Len(read) = Len(Todo)
    /\ raw = {}

\* The selection has one product for each edge it covers, a PR product where
\* one was found, and covers all that was found (or all that is documented).
SelectionIsRight ==
  selected # <<>> =>
    /\ IsInjective([i \in DOMAIN selected |-> EdgeOf[selected[i]]])
    /\ Edges(Range(selected)) = IF mode.regression THEN Documented ELSE Edges(found)
    /\ \A p \in Range(selected) :
         p \in PR \/ \A q \in found : EdgeOf[q] = EdgeOf[p] => q \notin PR
=============================================================================
