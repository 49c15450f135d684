-------------------------- MODULE ScienceRunProofs --------------------------
(***************************************************************************)
(* Theorems about the workflow's run with its worker inside (ScienceRun),  *)
(* for any products, documented edges and numbers of attempts.             *)
(*                                                                         *)
(* First the worker alone (GoffWorker, EarthdataLogin): its steps, and a   *)
(* kill at any time, keep WorkerInv and Chosen. These survive the workflow,*)
(* which starts, kills and looks at the worker and adds the README to its  *)
(* files.  RunInv adds where the run is and what a step may rely on.       *)
(***************************************************************************)
EXTENDS ScienceRun, FiniteSetTheorems, TLAPS

LogEntry == {"preflight", "login"} \X ({"reachable", "granted"} \cup Kinds)

\* Where the log of the attempts stands, by stage.
Preflighting ==
  stage = "preflight" =>
    /\ attempt \in 1 .. PreflightAttempts /\ Len(log) = attempt - 1
    /\ \A i \in DOMAIN log : log[i][1] = "preflight"

LoggingIn ==
  stage = "login" =>
    /\ attempt \in 1 .. LoginAttempts
    /\ \E i \in DOMAIN log :
         log[i] = <<"preflight", "reachable">> /\ Len(log) = i + attempt - 1
    /\ \A i \in DOMAIN log : log[i][1] = "login" => log[i][2] \in Transient

AccessInv ==
  /\ rejected \in BOOLEAN
  /\ stage \in {"preflight", "login", "granted", "denied"}
  /\ log \in Seq(LogEntry)
  /\ Preflighting /\ LoggingIn /\ RejectionIsFinal /\ CodeTellsWhy

LEMMA Classified ==
  ASSUME NEW e \in Errors
  PROVE  /\ Classify(e) \in Kinds
         /\ Classify(e) = "authentication" <=> Refusal(e)
<1>1. /\ Refusal(e) => Classify(e) = "authentication"
      /\ ~Refusal(e) => Classify(e) \in {"timeout", "dns", "network", "unknown"}
  BY ZenonT(30) DEF Classify, Refusal
<1>2. CASE Refusal(e)
  BY <1>1, <1>2 DEF Kinds
<1>3. CASE ~Refusal(e)
  BY <1>1, <1>3 DEF Kinds
<1> QED
  BY <1>2, <1>3

LEMMA AccessStart == AccessInit => AccessInv
<1> SUFFICES ASSUME AccessInit PROVE AccessInv
  OBVIOUS
<1>1. RejectionIsFinal /\ rejected \in BOOLEAN
  <2>1. rejected = FALSE /\ DOMAIN log = {}
    BY DEF AccessInit
  <2> QED
    BY <2>1 DEF RejectionIsFinal
<1>2. log \in Seq(LogEntry) /\ Preflighting /\ LoggingIn /\ CodeTellsWhy
  BY AttemptsAssumption DEF AccessInit, Preflighting, LoggingIn, CodeTellsWhy
<1> QED
  BY <1>1, <1>2 DEF AccessInit, AccessInv

LEMMA NoteEffect ==
  ASSUME log \in Seq(LogEntry), stage \in {"preflight", "login"},
         NEW answer \in {"reachable", "granted"} \cup Kinds, Note(answer)
  PROVE  /\ log' \in Seq(LogEntry) /\ Len(log') = Len(log) + 1
         /\ log'[Len(log) + 1] = <<stage, answer>>
         /\ \A i \in 1 .. Len(log) : log'[i] = log[i]
         /\ DOMAIN log = 1 .. Len(log) /\ DOMAIN log' = 1 .. (Len(log) + 1)
<1>1. <<stage, answer>> \in LogEntry
  BY DEF LogEntry
<1> QED
  BY <1>1 DEF Note

\* Whatever an attempt adds, the attempts before it do not change.
LEMMA FinalAfterNote ==
  ASSUME AccessInv, stage \in {"preflight", "login"},
         NEW answer \in {"reachable", "granted"} \cup Kinds, Note(answer)
  PROVE  (\A i \in DOMAIN log : log[i][1] = "login" /\ i < Len(log) => log[i][2] \in Transient)'
<1>1. \A i \in 1 .. Len(log) : log[i][1] = "login" => log[i][2] \in Transient
  BY DEF AccessInv, Preflighting, LoggingIn
<1>2. Len(log) \in Nat
  BY DEF AccessInv
<1> QED
  BY <1>1, <1>2, NoteEffect DEF AccessInv

LEMMA ReachableKeeps == ASSUME AccessInv, Reachable PROVE AccessInv'
<1> USE AttemptsAssumption
<1>1. /\ log' \in Seq(LogEntry) /\ Len(log') = Len(log) + 1
      /\ log'[Len(log) + 1] = <<"preflight", "reachable">>
      /\ \A i \in 1 .. Len(log) : log'[i] = log[i]
      /\ DOMAIN log = 1 .. Len(log) /\ DOMAIN log' = 1 .. (Len(log) + 1)
  BY NoteEffect DEF Reachable, AccessInv
<1>2. RejectionIsFinal' /\ UNCHANGED rejected
  BY FinalAfterNote DEF Reachable, Kinds, AccessInv, RejectionIsFinal
<1>3. stage = "preflight" /\ stage' = "login" /\ attempt' = 1 /\ Len(log) \in Nat
  BY DEF Reachable, AccessInv
<1>4. LoggingIn'
  BY <1>1, <1>3 DEF AccessInv, Preflighting, LoggingIn
<1> QED
  BY <1>1, <1>2, <1>3, <1>4 DEF AccessInv, Preflighting, CodeTellsWhy

LEMMA UnreachableKeeps ==
  ASSUME AccessInv, NEW kind \in Kinds, Unreachable(kind)
  PROVE  AccessInv'
<1> USE AttemptsAssumption
<1>1. /\ log' \in Seq(LogEntry) /\ Len(log') = Len(log) + 1
      /\ log'[Len(log) + 1] = <<"preflight", kind>>
      /\ \A i \in 1 .. Len(log) : log'[i] = log[i]
      /\ DOMAIN log = 1 .. Len(log) /\ DOMAIN log' = 1 .. (Len(log) + 1)
  BY NoteEffect DEF Unreachable, AccessInv
<1>2. RejectionIsFinal' /\ UNCHANGED rejected
  BY FinalAfterNote DEF Unreachable, AccessInv, RejectionIsFinal
<1>3. /\ stage = "preflight" /\ attempt \in 1 .. PreflightAttempts /\ Len(log) = attempt - 1
      /\ \A i \in DOMAIN log : log[i][1] = "preflight"
  BY DEF Unreachable, AccessInv, Preflighting
<1>4. CASE attempt < PreflightAttempts
  <2>1. stage' = "preflight" /\ attempt' = attempt + 1
    BY <1>3, <1>4 DEF Unreachable
  <2>2. Preflighting'
    BY <1>1, <1>3, <1>4, <2>1 DEF Preflighting
  <2> QED
    BY <1>1, <1>2, <2>1, <2>2 DEF AccessInv, LoggingIn, CodeTellsWhy
<1>5. CASE ~(attempt < PreflightAttempts)
  <2>1. stage' = "denied" /\ code' = ErrorCode(kind) /\ Len(log') = PreflightAttempts
    BY <1>1, <1>3, <1>5 DEF Unreachable, Deny
  <2>2. \A i \in DOMAIN log' : log'[i][1] = "preflight"
    BY <1>1, <1>3
  <2>3. Answers("login")' = {}
    BY <2>2 DEF Answers
  <2>4. log'[Len(log')] = <<"preflight", kind>>
    BY <1>1
  <2>5. \/ kind = "authentication" /\ code' = "AUTH_FAILED"
        \/ kind = "unknown" /\ code' = "LOGIN_FAILED"
        \/ kind \in {"dns", "network"} /\ code' = "NETWORK_UNAVAILABLE"
        \/ kind = "timeout" /\ code' = "SERVICE_TIMEOUT"
    BY <2>1 DEF ErrorCode, Kinds
  <2>6. /\ log'[Len(log')][2] = kind
        /\ kind = "timeout" => log'[Len(log')] = <<"preflight", "timeout">>
    BY <2>4
  <2>7. CodeTellsWhy'
    BY <2>1, <2>3, <2>5, <2>6 DEF CodeTellsWhy
  <2> QED
    BY <1>1, <1>2, <2>1, <2>7 DEF AccessInv, Preflighting, LoggingIn
<1> QED
  BY <1>4, <1>5

LEMMA GrantedKeeps == ASSUME AccessInv, Granted PROVE AccessInv'
<1>1. log' \in Seq(LogEntry)
  BY NoteEffect DEF Granted, AccessInv
<1>2. RejectionIsFinal'
  BY FinalAfterNote DEF Granted, AccessInv, RejectionIsFinal
<1> QED
  BY <1>1, <1>2 DEF Granted, AccessInv, Preflighting, LoggingIn, CodeTellsWhy

LEMMA RejectedKeeps ==
  ASSUME AccessInv, NEW e \in Errors, Rejected(e)
  PROVE  AccessInv'
<1> DEFINE kind == Classify(e)
<1>0. kind \in Kinds /\ (kind = "authentication" <=> Refusal(e))
  BY Classified
<1>1. /\ log' \in Seq(LogEntry) /\ Len(log') = Len(log) + 1
      /\ log'[Len(log) + 1] = <<"login", kind>>
  BY <1>0, NoteEffect DEF Rejected, AccessInv
<1>3. /\ stage' = "denied" /\ code' = ErrorCode(kind) /\ rejected' = Refusal(e)
      /\ kind \in {"authentication", "unknown"}
  BY <1>0 DEF Rejected, Deny, Kinds, Transient
<1> HIDE DEF kind
<1>4. \/ kind = "authentication" /\ code' = "AUTH_FAILED"
      \/ kind = "unknown" /\ code' = "LOGIN_FAILED"
  BY <1>3 DEF ErrorCode
<1>2. RejectionIsFinal'
  <2>1. rejected' => code' = "AUTH_FAILED"
    BY <1>0, <1>3, <1>4
  <2> QED
    BY <1>0, <1>3, <2>1, FinalAfterNote DEF Rejected, RejectionIsFinal, kind
<1>5. log'[Len(log')][2] = kind
  BY <1>1
<1>6. CodeTellsWhy'
  BY <1>4, <1>5 DEF CodeTellsWhy
<1>7. rejected' \in BOOLEAN
  BY <1>3 DEF Refusal
<1> QED
  BY <1>1, <1>2, <1>3, <1>6, <1>7 DEF AccessInv, Preflighting, LoggingIn

LEMMA TroubledKeeps ==
  ASSUME AccessInv, NEW e \in Errors, Troubled(e)
  PROVE  AccessInv'
<1> USE AttemptsAssumption
<1> DEFINE kind == Classify(e)
<1>0. kind \in Kinds /\ (kind = "authentication" <=> Refusal(e))
  BY Classified
<1>1. /\ log' \in Seq(LogEntry) /\ Len(log') = Len(log) + 1
      /\ log'[Len(log) + 1] = <<"login", kind>>
      /\ \A i \in 1 .. Len(log) : log'[i] = log[i]
      /\ DOMAIN log = 1 .. Len(log) /\ DOMAIN log' = 1 .. (Len(log) + 1)
  BY <1>0, NoteEffect DEF Troubled, AccessInv
<1>2. RejectionIsFinal' /\ rejected' = FALSE
  <2>1. rejected' = FALSE
    BY <1>0 DEF Troubled, Transient
  <2> QED
    BY <1>0, <2>1, FinalAfterNote DEF Troubled, RejectionIsFinal
<1>3. /\ stage = "login" /\ kind \in Transient
      /\ attempt \in 1 .. LoginAttempts /\ Len(log) \in Nat
      /\ \A i \in DOMAIN log : log[i][1] = "login" => log[i][2] \in Transient
  BY DEF Troubled, AccessInv, LoggingIn
<1>4. PICK i \in DOMAIN log :
        log[i] = <<"preflight", "reachable">> /\ Len(log) = i + attempt - 1
  BY <1>3 DEF AccessInv, LoggingIn
<1>5. \A k \in DOMAIN log' : log'[k][1] = "login" => log'[k][2] \in Transient
  BY <1>1, <1>3
<1>6. i \in DOMAIN log' /\ log'[i] = <<"preflight", "reachable">> /\ Len(log') = i + attempt
  BY <1>1, <1>3, <1>4
<1>7. CASE attempt < LoginAttempts
  <2>1. stage' = "login" /\ attempt' = attempt + 1
    BY <1>3, <1>7 DEF Troubled
  <2>2. i \in DOMAIN log' /\ Len(log') = i + attempt' - 1
    BY <1>1, <1>3, <1>6, <2>1
  <2>3. attempt' \in 1 .. LoginAttempts
    BY <1>3, <1>7, <2>1
  <2>4. LoggingIn'
    BY <1>5, <1>6, <2>2, <2>3 DEF LoggingIn
  <2> QED
    BY <1>1, <1>2, <2>1, <2>4 DEF AccessInv, Preflighting, CodeTellsWhy
<1>8. CASE ~(attempt < LoginAttempts)
  <2>1. stage' = "denied" /\ code' = "SERVICE_TIMEOUT" /\ attempt = LoginAttempts
    BY <1>3, <1>8 DEF Troubled, Deny
  <2>2. Answers("login")' \subseteq Transient
    BY <1>5 DEF Answers
  <2>3. CodeTellsWhy'
    BY <1>6, <2>1, <2>2 DEF CodeTellsWhy
  <2> QED
    BY <1>1, <1>2, <2>1, <2>3 DEF AccessInv, Preflighting, LoggingIn
<1> QED
  BY <1>7, <1>8

LEMMA AccessKeeps ==
  ASSUME AccessInv, AccessStep
  PROVE  AccessInv'
BY ReachableKeeps, UnreachableKeeps, GrantedKeeps, RejectedKeeps, TroubledKeeps, Classified
   DEF AccessStep

LEMMA AccessStays ==
  ASSUME AccessInv, UNCHANGED access
  PROVE  AccessInv'
BY DEF access, AccessInv, Preflighting, LoggingIn, RejectionIsFinal, CodeTellsWhy, Answers

-----------------------------------------------------------------------------
LEMMA InOrderDomain ==
  ASSUME NEW S, IsFiniteSet(S)
  PROVE  \E n \in Nat : DOMAIN InOrder(S) = 1 .. n
BY FS_CardinalityType DEF InOrder

LEMMA EdgesFinite ==
  ASSUME NEW ps \in SUBSET Products
  PROVE  IsFiniteSet(Edges(ps))
<1> DEFINE f == [p \in ps |-> EdgeOf[p]]
<1>1. IsFiniteSet(ps)
  BY ProductsAssumption, FS_Subset
<1>2. f \in Surjection(ps, Edges(ps))
  BY DEF Edges, Surjection
<1> QED
  BY <1>1, <1>2, FS_Surjection

\* Members of a finite set of numbers are told apart by how many are lower, and
\* each count from 0 up is taken.
LEMMA RanksDiffer ==
  ASSUME NEW S \in SUBSET Nat, IsFiniteSet(S)
  PROVE  /\ \A e \in S : Cardinality({d \in S : d < e}) \in 0 .. Cardinality(S) - 1
         /\ \A d, e \in S :
              Cardinality({x \in S : x < d}) = Cardinality({x \in S : x < e}) => d = e
<1> DEFINE Below(e) == {d \in S : d < e}
<1>1. \A e \in S : IsFiniteSet(Below(e)) /\ Cardinality(Below(e)) \in Nat
  BY FS_Subset, FS_CardinalityType
<1>2. \A e \in S : Cardinality(Below(e)) < Cardinality(S)
  <2> TAKE e \in S
  <2>1. e \in S \ Below(e)
    OBVIOUS
  <2>2. Below(e) \in SUBSET S /\ Below(e) # S
    BY <2>1
  <2>3. Cardinality(Below(e)) <= Cardinality(S) /\ Cardinality(Below(e)) # Cardinality(S)
    BY <2>2, FS_Subset
  <2>4. Cardinality(S) \in Nat
    BY FS_CardinalityType
  <2> QED
    BY <1>1, <2>3, <2>4
<1>3. \A d, e \in S : d < e => Cardinality(Below(d)) < Cardinality(Below(e))
  <2> TAKE d, e \in S
  <2> HAVE d < e
  <2>1. Below(d) \in SUBSET Below(e)
    <3>1. \A x \in S : x < d => x < e
      OBVIOUS
    <3> QED
      BY <3>1
  <2>2. d \in Below(e) /\ d \notin Below(d)
    OBVIOUS
  <2>3. Cardinality(Below(d)) <= Cardinality(Below(e))
        /\ Cardinality(Below(d)) # Cardinality(Below(e))
    BY <1>1, <2>1, <2>2, FS_Subset
  <2> QED
    BY <1>1, <2>3
<1>4. Cardinality(S) \in Nat
  BY FS_CardinalityType
<1> HIDE DEF Below
<1>5. \A e \in S : Cardinality(Below(e)) \in 0 .. Cardinality(S) - 1
  BY <1>1, <1>2, <1>4
<1>6. \A d, e \in S : Cardinality(Below(d)) = Cardinality(Below(e)) => d = e
  BY <1>1, <1>3
<1> QED
  BY <1>5, <1>6 DEF Below

LEMMA RanksAreAll ==
  ASSUME NEW S \in SUBSET Nat, IsFiniteSet(S), NEW i \in 0 .. Cardinality(S) - 1
  PROVE  \E e \in S : Cardinality({d \in S : d < e}) = i
<1> DEFINE rank == [e \in S |-> Cardinality({d \in S : d < e})]
<1> DEFINE Places0 == 0 .. Cardinality(S) - 1
<1>1. Cardinality(S) \in Nat
  BY FS_CardinalityType
<1>2. IsFiniteSet(Places0) /\ Cardinality(Places0) = Cardinality(S)
  BY <1>1, FS_Interval
<1>3. rank \in [S -> Places0] /\ \A d, e \in S : rank[d] = rank[e] => d = e
  BY RanksDiffer
<1>4. rank \in Injection(S, Places0)
  BY <1>3 DEF Injection, IsInjective
<1> HIDE DEF rank, Places0
<1>5. rank \in Surjection(S, Places0)
  BY <1>2, <1>4, FS_Injection
<1>6. \E e \in S : rank[e] = i
  BY <1>5 DEF Surjection, Places0
<1> QED
  BY <1>6 DEF rank

\* sorted() goes through all edges, each once.
LEMMA InOrderIsSorted ==
  ASSUME NEW S \in SUBSET Nat, IsFiniteSet(S)
  PROVE  /\ \A i \in DOMAIN InOrder(S) : InOrder(S)[i] \in S
         /\ \A i, k \in DOMAIN InOrder(S) : InOrder(S)[i] = InOrder(S)[k] => i = k
         /\ \A e \in S : \E i \in DOMAIN InOrder(S) : InOrder(S)[i] = e
<1> DEFINE Rank(e) == Cardinality({d \in S : d < e})
<1>1. Cardinality(S) \in Nat /\ DOMAIN InOrder(S) = 1 .. Cardinality(S)
  BY FS_CardinalityType DEF InOrder
<1>2. ASSUME NEW i \in DOMAIN InOrder(S)
      PROVE  InOrder(S)[i] \in S /\ Rank(InOrder(S)[i]) = i - 1
  <2>1. i - 1 \in 0 .. Cardinality(S) - 1
    BY <1>1
  <2>2. \E e \in S : Rank(e) = i - 1
    BY <2>1, RanksAreAll
  <2>3. InOrder(S)[i] = CHOOSE e \in S : Rank(e) = i - 1
    BY <1>1 DEF InOrder
  <2> QED
    BY <2>2, <2>3
<1>3. ASSUME NEW i \in DOMAIN InOrder(S), NEW k \in DOMAIN InOrder(S),
             InOrder(S)[i] = InOrder(S)[k]
      PROVE  i = k
  <2>1. i - 1 = k - 1
    BY <1>2, <1>3
  <2> QED
    BY <1>1, <2>1
<1>4. ASSUME NEW e \in S
      PROVE  \E i \in DOMAIN InOrder(S) : InOrder(S)[i] = e
  <2>1. Rank(e) \in 0 .. Cardinality(S) - 1
    BY RanksDiffer
  <2> DEFINE i == Rank(e) + 1
  <2>2. i \in DOMAIN InOrder(S) /\ i - 1 = Rank(e)
    BY <1>1, <2>1
  <2> HIDE DEF i
  <2>3. InOrder(S)[i] \in S /\ Rank(InOrder(S)[i]) = Rank(e)
    BY <1>2, <2>2
  <2>4. \A d, b \in S : Rank(d) = Rank(b) => d = b
    BY RanksDiffer
  <2> HIDE DEF Rank
  <2>5. InOrder(S)[i] = e
    BY <2>3, <2>4
  <2> QED
    BY <2>2, <2>5
<1> QED
  BY <1>2, <1>3, <1>4

LEMMA LeastNumber ==
  ASSUME NEW S \in SUBSET Nat, IsFiniteSet(S), S # {}
  PROVE  \E p \in S : \A q \in S : p <= q
<1>1. Cardinality(S) \in Nat /\ Cardinality(S) # 0
  BY FS_CardinalityType, FS_EmptySet
<1>2. 0 \in 0 .. Cardinality(S) - 1
  BY <1>1
<1>3. PICK p \in S : Cardinality({d \in S : d < p}) = 0
  BY <1>2, RanksAreAll
<1>4. IsFiniteSet({d \in S : d < p})
  BY FS_Subset
<1>5. {d \in S : d < p} = {}
  BY <1>3, <1>4, FS_EmptySet
<1>6. \A q \in S : p <= q
  BY <1>5
<1> QED
  BY <1>6

\* The product taken for an edge is one of its own, PR if there is a PR one.
LEMMA PreferredIsBest ==
  ASSUME NEW ps \in SUBSET Products, NEW edge \in Edges(ps)
  PROVE  /\ Preferred(ps, edge) \in ps /\ EdgeOf[Preferred(ps, edge)] = edge
         /\ \/ Preferred(ps, edge) \in PR
            \/ \A q \in ps : EdgeOf[q] = edge => q \notin PR
<1> DEFINE options == {p \in ps : EdgeOf[p] = edge}
<1> DEFINE best == IF options \cap PR = {} THEN options ELSE options \cap PR
<1>1. options # {}
  BY DEF Edges
<1>2. best # {} /\ best \subseteq options /\ (best \subseteq PR \/ options \cap PR = {})
  BY <1>1
<1>3. best \in SUBSET Nat /\ IsFiniteSet(best)
  BY <1>2, ProductsAssumption, FS_Subset
<1>4. Preferred(ps, edge) = CHOOSE p \in best : \A q \in best : p <= q
  BY DEF Preferred
<1> HIDE DEF best
<1>5. Preferred(ps, edge) \in best
  BY <1>2, <1>3, <1>4, LeastNumber
<1> QED
  BY <1>2, <1>5

\* One product for each of these edges, the best there is for it.
LEMMA StackIsRight ==
  ASSUME NEW ps \in SUBSET Products, NEW edges \in SUBSET Edges(ps), NEW stack,
         stack = [i \in DOMAIN InOrder(edges) |-> Preferred(ps, InOrder(edges)[i])]
  PROVE  /\ IsInjective([i \in DOMAIN stack |-> EdgeOf[stack[i]]])
         /\ Range(stack) \subseteq ps /\ Edges(Range(stack)) = edges
         /\ \A p \in Range(stack) :
              p \in PR \/ \A q \in ps : EdgeOf[q] = EdgeOf[p] => q \notin PR
<1> DEFINE order == InOrder(edges)
<1>1. edges \in SUBSET Nat /\ IsFiniteSet(edges)
  <2>1. Edges(ps) \subseteq Nat
    BY ProductsAssumption DEF Edges
  <2> QED
    BY <2>1, EdgesFinite, FS_Subset
<1>2. /\ \A i \in DOMAIN order : order[i] \in edges
      /\ \A i, k \in DOMAIN order : order[i] = order[k] => i = k
      /\ \A e \in edges : \E i \in DOMAIN order : order[i] = e
  BY <1>1, InOrderIsSorted
<1> HIDE DEF order
<1>3. DOMAIN stack = DOMAIN order /\ \A i \in DOMAIN order : stack[i] = Preferred(ps, order[i])
  BY DEF order
<1>4. \A i \in DOMAIN order :
        /\ stack[i] \in ps /\ EdgeOf[stack[i]] = order[i]
        /\ stack[i] \in PR \/ \A q \in ps : EdgeOf[q] = order[i] => q \notin PR
  BY <1>2, <1>3, PreferredIsBest
<1>5. IsInjective([i \in DOMAIN stack |-> EdgeOf[stack[i]]])
  BY <1>2, <1>3, <1>4 DEF IsInjective
<1>6. Edges(Range(stack)) = edges
  BY <1>2, <1>3, <1>4 DEF Edges, Range
<1>7. \A p \in Range(stack) : \E i \in DOMAIN order : p = stack[i]
  BY <1>3 DEF Range
<1>8. /\ Range(stack) \subseteq ps
      /\ \A p \in Range(stack) :
           p \in PR \/ \A q \in ps : EdgeOf[q] = EdgeOf[p] => q \notin PR
  BY <1>4, <1>7
<1> QED
  BY <1>5, <1>6, <1>8

\* What is selected is a sequence.
LEMMA StacksAreSequences ==
  ASSUME NEW ps \in SUBSET Products
  PROVE  /\ DocumentedStack(ps) \in Seq(Range(DocumentedStack(ps)))
         /\ RuntimeStack(ps) \in Seq(Range(RuntimeStack(ps)))
<1>1. PICK n \in Nat : DOMAIN InOrder(Documented) = 1 .. n
  BY InOrderDomain, ProductsAssumption
<1>2. PICK k \in Nat : DOMAIN InOrder(Edges(ps)) = 1 .. k
  BY InOrderDomain, EdgesFinite
<1>3. DocumentedStack(ps) \in Seq(Range(DocumentedStack(ps)))
  <2>1. CASE Documented \subseteq Edges(ps \cap PR)
    <3> DEFINE stack == [i \in DOMAIN InOrder(Documented) |->
                           Preferred(ps \cap PR, InOrder(Documented)[i])]
    <3>1. stack \in Seq(Range(stack))
      BY <1>1 DEF Range
    <3>2. DocumentedStack(ps) = stack
      BY <2>1 DEF DocumentedStack
    <3> QED
      BY <3>1, <3>2
  <2>2. CASE ~(Documented \subseteq Edges(ps \cap PR))
    BY <2>2 DEF DocumentedStack
  <2> QED
    BY <2>1, <2>2
<1>4. RuntimeStack(ps) \in Seq(Range(RuntimeStack(ps)))
  BY <1>2 DEF RuntimeStack, Range
<1> QED
  BY <1>3, <1>4

\* What is processed is a sequence too, with something in it.
LEMMA TodoIsSequence ==
  ASSUME NEW s, s \in Seq(Range(s)), s # <<>>, NEW benchmark
  PROVE  LET todo == IF benchmark THEN SubSeq(s, 1, 1) ELSE s
         IN  Len(todo) \in Nat /\ Len(todo) > 0 /\ DOMAIN todo = 1 .. Len(todo)
<1>1. SubSeq(s, 1, 1) = [i \in 1 .. 1 |-> s[i]]
  OBVIOUS
<1>2. Len(SubSeq(s, 1, 1)) = 1 /\ DOMAIN SubSeq(s, 1, 1) = 1 .. 1
  BY <1>1
<1>3. Len(s) \in Nat /\ Len(s) > 0 /\ DOMAIN s = 1 .. Len(s)
  OBVIOUS
<1>4. CASE benchmark
  BY <1>2, <1>4
<1>5. CASE ~benchmark
  BY <1>3, <1>5
<1> QED
  BY <1>4, <1>5

-----------------------------------------------------------------------------
Early == {"login", "discover", "select"}
Working == {"check", "download", "read"}
Finishing == {"invert", "summary", "table", "manifest"}
Over == {"cleanup", "ended", "killed"}

Places ==
  /\ mode \in [benchmark: BOOLEAN, regression: BOOLEAN]
  /\ pc \in Early \cup Working \cup {"delete"} \cup Finishing \cup Over
  /\ found \subseteq Products /\ selected \in Seq(Range(selected))
  /\ raw \subseteq [product: Products, whole: BOOLEAN] /\ result \subseteq Package

\* A raw file is there only between the end of its download and its deletion,
\* or after a failure.
RawFiles ==
  /\ raw = {} \/ \E f : raw = {f}
  /\ pc \in Early \cup {"check", "download"} \cup Finishing => raw = {}
  /\ pc = "read" => raw \subseteq {[product |-> Current, whole |-> TRUE]}

\* Products are read in the order in which they were selected.
ReadSoFar ==
  /\ read \in Seq([product: Products, file: [product: Products, whole: BOOLEAN]])
  /\ ReadsOwnFile
  /\ pc \in Early => read = <<>>
  /\ read # <<>> \/ pc \notin Early \cup Over => selected # <<>>
  /\ selected # <<>> =>
       Len(read) <= Len(Todo) /\ \A i \in 1 .. Len(read) : read[i].product = Todo[i]
  /\ pc \in Working => Len(read) < Len(Todo)
  /\ pc \in Finishing => Len(read) = Len(Todo)

\* The files of the package come in their order, after the last deletion.
Published ==
  /\ pc \in {"table", "manifest"} => "result.json" \in result
  /\ pc = "manifest" => "timeseries.csv" \in result
  /\ "manifest.json" \in result =>
       /\ pc \in Over /\ raw = {} /\ {"result.json", "timeseries.csv"} \subseteq result
       /\ selected # <<>> /\ Len(read) = Len(Todo)
  /\ exit = "ok" => pc \in Over /\ "manifest.json" \in result

WorkerInv == AccessInv /\ Places /\ RawFiles /\ ReadSoFar /\ Published

LEMMA WorkerStart == WorkerInit => WorkerInv
BY AccessStart, AttemptsAssumption
DEF WorkerInit, WorkerInv, Places, RawFiles, ReadSoFar, Published, ReadsOwnFile, Early, Working,
    Finishing, Over

LEMMA TodoStays ==
  ASSUME UNCHANGED <<mode, selected, read>>
  PROVE  Todo' = Todo /\ Current' = Current
BY DEF Todo, Current

\* A step that reads and selects nothing, publishes no result, and removes raw
\* files if any change: it goes on or ends the run.
LEMMA MoveKeeps ==
  ASSUME WorkerInv, AccessInv', UNCHANGED <<mode, selected, read>>,
         found' \subseteq Products, raw' \in {raw, {}},
         result' \in {result, result \cup {"README.txt"}}, exit' \in {exit, "error"},
         \/ pc' = pc
         \/ pc' \in Over
         \/ pc \in Early /\ pc' \in Early
         \/ pc = "check" /\ pc' = "download"
         \/ pc = "invert" /\ pc' = "summary"
  PROVE  WorkerInv'
<1> USE DEF WorkerInv
<1>1. Todo' = Todo /\ Current' = Current
  BY TodoStays
<1>2. Places'
  BY DEF Places, Early, Working, Finishing, Over, Package
<1>3. RawFiles'
  BY <1>1 DEF RawFiles, Early, Finishing, Over
<1>4. ReadSoFar'
  BY <1>1 DEF ReadSoFar, ReadsOwnFile, Early, Working, Finishing, Over
<1>5. Published'
  BY <1>1 DEF Published, Early, Finishing, Over
<1> QED
  BY <1>2, <1>3, <1>4, <1>5

LEMMA SelectKeeps ==
  ASSUME WorkerInv, Select
  PROVE  WorkerInv'
<1> USE DEF WorkerInv
<1> DEFINE stack == IF mode.regression THEN DocumentedStack(found) ELSE RuntimeStack(found)
<1>1. pc = "select" /\ UNCHANGED <<mode, tries, found, read, raw, result, access>>
  BY DEF Select, Raise, Goto
<1>2. AccessInv'
  BY <1>1, AccessStays
<1>3. CASE stack = <<>>
  <2>1. pc' = "cleanup" /\ exit' = "error" /\ selected' = selected
    BY <1>3 DEF Select, Raise
  <2> QED
    BY <1>1, <1>2, <2>1, MoveKeeps DEF Places, Over
<1>4. CASE stack # <<>>
  <2>1. selected' = stack /\ pc' = "check" /\ exit' = exit
    BY <1>4 DEF Select, Goto
  <2>2. found \in SUBSET Products
    BY DEF Places
  <2>3. selected' \in Seq(Range(selected')) /\ selected' # <<>>
    BY <1>4, <2>1, <2>2, StacksAreSequences
  <2> HIDE DEF stack
  <2>4. Len(Todo)' \in Nat /\ Len(Todo)' > 0
    <3>1. Todo' = IF mode.benchmark THEN SubSeq(selected', 1, 1) ELSE selected'
      BY <1>1 DEF Todo
    <3> QED
      BY <2>3, <3>1, TodoIsSequence
  <2>5. read = <<>> /\ raw = {}
    BY <1>1 DEF ReadSoFar, RawFiles, Early
  <2>6. Places'
    BY <1>1, <2>1, <2>3 DEF Places, Working
  <2>7. RawFiles'
    BY <1>1, <2>1, <2>5 DEF RawFiles
  <2>8. ReadSoFar'
    BY <1>1, <2>1, <2>3, <2>4, <2>5
    DEF ReadSoFar, ReadsOwnFile, Early, Working, Finishing, Over
  <2>9. Published'
    BY <1>1, <2>1 DEF Published, Over
  <2> QED
    BY <1>2, <2>6, <2>7, <2>8, <2>9
<1> QED
  BY <1>3, <1>4

LEMMA DownloadKeeps ==
  ASSUME WorkerInv, Download
  PROVE  WorkerInv'
<1> USE DEF WorkerInv
<1>1. /\ pc = "download" /\ UNCHANGED <<mode, found, selected, read, result, access>>
      /\ raw = {}
  BY DEF Download, Goto, Raise, RawFiles
<1>2. AccessInv' /\ Todo' = Todo /\ Current' = Current
  BY <1>1, AccessStays, TodoStays
<1>3. PICK ok \in BOOLEAN, files \in SUBSET [product: Products, whole: BOOLEAN] :
        /\ DownloadsTo(files, ok)
        /\ \/ ok /\ raw' = files /\ pc' = "read" /\ exit' = exit
           \/ /\ ~ok /\ raw' = {}
              /\ \/ pc' = "cleanup" /\ exit' = "error"
                 \/ pc' = "download" /\ exit' = exit
           \/ ~ok /\ raw' = files /\ pc' = "cleanup" /\ exit' = "error"
  BY DEF Download, Goto, Raise
<1>4. /\ files = {} \/ \E f : files = {f}
      /\ ok => files \subseteq {[product |-> Current, whole |-> TRUE]}
  BY <1>1, <1>3 DEF DownloadsTo
<1>5. Places'
  BY <1>1, <1>3 DEF Places, Working, Over
<1>6. RawFiles'
  BY <1>2, <1>3, <1>4 DEF RawFiles, Early, Finishing
<1>7. ReadSoFar'
  BY <1>1, <1>2, <1>3 DEF ReadSoFar, ReadsOwnFile, Early, Working, Finishing, Over
<1>8. Published'
  BY <1>1, <1>2, <1>3 DEF Published, Over
<1> QED
  BY <1>2, <1>5, <1>6, <1>7, <1>8

LEMMA ReadKeeps ==
  ASSUME WorkerInv, Read
  PROVE  WorkerInv'
<1> USE DEF WorkerInv
<1>1. pc = "read" /\ UNCHANGED <<mode, tries, found, selected, raw, result, access>>
  BY DEF Read, Goto, Raise
<1>2. AccessInv' /\ Todo' = Todo
  BY <1>1, AccessStays DEF Todo
<1>3. CASE Raise /\ UNCHANGED read
  BY <1>1, <1>2, <1>3, MoveKeeps DEF Raise, Over, Places
<1>4. CASE \E f \in raw :
             /\ OnlyRawFile(f)
             /\ read' = Append(read, [product |-> Current, file |-> f])
             /\ Goto("delete")
  <2>1. PICK f \in raw : /\ raw = {f}
                         /\ read' = Append(read, [product |-> Current, file |-> f])
                         /\ pc' = "delete" /\ exit' = exit
    BY <1>4 DEF OnlyRawFile, Goto
  <2>2. f = [product |-> Current, whole |-> TRUE] /\ f \in [product: Products, whole: BOOLEAN]
    BY <1>1, <2>1 DEF RawFiles, Places
  <2>3. Current \in Products
    <3>1. f.product = Current /\ f.product \in Products
      BY <2>2
    <3> QED
      BY <3>1
  <2> DEFINE new == [product |-> Current, file |-> f]
  <2>4. new \in [product: Products, file: [product: Products, whole: BOOLEAN]]
    BY <2>2, <2>3
  <2>5. new.product = Current /\ new.file = [product |-> new.product, whole |-> TRUE]
    BY <2>2
  <2> HIDE DEF new
  <2>6. read' = Append(read, new)
    BY <2>1 DEF new
  <2>7. /\ Len(read) \in Nat /\ Len(read') = Len(read) + 1 /\ read'[Len(read) + 1] = new
        /\ \A i \in 1 .. Len(read) : read'[i] = read[i]
        /\ read' \in Seq([product: Products, file: [product: Products, whole: BOOLEAN]])
        /\ DOMAIN read = 1 .. Len(read) /\ DOMAIN read' = 1 .. (Len(read) + 1)
    BY <2>4, <2>6 DEF ReadSoFar
  <2>8. selected # <<>> /\ Len(read) < Len(Todo) /\ Len(Todo) \in Nat
    BY <1>1, TodoIsSequence DEF Todo, ReadSoFar, Working, Early, Over, Places
  <2>9. ReadsOwnFile'
    <3>1. \A i \in 1 .. Len(read) : read[i].file = [product |-> read[i].product, whole |-> TRUE]
      BY <2>7 DEF ReadsOwnFile, ReadSoFar
    <3>2. \A i \in DOMAIN read' : i \in 1 .. Len(read) \/ i = Len(read) + 1
      BY <2>7
    <3> QED
      BY <2>5, <2>7, <3>1, <3>2 DEF ReadsOwnFile
  <2>10. \A i \in 1 .. Len(read') : read'[i].product = Todo[i]
    BY <2>5, <2>7, <2>8 DEF ReadSoFar, Current
  <2>11. ReadSoFar'
    BY <1>1, <1>2, <2>1, <2>7, <2>8, <2>9, <2>10 DEF ReadSoFar, Early, Working, Finishing, Over
  <2>12. Places'
    BY <1>1, <2>1 DEF Places
  <2>13. RawFiles'
    BY <1>1, <2>1 DEF RawFiles, Early, Finishing
  <2>14. Published'
    BY <1>1, <2>1 DEF Published, Over
  <2> QED
    BY <1>2, <2>11, <2>12, <2>13, <2>14
<1> QED
  BY <1>1, <1>3, <1>4 DEF Read

LEMMA DeleteKeeps ==
  ASSUME WorkerInv, Delete
  PROVE  WorkerInv'
<1> USE DEF WorkerInv
<1>1. /\ pc = "delete" /\ UNCHANGED <<mode, tries, found, selected, read, result, access>>
      /\ raw' \in {raw, {}}
  BY DEF Delete, Goto, Raise
<1>2. AccessInv' /\ Todo' = Todo /\ Current' = Current
  BY <1>1, AccessStays, TodoStays
<1>3. CASE Raise
  BY <1>1, <1>2, <1>3, MoveKeeps DEF Raise, Over, Places
<1>4. CASE /\ raw' = {} /\ exit' = exit
           /\ pc' = IF Len(read) < Len(Todo) THEN "check" ELSE "invert"
  <2>1. selected # <<>> /\ Len(Todo) \in Nat /\ Len(read) \in Nat /\ Len(read) <= Len(Todo)
    BY <1>1, TodoIsSequence DEF Todo, ReadSoFar, Early, Over, Places
  <2>2. Places'
    BY <1>1, <1>4 DEF Places, Working, Finishing
  <2>3. RawFiles'
    BY <1>4 DEF RawFiles
  <2>4. ReadSoFar'
    BY <1>1, <1>2, <1>4, <2>1 DEF ReadSoFar, ReadsOwnFile, Early, Working, Finishing, Over
  <2>5. Published'
    BY <1>1, <1>4 DEF Published, Over
  <2> QED
    BY <1>2, <2>2, <2>3, <2>4, <2>5
<1> QED
  BY <1>3, <1>4 DEF Delete, Goto

\* The next file of the package is written; the run goes on or ends.
LEMMA FileKeeps ==
  ASSUME WorkerInv, pc \in {"summary", "table", "manifest"},
         UNCHANGED <<mode, found, selected, read, access>>, raw' \in {raw, {}},
         result' = result \cup {FileAt[pc]},
         \/ pc' \in Over /\ exit' \in {exit, "error"}
         \/ pc' \in Over /\ pc = "manifest"
         \/ pc = "summary" /\ pc' = "table" /\ exit' = exit
         \/ pc = "table" /\ pc' = "manifest" /\ exit' = exit
  PROVE  WorkerInv'
<1> USE DEF WorkerInv
<1>1. AccessInv' /\ Todo' = Todo /\ Current' = Current
  BY AccessStays, TodoStays
<1>2. /\ pc = "summary" => result' = result \cup {"result.json"}
      /\ pc = "table" => result' = result \cup {"timeseries.csv"}
      /\ pc = "manifest" => result' = result \cup {"manifest.json"}
  BY DEF FileAt
<1>3. raw = {} /\ raw' = {} /\ selected # <<>> /\ Len(read) = Len(Todo)
  BY DEF RawFiles, ReadSoFar, Finishing, Early, Over
<1>4. Places'
  BY <1>2 DEF Places, Finishing, Over, Package
<1>5. RawFiles'
  BY <1>3 DEF RawFiles
<1>6. ReadSoFar'
  BY <1>1 DEF ReadSoFar, ReadsOwnFile, Early, Working, Finishing, Over
<1>7. "manifest.json" \notin result /\ exit # "ok"
  BY DEF Published, Over
<1>8. Published'
  BY <1>1, <1>2, <1>3, <1>7 DEF Published, Over
<1> QED
  BY <1>1, <1>4, <1>5, <1>6, <1>8

LEMMA PublishKeeps ==
  ASSUME WorkerInv, PublishFile \/ PublishAtOnce
  PROVE  WorkerInv'
<1>1. UNCHANGED <<mode, found, selected, read, raw, access>>
  <2>1. CASE PublishFile
    <3>1. pc \in {"summary", "table", "manifest"}
      BY <2>1 DEF PublishFile, FileAt
    <3> QED
      BY <2>1, <3>1 DEF PublishFile, Goto, Raise, Succeed
  <2>2. CASE PublishAtOnce
    BY <2>2 DEF PublishAtOnce, Raise, Succeed
  <2> QED
    BY <2>1, <2>2
<1>2. AccessInv' /\ Todo' = Todo /\ Current' = Current
  BY <1>1, AccessStays, TodoStays DEF WorkerInv
<1>3. CASE Raise /\ result' = result
  BY <1>1, <1>2, <1>3, MoveKeeps DEF Raise, Over, WorkerInv, Places
<1>4. CASE PublishFile /\ result' = result \cup {FileAt[pc]}
  <2>1. pc \in {"summary", "table", "manifest"}
    BY <1>4 DEF PublishFile, FileAt
  <2>2. \/ pc' = "cleanup" /\ exit' = "error"
        \/ pc' = "cleanup" /\ pc = "manifest"
        \/ pc = "summary" /\ pc' = "table" /\ exit' = exit
        \/ pc = "table" /\ pc' = "manifest" /\ exit' = exit
    BY <1>4, <2>1 DEF PublishFile, Goto, Raise, Succeed
  <2> QED
    BY <1>1, <1>4, <2>1, <2>2, FileKeeps DEF Over
<1>5. CASE PublishAtOnce /\ result' = Package
  <2> USE DEF WorkerInv
  <2>1. pc = "summary" /\ pc' = "cleanup" /\ raw = {} /\ selected # <<>> /\ Len(read) = Len(Todo)
    BY <1>5, <1>3 DEF PublishAtOnce, Succeed, Raise, RawFiles, ReadSoFar, Finishing, Early, Over
  <2>2. Places'
    BY <1>1, <1>5, <2>1 DEF Places, Over
  <2>3. RawFiles'
    BY <1>1, <2>1 DEF RawFiles
  <2>4. ReadSoFar'
    BY <1>1, <1>2, <2>1 DEF ReadSoFar, ReadsOwnFile, Early, Working, Finishing, Over
  <2>5. Published'
    BY <1>1, <1>2, <1>5, <2>1 DEF Published, Over, Package
  <2> QED
    BY <1>2, <2>2, <2>3, <2>4, <2>5
<1> QED
  BY <1>3, <1>4, <1>5 DEF PublishFile, PublishAtOnce

LEMMA KillKeeps ==
  ASSUME WorkerInv, Kill
  PROVE  WorkerInv'
<1>1. /\ pc' = "killed" /\ exit' = exit /\ raw' \in {raw, {}}
      /\ UNCHANGED <<mode, found, selected, read, access>>
  BY DEF Kill, Goto
<1>2. AccessInv'
  BY <1>1, AccessStays DEF WorkerInv
<1>3. CASE result' = result
  BY <1>1, <1>2, <1>3, MoveKeeps DEF Over, WorkerInv, Places
<1>4. CASE pc \in DOMAIN FileAt /\ result' = result \cup {FileAt[pc]}
  <2>1. pc \in {"summary", "table", "manifest"}
    BY <1>4 DEF FileAt
  <2> QED
    BY <1>1, <1>4, <2>1, FileKeeps DEF Over
<1> QED
  BY <1>3, <1>4 DEF Kill

LEMMA WorkerStays ==
  ASSUME WorkerInv, UNCHANGED worker
  PROVE  WorkerInv'
<1>1. AccessInv' /\ UNCHANGED work
  BY AccessStays DEF WorkerInv, worker
<1> QED
  BY <1>1, MoveKeeps DEF work, WorkerInv, Places

LEMMA WorkerKeeps ==
  ASSUME WorkerInv, WorkerStep
  PROVE  WorkerInv'
<1> USE DEF WorkerInv
<1>1. found \subseteq Products
  BY DEF Places
<1>2. CASE Refuse \/ LoginEnds \/ Discover \/ CheckDisk \/ Invert \/ CleanUp
  <2>1. UNCHANGED access
    BY <1>2 DEF Refuse, LoginEnds, Discover, CheckDisk, Invert, CleanUp, Goto, Raise
  <2>2. AccessInv'
    BY <2>1, AccessStays
  <2> QED
    BY <1>1, <1>2, <2>2, MoveKeeps
    DEF Refuse, LoginEnds, Discover, CheckDisk, Invert, CleanUp, Goto, Raise, Early, Over
<1>3. CASE LoginStep
  <2>1. AccessInv'
    BY <1>3, AccessKeeps DEF LoginStep
  <2> QED
    BY <1>1, <1>3, <2>1, MoveKeeps DEF LoginStep, work
<1>4. CASE Select \/ Download \/ Read \/ Delete \/ PublishFile \/ PublishAtOnce
  BY <1>4, SelectKeeps, DownloadKeeps, ReadKeeps, DeleteKeeps, PublishKeeps
<1> QED
  BY <1>2, <1>3, <1>4 DEF WorkerStep

\* Behind a manifest lie all products to process.
LEMMA AllProcessed ==
  ASSUME WorkerInv, "manifest.json" \in result
  PROVE  Processed = Range(Todo)
<1>1. /\ selected # <<>> /\ Len(read) = Len(Todo)
      /\ \A i \in 1 .. Len(read) : read[i].product = Todo[i]
  BY DEF WorkerInv, Published, ReadSoFar
<1>2. DOMAIN read = 1 .. Len(read)
  BY DEF WorkerInv, ReadSoFar
<1>3. DOMAIN Todo = 1 .. Len(Todo)
  BY <1>1, TodoIsSequence DEF Todo, WorkerInv, Places
<1> QED
  BY <1>1, <1>2, <1>3 DEF Processed, Range

-----------------------------------------------------------------------------
\* Nothing is selected before its time, and then what is found stays.
Chosen ==
  /\ pc \in Early => selected = <<>>
  /\ SelectionIsRight

LEMMA ChosenStart == WorkerInit => Chosen
BY DEF WorkerInit, Chosen, SelectionIsRight

LEMMA ChosenStays ==
  ASSUME Chosen, UNCHANGED <<mode, selected>>, found' = found \/ pc \in Early,
         pc' \in Early => pc \in Early
  PROVE  Chosen'
<1>1. CASE selected = <<>>
  BY <1>1 DEF Chosen, SelectionIsRight
<1>2. CASE selected # <<>>
  <2>1. found' = found
    BY <1>2 DEF Chosen
  <2> QED
    BY <1>2, <2>1 DEF Chosen, SelectionIsRight
<1> QED
  BY <1>1, <1>2

LEMMA SelectChooses ==
  ASSUME WorkerInv, Chosen, Select
  PROVE  Chosen'
<1> DEFINE stack == IF mode.regression THEN DocumentedStack(found) ELSE RuntimeStack(found)
<1>1. pc = "select" /\ mode' = mode /\ found' = found /\ found \in SUBSET Products
  BY DEF Select, Raise, Goto, WorkerInv, Places
<1>2. CASE stack = <<>>
  <2>1. selected' = selected
    BY <1>2 DEF Select
  <2> QED
    BY <1>1, <2>1, ChosenStays DEF Early
<1>3. CASE stack # <<>>
  <2>1. selected' = stack /\ pc' = "check"
    BY <1>3 DEF Select, Goto
  <2>2. CASE mode.regression
    <3>1. Documented \subseteq Edges(found \cap PR)
      BY <1>3, <2>2 DEF DocumentedStack
    <3>2. stack = [i \in DOMAIN InOrder(Documented) |->
                     Preferred(found \cap PR, InOrder(Documented)[i])]
      BY <2>2, <3>1 DEF DocumentedStack
    <3>3. found \cap PR \in SUBSET Products
      BY <1>1
    <3> HIDE DEF stack
    <3>4. /\ IsInjective([i \in DOMAIN stack |-> EdgeOf[stack[i]]])
          /\ Range(stack) \subseteq PR /\ Edges(Range(stack)) = Documented
      BY <3>1, <3>2, <3>3, StackIsRight
    <3>5. SelectionIsRight'
      BY <1>1, <2>1, <2>2, <3>4 DEF SelectionIsRight
    <3> QED
      BY <2>1, <3>5 DEF Chosen, Early
  <2>3. CASE ~mode.regression
    <3>1. stack = [i \in DOMAIN InOrder(Edges(found)) |->
                     Preferred(found, InOrder(Edges(found))[i])]
      BY <2>3 DEF RuntimeStack
    <3> HIDE DEF stack
    <3>2. /\ IsInjective([i \in DOMAIN stack |-> EdgeOf[stack[i]]])
          /\ Edges(Range(stack)) = Edges(found)
          /\ \A p \in Range(stack) :
               p \in PR \/ \A q \in found : EdgeOf[q] = EdgeOf[p] => q \notin PR
      BY <1>1, <3>1, StackIsRight
    <3>3. SelectionIsRight'
      BY <1>1, <2>1, <2>3, <3>2 DEF SelectionIsRight
    <3> QED
      BY <2>1, <3>3 DEF Chosen, Early
  <2> QED
    BY <2>2, <2>3
<1> QED
  BY <1>2, <1>3

LEMMA ChosenKeeps ==
  ASSUME WorkerInv, Chosen, WorkerStep \/ Kill \/ UNCHANGED worker
  PROVE  Chosen'
<1>1. CASE Select
  BY <1>1, SelectChooses
<1>2. CASE PublishFile \/ PublishAtOnce
  <2>1. pc \in {"summary", "table", "manifest"}
    BY <1>2 DEF PublishFile, PublishAtOnce, FileAt
  <2> QED
    BY <1>2, <2>1, ChosenStays DEF PublishFile, PublishAtOnce, Goto, Raise, Succeed, Early
<1>3. CASE Refuse \/ LoginStep \/ LoginEnds \/ Discover \/ CheckDisk
  BY <1>3, ChosenStays
  DEF Refuse, LoginStep, LoginEnds, Discover, CheckDisk, work, Goto, Raise, Early
<1>4. CASE Download \/ Read \/ Delete
  BY <1>4, ChosenStays DEF Download, Read, Delete, Goto, Raise, Early
<1>5. CASE Invert \/ CleanUp \/ Kill \/ UNCHANGED worker
  BY <1>5, ChosenStays DEF Invert, CleanUp, Kill, worker, work, Goto, Raise, Early
<1> QED
  BY <1>1, <1>2, <1>3, <1>4, <1>5 DEF WorkerStep

-----------------------------------------------------------------------------
\* Run by hand, outside the workflow, the worker keeps its invariant as well.
THEOREM WorkerInvariant == WorkerSpec => []WorkerInv
<1>1. WorkerInit => WorkerInv
  BY WorkerStart
<1>2. WorkerInv /\ [WorkerStep \/ Kill]_worker => WorkerInv'
  BY WorkerKeeps, KillKeeps, WorkerStays
<1> QED
  BY <1>1, <1>2, PTL DEF WorkerSpec

-----------------------------------------------------------------------------
(***************************************************************************)
(* The run around the worker                                               *)
(***************************************************************************)
All == Package \cup {"metadata.json"}

\* The worker has succeeded; all of its package is uploaded and known.
Worked == exit = "ok" /\ pc = "ended"
Delivered == Worked /\ output = All /\ drive = All

Steps ==
  /\ step \in {"setup", "worker", "package", "upload", "cleanup", "callback", "posting"} \cup Ends
  /\ status \in {"success", "failure", "cancelled"}
  /\ dir \in {"unset", "made", "removed"}

\* A step with if: success() is reached over its predecessors' success only.
Reached ==
  /\ step \in {"setup", "worker"} => status = "success"
  /\ step \in {"package", "upload"} => status = "success" /\ Worked
  /\ step = "upload" => result = Package
  /\ step \in {"cleanup", "callback"} /\ status = "success" => Delivered
  /\ step = "callback" /\ status = "success" => dir = "removed"

\* There is no payload before the callback step, and one of two after it.
Payloads ==
  /\ step \in {"setup", "worker", "package", "upload", "cleanup", "callback"} => payload = NoPayload
  /\ step \in {"posting", "posted"} => payload.status \in {"completed", "failed"}
  /\ payload.status \in {"none", "failed", "completed"}
  /\ payload.status = "failed" => payload = FailedPayload
  /\ payload.status = "completed" => payload = CompletedPayload /\ Delivered /\ dir = "removed"

RunInv == WorkerInv /\ Steps /\ Reached /\ Payloads

LEMMA RunStart == Init => RunInv
BY WorkerStart DEF Init, RunInv, Steps, Reached, Payloads, NoPayload

LEMMA PayloadStatus ==
  /\ NoPayload.status = "none" /\ FailedPayload.status = "failed"
  /\ CompletedPayload.status = "completed"
BY DEF NoPayload, FailedPayload, CompletedPayload

Before == {"setup", "worker", "package", "upload", "cleanup"}

\* A step before the callback composes no payload.
LEMMA NoPayloadBefore ==
  ASSUME RunInv, step \in Before, step' \in Before \cup {"callback"}, UNCHANGED payload
  PROVE  Payloads'
<1>1. payload' = NoPayload
  BY DEF RunInv, Payloads, Before
<1> QED
  BY <1>1, PayloadStatus DEF Payloads, Before

-----------------------------------------------------------------------------
LEMMA SetUpKeeps == ASSUME RunInv, SetUp \/ MakeDir PROVE RunInv'
<1>1. WorkerInv'
  BY WorkerStays DEF RunInv, SetUp, MakeDir
<1>2. Payloads'
  BY NoPayloadBefore DEF Before, SetUp, MakeDir, Succeeds, Fails
<1> QED
  BY <1>1, <1>2 DEF RunInv, SetUp, MakeDir, Succeeds, Fails, Steps, Reached, Ends

LEMMA WorkKeeps == ASSUME RunInv, Work PROVE RunInv'
<1>1. WorkerInv'
  BY WorkerKeeps DEF RunInv, Work
<1>2. step = "worker" /\ UNCHANGED workflow
  BY DEF Work
<1>3. payload = NoPayload
  BY <1>2 DEF RunInv, Payloads
<1> QED
  BY <1>1, <1>2, <1>3, PayloadStatus DEF RunInv, workflow, Steps, Reached, Payloads

LEMMA WorkEndsKeeps == ASSUME RunInv, WorkEnds PROVE RunInv'
<1>1. WorkerInv' /\ exit' = exit /\ pc' = pc
  BY WorkerStays DEF RunInv, WorkEnds, worker, work
<1>2. Payloads'
  BY NoPayloadBefore DEF Before, WorkEnds, Succeeds, Fails
<1> QED
  BY <1>1, <1>2 DEF RunInv, WorkEnds, Succeeds, Fails, Worked, Steps, Reached

LEMMA CompletePackageKeeps == ASSUME RunInv, CompletePackage PROVE RunInv'
<1>1. WorkerInv'
  <2>1. AccessInv'
    BY AccessStays DEF RunInv, WorkerInv, CompletePackage
  <2> QED
    BY <2>1, MoveKeeps DEF CompletePackage, RunInv, WorkerInv, Places
<1>2. result' \subseteq Package
  BY <1>1 DEF WorkerInv, Places
<1>3. Payloads'
  BY NoPayloadBefore DEF Before, CompletePackage, Succeeds, Fails
<1> QED
  BY <1>1, <1>2, <1>3 DEF RunInv, CompletePackage, Succeeds, Fails, Worked, Steps, Reached

LEMMA UploadKeeps == ASSUME RunInv, Upload PROVE RunInv'
<1>1. WorkerInv' /\ exit' = exit /\ pc' = pc
  BY WorkerStays DEF RunInv, Upload, worker, work
<1>2. step = "upload" /\ result = Package
  BY DEF RunInv, Reached, Upload
<1>3. \/ step' = "cleanup" /\ status' = status /\ output' = All /\ drive' = All
      \/ step' = "cleanup" /\ status' # "success" /\ status' \in {"failure", status}
  BY <1>2 DEF Upload, Verified, Succeeds, Fails, All
<1>4. dir' = dir /\ payload' = payload
  BY DEF Upload
<1>5. Payloads'
  BY NoPayloadBefore DEF Before, Upload, Succeeds, Fails
<1> QED
  BY <1>1, <1>2, <1>3, <1>4, <1>5 DEF RunInv, Worked, Delivered, Steps, Reached

LEMMA RemoveOutputsKeeps == ASSUME RunInv, RemoveOutputs PROVE RunInv'
<1>1. WorkerInv' /\ exit' = exit /\ pc' = pc
  BY WorkerStays DEF RunInv, RemoveOutputs, worker, work
<1>2. Payloads'
  BY NoPayloadBefore DEF Before, RemoveOutputs, Succeeds, Fails
<1> QED
  BY <1>1, <1>2
  DEF RunInv, RemoveOutputs, Succeeds, Fails, Worked, Delivered, Steps, Reached

LEMMA ComposeKeeps == ASSUME RunInv, Compose PROVE RunInv'
<1>1. WorkerInv' /\ exit' = exit /\ pc' = pc
  BY WorkerStays DEF RunInv, Compose, worker, work
<1>2. UNCHANGED <<status, dir, drive, output>> /\ step = "callback"
  BY DEF Compose
<1>3. CASE step' = "posting" /\ payload' = FailedPayload
  <2>1. FailedPayload' = FailedPayload
    BY DEF FailedPayload
  <2> QED
    BY <1>1, <1>2, <1>3, <2>1, PayloadStatus DEF RunInv, Steps, Reached, Payloads
<1>4. CASE status = "success" /\ step' = "posting" /\ payload' = CompletedPayload
  <2>1. CompletedPayload' = CompletedPayload
    BY <1>2 DEF CompletedPayload
  <2>2. Delivered' /\ dir' = "removed"
    BY <1>1, <1>2, <1>4 DEF RunInv, Reached, Delivered, Worked
  <2> QED
    BY <1>1, <1>2, <1>4, <2>1, <2>2, PayloadStatus DEF RunInv, Steps, Reached, Payloads
<1>5. CASE step' = "broken" /\ payload' = payload
  BY <1>1, <1>2, <1>5, PayloadStatus DEF RunInv, Steps, Reached, Payloads, Ends
<1> QED
  BY <1>3, <1>4, <1>5 DEF Compose

LEMMA PostKeeps == ASSUME RunInv, Post \/ FallSilent PROVE RunInv'
<1>1. WorkerInv' /\ exit' = exit /\ pc' = pc
  BY WorkerStays DEF RunInv, Post, FallSilent, worker, work
<1>2. UNCHANGED <<status, dir, drive, output, payload>>
  BY DEF Post, FallSilent
<1>3. FailedPayload' = FailedPayload /\ CompletedPayload' = CompletedPayload
  BY <1>2 DEF FailedPayload, CompletedPayload
<1>4. (step' = "posted" /\ step = "posting") \/ step' = "silent"
  BY DEF Post, FallSilent
<1> QED
  BY <1>1, <1>2, <1>3, <1>4 DEF RunInv, Worked, Delivered, Steps, Reached, Payloads, Ends

LEMMA CancelKeeps == ASSUME RunInv, CancelLate \/ Cancel PROVE RunInv'
<1>1. WorkerInv'
  BY KillKeeps, WorkerStays DEF RunInv, CancelLate, Cancel
<1>2. /\ status' = "cancelled" /\ step' \in {"cleanup", "callback"}
      /\ payload' = payload /\ dir' = dir
      /\ step \in {"setup", "worker", "package", "upload", "cleanup", "callback"}
  BY DEF CancelLate, Cancel
<1>3. payload = NoPayload
  BY <1>2 DEF RunInv, Payloads
<1> QED
  BY <1>1, <1>2, <1>3, PayloadStatus DEF RunInv, Steps, Reached, Payloads

LEMMA RunStays == ASSUME RunInv, UNCHANGED vars PROVE RunInv'
<1>1. WorkerInv' /\ exit' = exit /\ pc' = pc /\ result' = result
  BY WorkerStays DEF RunInv, vars, worker, work
<1>2. UNCHANGED <<step, status, dir, drive, output, payload>>
  BY DEF vars, workflow
<1>3. FailedPayload' = FailedPayload /\ CompletedPayload' = CompletedPayload
  BY <1>2 DEF FailedPayload, CompletedPayload
<1> QED
  BY <1>1, <1>2, <1>3 DEF RunInv, Worked, Delivered, Steps, Reached, Payloads

LEMMA RunStep == ASSUME RunInv, [Next]_vars PROVE RunInv'
BY SetUpKeeps, WorkKeeps, WorkEndsKeeps, CompletePackageKeeps, UploadKeeps, RemoveOutputsKeeps,
   ComposeKeeps, PostKeeps, CancelKeeps, RunStays DEF Next, Progress

-----------------------------------------------------------------------------
\* Worker and workflow are always as described: the inductive invariant.
THEOREM RunInvariant == Spec => []RunInv
<1>1. Init => RunInv
  BY RunStart
<1>2. RunInv /\ [Next]_vars => RunInv'
  BY RunStep
<1> QED
  BY <1>1, <1>2, PTL DEF Spec

\* Rejected credentials are submitted once (login_earthdata_with_retry).
THEOREM RejectionsAreFinal == Spec => []RejectionIsFinal
<1>1. RunInv => RejectionIsFinal
  BY DEF RunInv, WorkerInv, AccessInv
<1> QED
  BY <1>1, RunInvariant, PTL

\* The code of an EarthdataLoginError is explained by the attempts made.
THEOREM CodesTellWhy == Spec => []CodeTellsWhy
<1>1. RunInv => CodeTellsWhy
  BY DEF RunInv, WorkerInv, AccessInv
<1> QED
  BY <1>1, RunInvariant, PTL

\* The loop over the products in run_full keeps one raw file at most.
THEOREM RawFilesOneByOne == Spec => []OneRawFile
<1>1. RunInv => OneRawFile
  <2> SUFFICES ASSUME RunInv
               PROVE  OneRawFile
    OBVIOUS
  <2>1. raw = {} \/ \E f : raw = {f}
    BY DEF RunInv, WorkerInv, RawFiles
  <2>2. Cardinality(raw) \in {0, 1}
    BY <2>1, FS_EmptySet, FS_Singleton
  <2> QED
    BY <2>2 DEF OneRawFile, RunInv, WorkerInv, RawFiles
<1> QED
  BY <1>1, RunInvariant, PTL

\* No product is computed from a part that a failed download has left.
THEOREM WholeFilesAreRead == Spec => []ReadsOwnFile
<1>1. RunInv => ReadsOwnFile
  BY DEF RunInv, WorkerInv, ReadSoFar
<1> QED
  BY <1>1, RunInvariant, PTL

\* choose_runtime_stack and choose_documented_stack take one product per edge,
\* the best there is, for every edge there should be.
THEOREM SelectionsAreRight == Spec => []SelectionIsRight
<1>1. Init => RunInv /\ Chosen
  BY RunStart, ChosenStart DEF Init
<1>2. RunInv /\ Chosen /\ [Next]_vars => (RunInv /\ Chosen)'
  <2> SUFFICES ASSUME RunInv, Chosen, [Next]_vars
               PROVE  Chosen'
    BY RunStep
  <2>1. CASE CompletePackage
    BY <2>1, ChosenStays DEF CompletePackage
  <2>2. CASE ~CompletePackage
    <3>1. WorkerStep \/ Kill \/ UNCHANGED worker
      BY <2>2 DEF Next, Progress, SetUp, MakeDir, Work, WorkEnds, Upload, RemoveOutputs, Compose,
                  Post, FallSilent, CancelLate, Cancel, vars
    <3> QED
      BY <3>1, ChosenKeeps DEF RunInv
  <2> QED
    BY <2>1, <2>2
<1>3. Chosen => SelectionIsRight
  BY DEF Chosen
<1> QED
  BY <1>1, <1>2, <1>3, PTL DEF Spec

\* The order of the writes of run_full, and the rename of benchmark mode.
THEOREM ManifestComesLast == Spec => []ManifestMeansDone
<1>1. RunInv => ManifestMeansDone
  <2> SUFFICES ASSUME RunInv, "manifest.json" \in result
               PROVE  Processed = Range(Todo)
    BY DEF RunInv, WorkerInv, Published, ManifestMeansDone
  <2> QED
    BY AllProcessed DEF RunInv
<1> QED
  BY <1>1, RunInvariant, PTL

\* What the workflow composes with jq passes _validate_callback_payload.
THEOREM PayloadsAreAccepted == Spec => []PayloadAccepted
<1>1. RunInv => PayloadAccepted
  <2> SUFFICES ASSUME RunInv, step = "posted"
               PROVE  Validate(payload) = "valid"
    BY DEF PayloadAccepted, Authenticate
  <2>1. payload = FailedPayload \/ (payload = CompletedPayload /\ output = All)
    BY DEF RunInv, Payloads, Delivered
  <2>2. Validate(FailedPayload) = "valid"
    BY DEF FailedPayload, NoPayload, Validate, Required, Optional
  <2>3. output = All => Validate(CompletedPayload) = "valid"
    BY DEF CompletedPayload, NoPayload, Validate, Required, Optional, SafeFileIds, All, Package,
       Expected, Unsafe
  <2> QED
    BY <2>1, <2>2, <2>3
<1> QED
  BY <1>1, RunInvariant, PTL

\* A completed callback has the whole package behind it.
THEOREM CompletedIsWhole == Spec => []CompletedMeansWhole
<1>1. RunInv => CompletedMeansWhole
  <2> SUFFICES ASSUME RunInv, payload.status = "completed"
               PROVE  /\ payload.result_file_ids = Package \cup {"metadata.json"}
                      /\ GetResult(drive, payload.result_file_ids) = Expected
                      /\ exit = "ok" /\ pc = "ended"
                      /\ "manifest.json" \in drive /\ Processed = Range(Todo)
    BY DEF CompletedMeansWhole
  <2>1. payload = CompletedPayload /\ exit = "ok" /\ pc = "ended" /\ output = All /\ drive = All
    BY DEF RunInv, Payloads, Delivered, Worked
  <2>2. payload.result_file_ids = All
    BY <2>1 DEF CompletedPayload, NoPayload
  <2>3. GetResult(All, All) = Expected
    BY DEF GetResult, All, Package, Expected
  <2>4. Processed = Range(Todo)
    BY <2>1, AllProcessed DEF RunInv, WorkerInv, Published
  <2> QED
    BY <2>1, <2>2, <2>3, <2>4 DEF All, Package
<1> QED
  BY <1>1, RunInvariant, PTL

\* A completed run has removed its directory, and its worker all raw files.
THEOREM CompletedIsClean == Spec => []CompletedLeavesNothing
<1>1. RunInv => CompletedLeavesNothing
  BY DEF RunInv, WorkerInv, Payloads, Delivered, Worked, Published, CompletedLeavesNothing
<1> QED
  BY <1>1, RunInvariant, PTL

-----------------------------------------------------------------------------
\* What WorkflowRuns sees of a run does not change while the run works.
LEMMA WorkingIsStutter ==
  ASSUME step \in Before \cup {"callback", "broken"}, step' \in Before \cup {"callback", "broken"},
         UNCHANGED payload
  PROVE  UNCHANGED Run!workflow
BY DEF Before, Seen, Sent, Run!workflow

LEMMA ComposeIsFinishWork ==
  ASSUME step = "callback", step' = "posting", payload = NoPayload,
         payload'.status \in {"completed", "failed"}
  PROVE  Run!FinishWork("run")
BY PayloadStatus DEF Seen, Sent, Run!FinishWork

LEMMA SameFunction ==
  ASSUME NEW D, NEW f, NEW g,
         f = [x \in D |-> f[x]], g = [x \in D |-> g[x]], \A x \in D : f[x] = g[x]
  PROVE  f = g
<1>1. [x \in D |-> f[x]] = [x \in D |-> g[x]]
  OBVIOUS
<1> QED
  BY <1>1, Zenon

LEMMA CallingToWaiting ==
  ASSUME NEW outcome
  PROVE  [[state |-> "calling", job |-> "job", outcome |-> outcome, attempt |-> 0]
            EXCEPT !.state = "waiting", !.attempt = @ + 1]
           = [state |-> "waiting", job |-> "job", outcome |-> outcome, attempt |-> 1]
<1> DEFINE calling == [state |-> "calling", job |-> "job", outcome |-> outcome, attempt |-> 0]
<1> DEFINE updated == [calling EXCEPT !.state = "waiting", !.attempt = @ + 1]
<1> DEFINE waiting == [state |-> "waiting", job |-> "job", outcome |-> outcome, attempt |-> 1]
<1> DEFINE Parts == {"state", "job", "outcome", "attempt"}
<1>1. DOMAIN updated = Parts /\ DOMAIN waiting = Parts
  OBVIOUS
<1>2. /\ updated.state = waiting.state /\ updated.job = waiting.job
      /\ updated.outcome = waiting.outcome /\ updated.attempt = waiting.attempt
  OBVIOUS
<1>3. \A x \in Parts : updated[x] = waiting[x]
  BY <1>2, Zenon
<1>4. /\ updated = [x \in DOMAIN updated |-> updated[x]]
      /\ waiting = [x \in DOMAIN waiting |-> waiting[x]]
  OBVIOUS
<1>5. updated = [x \in Parts |-> updated[x]] /\ waiting = [x \in Parts |-> waiting[x]]
  BY <1>1, <1>4, Zenon
<1>6. updated = waiting
  <2> HIDE DEF Parts, updated, waiting
  <2> QED
    BY <1>3, <1>5, SameFunction, Zenon
<1> QED
  BY <1>6

LEMMA PostIsPost ==
  ASSUME step = "posting", step' = "posted", UNCHANGED payload
  PROVE  Run!Post("run")
<1> DEFINE calling == [state |-> "calling", job |-> "job", outcome |-> payload.status, attempt |-> 0]
<1> DEFINE waiting == [state |-> "waiting", job |-> "job", outcome |-> payload.status, attempt |-> 1]
<1> DEFINE sent == [run |-> "run", job |-> "job", attempt |-> 1, outcome |-> payload.status]
<1>1. Seen = [r \in {"run"} |-> calling] /\ Seen' = [r \in {"run"} |-> waiting]
  BY DEF Seen
<1>2. Sent = {} /\ Sent' = {sent}
  BY DEF Sent
<1>3. [calling EXCEPT !.state = "waiting", !.attempt = @ + 1] = waiting
  BY CallingToWaiting, Zenon
<1>4. Seen["run"].state = "calling" /\ Seen' = [Seen EXCEPT !["run"] = waiting]
  BY <1>1
<1>5. [Run!Message("run") EXCEPT !.attempt = @ + 1] = sent
  <2>1. Run!Message("run") = [sent EXCEPT !.attempt = 0]
    BY <1>1 DEF Run!Message
  <2> QED
    BY <2>1
<1> QED
  BY <1>1, <1>2, <1>3, <1>4, <1>5 DEF Run!Post

LEMMA SilenceIsSilence ==
  ASSUME step \in Before \cup {"callback", "posting"}, step' = "silent", UNCHANGED payload
  PROVE  Run!EndSilently("run")
BY DEF Seen, Sent, Run!EndSilently, Before

\* The workflow file's steps behave as the run that DispatchedJobs assumes.
THEOREM RunsAreWorkflowRuns == Spec => RunSpec
<1>1. RunInv /\ [Next]_vars =>
        [Run!FinishWork("run") \/ Run!Post("run") \/ Run!EndSilently("run")]_(Run!workflow)
  <2> SUFFICES ASSUME RunInv, [Next]_vars
               PROVE  \/ Run!FinishWork("run") \/ Run!Post("run") \/ Run!EndSilently("run")
                      \/ UNCHANGED Run!workflow
    OBVIOUS
  <2>1. CASE UNCHANGED vars
    BY <2>1 DEF vars, workflow, Seen, Sent, Run!workflow
  <2>2. CASE SetUp \/ MakeDir \/ Work \/ WorkEnds \/ CompletePackage \/ Upload \/ RemoveOutputs
             \/ CancelLate \/ Cancel
    BY <2>2, WorkingIsStutter
    DEF SetUp, MakeDir, Work, WorkEnds, CompletePackage, Upload, RemoveOutputs, CancelLate, Cancel,
        Succeeds, Fails, workflow, Before
  <2>3. CASE Compose
    <3>1. payload = NoPayload
      BY <2>3 DEF RunInv, Payloads, Compose
    <3>2. CASE step' = "posting"
      BY <2>3, <3>1, <3>2, ComposeIsFinishWork, PayloadStatus DEF Compose
    <3>3. CASE step' = "broken"
      BY <2>3, <3>3, WorkingIsStutter DEF Compose
    <3> QED
      BY <2>3, <3>2, <3>3 DEF Compose
  <2>4. CASE Post
    BY <2>4, PostIsPost DEF Post
  <2>5. CASE FallSilent
    BY <2>5, SilenceIsSilence DEF FallSilent, RunInv, Steps, Ends, Before
  <2> QED
    BY <2>1, <2>2, <2>3, <2>4, <2>5 DEF Next, Progress
<1> QED
  BY <1>1, RunInvariant, PTL DEF Spec, RunSpec
=============================================================================
