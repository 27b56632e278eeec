-------------------------- MODULE DownloadsProofs --------------------------
(***************************************************************************)
(* What is proved of the download manager, for any number of tasks, parts  *)
(* and sessions: until a CDN token expires its books are right, no part is *)
(* lost or asked for twice, and what waits for its hash is asked about     *)
(* (Downloads).  What a handler calls is an operator from record to        *)
(* record, so that the invariant is one of the record, and each operator   *)
(* has a lemma that says what it leaves of it.                             *)
(***************************************************************************)
EXTENDS Downloads, FiniteSetTheorems, SequenceTheorems, TLAPS

-----------------------------------------------------------------------------
(* The invariant of the manager's record.                                  *)

Entry == [task : Tasks, prio : -1..1]
Session == [requested : Int, max : StartWaited..MaxWaited]
Request == [task : Tasks, part : Parts, session : Nat,
            kind : Kinds, amount : Nat, over : BOOLEAN]
Manager == [queue : Seq(Entry), generation : BOOLEAN, sessions : Seq(Session),
            total : Int, kill : BOOLEAN, sent : SUBSET Request,
            unchecked : [Tasks -> SUBSET PartIn(Nat)],
            posted : SUBSET Tasks, cdn : SUBSET Tasks, wanted : [Tasks -> SUBSET Parts]]

(* Nothing is on a session that there is not.                              *)
Ranged(d) ==
    /\ Len(d.sessions) \in 1..MaxSessions
    /\ \A r \in d.sent : r.session \in 1..Len(d.sessions)
    /\ \A t \in Tasks : \A u \in d.unchecked[t] : u.session \in 1..Len(d.sessions)

InSession(S, i) == {r \in S : r.session = i}

(* The counts, those of session i too high by x while it is removed.       *)
Booked(d, i, x) ==
    /\ IsFiniteSet(d.sent)
    /\ d.total = Cardinality(d.sent)
    /\ \A j \in 1..Len(d.sessions) :
         d.sessions[j].requested = Cardinality(InSession(d.sent, j)) + (IF j = i THEN x ELSE 0)
    /\ d.kill => d.sent = {}

Reached(d) == \A t \in Tasks : HaveSentRequests(d, t) => InQueue(d, t)

QueuedOnce(d) ==
    \A j, n \in DOMAIN d.queue : d.queue[j].task = d.queue[n].task => j = n

(* Each part is asked for once, and those for hashes are of a part that    *)
(* waits for its hash, which is otherwise not asked for.                   *)
OneByOne(d) ==
    /\ \A r, s \in d.sent : r.task = s.task /\ r.part = s.part => r = s
    /\ \A r, s \in d.sent :
         r.task = s.task /\ r.kind = "hashes" /\ s.kind = "hashes" => r = s
    /\ \A r \in d.sent :
         r.kind = "hashes" <=> \E u \in d.unchecked[r.task] : u.part = r.part
    /\ \A t \in Tasks : \A u, v \in d.unchecked[t] : u.part = v.part => u = v
    /\ \A r \in d.sent : r.part \notin d.wanted[r.task]
    /\ \A t \in Tasks : \A u \in d.unchecked[t] : u.part \notin d.wanted[t]

(* What is asked for at a CDN, and what elsewhere.                         *)
AtCDN(d) ==
    /\ \A r \in d.sent : IF r.task \in d.cdn THEN r.kind \in {"cdn", "reupload", "hashes"}
                                             ELSE r.kind \in {"file", "expired"}
    /\ \A t \in Tasks \ d.cdn : d.unchecked[t] = {}

(* No request of task t is over, and it has nothing that waits for its hash *)
(* and is not asked about.                                                 *)
AskedFor(d, t) ==
    /\ \A r \in SentOf(d, t) : ~r.over
    /\ d.unchecked[t] # {} => t \in d.posted \/ \E r \in SentOf(d, t) : r.kind = "hashes"

Asked == \A t \in Tasks : stage[t] = "failed" \/ AskedFor(m, t)

(* What e has and d has not was just sent.                                 *)
Fresh(d, e) == \A r \in e.sent : r \in d.sent \/ ~r.over

Sane(d, i, x) ==
    /\ d \in Manager /\ Ranged(d) /\ Booked(d, i, x)
    /\ Reached(d) /\ QueuedOnce(d) /\ OneByOne(d) /\ AtCDN(d)

(* Where the parts of file t are at each stage of it, those of done in it. *)
PlacedAt(d, t, at, done) ==
    /\ done \cap (PartsInHand(d, t) \cup d.wanted[t]) = {}
    /\ at = "new" => d.wanted[t] = Parts /\ done = {} /\ ~InQueue(d, t)
    /\ at = "on" => Parts = d.wanted[t] \cup PartsInHand(d, t) \cup done
    /\ at \in {"done", "failed", "gone"} =>
         /\ PartsInHand(d, t) = {}
         /\ d.wanted[t] = {} \/ ~InQueue(d, t)
    /\ at = "done" =>
         IF t \in Files THEN done = Parts ELSE Parts \ {NumParts} \subseteq done

Sound ==
    /\ known \in [Tasks -> SUBSET Parts] /\ fed \in [Tasks -> SUBSET Parts]
    /\ stage \in [Tasks -> {"new", "on", "done", "failed", "gone"}]
    /\ priority \in [Loaders -> 0..1]
    /\ Sane(m, 0, 0) /\ Asked
    /\ \A t \in Files \cup Preloads : PlacedAt(m, t, stage[t], fed[t])

Safe == tokens \in Nat /\ (tokens = 0 => Sound)

(* No more is out than all sessions together should have: sessions' maxima *)
(* do not bound requests for hashes and those that moved.                  *)
NotOverloaded == m.total <= MaxWaited * MaxSessions

-----------------------------------------------------------------------------
(* Induction, for the recursive functions of the model: a number that is   *)
(* not in S would leave more numbers out than there are.                   *)

LEMMA Induction ==
    ASSUME NEW S, 0 \in S, \A n \in Nat : n \in S => n + 1 \in S
    PROVE  \A n \in Nat : n \in S
<1> SUFFICES ASSUME NEW k \in Nat, k \notin S PROVE FALSE
    OBVIOUS
<1> DEFINE T == {n \in 0..k : n \notin S}
           f == [n \in T |-> n - 1]
<1>1. IsFiniteSet(T)
  <2>1. IsFiniteSet(0..k)
      BY FS_Interval
  <2> QED  BY <2>1, FS_Subset
<1>2. k \in T
    OBVIOUS
<1>3. f \in [T -> T \ {k}]
  <2> SUFFICES ASSUME NEW n \in T PROVE n - 1 \in T \ {k}
      OBVIOUS
  <2>1. n \in Nat /\ n # 0
      OBVIOUS
  <2>2. n - 1 \in Nat /\ (n - 1) + 1 = n
      BY <2>1
  <2>3. n - 1 \notin S
      BY <2>2
  <2> QED  BY <2>1, <2>3
<1>4. IsFiniteSet(T \ {k}) /\ Cardinality(T \ {k}) = Cardinality(T) - 1 /\ Cardinality(T) \in Nat
    BY <1>1, <1>2, FS_RemoveElement, FS_CardinalityType
<1>5. Cardinality(T \ {k}) < Cardinality(T)
    BY <1>4
<1>6. PICK x \in T, y \in T : x # y /\ f[x] = f[y]
  <2> HIDE DEF T, f
  <2> QED  BY <1>1, <1>3, <1>4, <1>5, FS_PigeonHole
<1> QED
    BY <1>6

LEMMA Smallest ==
    ASSUME NEW S \in SUBSET Nat, S # {}
    PROVE  \E k \in S : \A n \in S : k <= n
<1> SUFFICES ASSUME \A k \in S : \E n \in S : n < k PROVE FALSE
    OBVIOUS
<1> DEFINE T == {n \in Nat : \A k \in 0..n : k \notin S}
<1>1. 0 \in T
    OBVIOUS
<1>2. \A n \in Nat : n \in T => n + 1 \in T
  <2> SUFFICES ASSUME NEW n \in Nat, n \in T, n + 1 \in S PROVE FALSE
      OBVIOUS
  <2>1. PICK k \in S : k < n + 1
      OBVIOUS
  <2> QED  BY <2>1
<1>3. \A n \in Nat : n \in T
  <2> HIDE DEF T
  <2> QED  BY <1>1, <1>2, Induction
<1>4. PICK k \in S : TRUE
    OBVIOUS
<1>5. k \in Nat /\ k \in 0..k
    OBVIOUS
<1>6. k \notin S
    BY <1>3, <1>5
<1> QED
    BY <1>6, <1>4

LEMMA MinIsSmallest ==
    ASSUME NEW S \in SUBSET Nat, S # {}
    PROVE  Min(S) \in S /\ \A n \in S : Min(S) <= n
BY Smallest DEF Min

-----------------------------------------------------------------------------
(* The recursive functions: each exists, and is its definition at every    *)
(* step.                                                                   *)

LEMMA SendNextSteps ==
    ASSUME NEW d
    PROVE  \E after : /\ after[0] = d
                      /\ \A n \in 1..(MaxSessions * MaxWaited) :
                            after[n] = TrySendNextPart(after[n - 1])
                      /\ CheckSendNext(d) = after[MaxSessions * MaxWaited]
<1> DEFINE K == MaxSessions * MaxWaited
           Is(g, N) == g = [n \in 0..N |->
                          IF n = 0 THEN d
                          ELSE CHOOSE e \in {TrySendNextPart(b) : b \in {g[n - 1]}} : TRUE]
           S == {N \in Nat : \E g : Is(g, N)}
<1>0. K \in Nat
    BY SessionsAssumption
<1>1. 0 \in S
  <2> DEFINE g == [n \in 0..0 |-> d]
  <2>1. Is(g, 0)
      OBVIOUS
  <2> QED  BY <2>1
<1>2. \A N \in Nat : N \in S => N + 1 \in S
  <2> SUFFICES ASSUME NEW N \in Nat, NEW g, Is(g, N) PROVE \E h : Is(h, N + 1)
      OBVIOUS
  <2> DEFINE last == CHOOSE e \in {TrySendNextPart(b) : b \in {g[N]}} : TRUE
             h == [n \in 0..(N + 1) |-> IF n = N + 1 THEN last ELSE g[n]]
  <2>1. h = [n \in 0..(N + 1) |->
                IF n = 0 THEN d
                ELSE CHOOSE e \in {TrySendNextPart(b) : b \in {h[n - 1]}} : TRUE]
    <3> SUFFICES ASSUME NEW n \in 0..(N + 1)
                 PROVE  h[n] = IF n = 0 THEN d
                               ELSE CHOOSE e \in {TrySendNextPart(b) : b \in {h[n - 1]}} : TRUE
        OBVIOUS
    <3>1. CASE n = N + 1
      <4>1. n - 1 = N /\ n # 0 /\ h[N] = g[N]
          BY <3>1
      <4> QED  BY <3>1, <4>1
    <3>2. CASE n # N + 1
      <4>1. n \in 0..N /\ h[n] = g[n]
          BY <3>2
      <4>2. n # 0 => h[n - 1] = g[n - 1]
          BY <4>1
      <4> QED  BY <4>1, <4>2
    <3> QED  BY <3>1, <3>2
  <2> HIDE DEF h
  <2> QED  BY <2>1
<1>3. \E g : Is(g, K)
  <2>1. \A N \in Nat : N \in S
    <3> HIDE DEF S
    <3> QED  BY <1>1, <1>2, Induction
  <2> QED  BY <2>1, <1>0
<1> DEFINE after == CHOOSE g : Is(g, K)
<1>4. Is(after, K)
    BY <1>3
<1>5. CheckSendNext(d) = after[K]
    BY DEF CheckSendNext
<1> HIDE DEF after
<1>6. after[0] = d
    BY <1>4, <1>0
<1>7. ASSUME NEW n \in 1..K PROVE after[n] = TrySendNextPart(after[n - 1])
  <2>1. n \in 0..K /\ n # 0
      BY <1>0
  <2>2. after[n] = CHOOSE e \in {TrySendNextPart(b) : b \in {after[n - 1]}} : TRUE
      BY <1>4, <2>1
  <2> QED  BY <2>2
<1> QED
    BY <1>5, <1>6, <1>7

(* A property of finite sets that every one has if it has it without one   *)
(* of its elements.                                                        *)
LEMMA SetInduction ==
    ASSUME NEW X, IsFiniteSet(X), NEW F, {} \in F,
           \A T \in SUBSET X : T # {} /\ (\A r \in T : T \ {r} \in F) => T \in F
    PROVE  X \in F
<1> DEFINE S == {N \in Nat : \A T \in SUBSET X : Cardinality(T) = N => T \in F}
<1>0. /\ \A T \in SUBSET X : IsFiniteSet(T) /\ Cardinality(T) \in Nat
      /\ \A T \in SUBSET X : Cardinality(T) = 0 <=> T = {}
      /\ \A T \in SUBSET X : \A r \in T : Cardinality(T \ {r}) = Cardinality(T) - 1
    BY FS_CardinalityType, FS_Subset, FS_EmptySet, FS_RemoveElement
<1>1. 0 \in S
    BY <1>0
<1>2. \A N \in Nat : N \in S => N + 1 \in S
  <2> SUFFICES ASSUME NEW N \in Nat, N \in S, NEW T \in SUBSET X, Cardinality(T) = N + 1
               PROVE  T \in F
      OBVIOUS
  <2>1. T # {}
      BY <1>0
  <2>3. \A q \in T : T \ {q} \in F
      BY <1>0
  <2> QED  BY <2>1, <2>3
<1>3. \A N \in Nat : N \in S
  <2> HIDE DEF S
  <2> QED  BY <1>1, <1>2, Induction
<1> QED
    BY <1>0, <1>3

RedirectedStepwise(after, d, S) ==
    /\ after[{}] = d
    /\ \A T \in SUBSET S : T # {} => \E r \in T : after[T] = Redirect(after[T \ {r}], r)
    /\ RedirectAll(d, S) = after[S]

LEMMA RedirectSteps ==
    ASSUME NEW d, NEW S, IsFiniteSet(S)
    PROVE  \E after : RedirectedStepwise(after, d, S)
<1> SUFFICES \E after :
        /\ after[{}] = d
        /\ \A T \in SUBSET S : T # {} => \E r \in T : after[T] = Redirect(after[T \ {r}], r)
        /\ RedirectAll(d, S) = after[S]
    BY Zenon DEF RedirectedStepwise
<1> DEFINE Upto(N) == {T \in SUBSET S : Cardinality(T) <= N}
           Step(g, T) == IF T = {} THEN d
                         ELSE LET r == CHOOSE r \in T : TRUE
                              IN  Redirect(g[T \ {r}], r)
           Is(g, N) == g = [T \in Upto(N) |-> Step(g, T)]
           K == Cardinality(S)
           Sizes == {N \in Nat : \E g : Is(g, N)}
<1>0. /\ K \in Nat
      /\ \A T \in SUBSET S : IsFiniteSet(T) /\ Cardinality(T) \in Nat /\ Cardinality(T) <= K
      /\ \A T \in SUBSET S : Cardinality(T) = 0 <=> T = {}
      /\ \A T \in SUBSET S : \A r \in T : Cardinality(T \ {r}) = Cardinality(T) - 1
    BY FS_CardinalityType, FS_Subset, FS_EmptySet, FS_RemoveElement
<1>1. 0 \in Sizes
  <2> DEFINE g == [T \in Upto(0) |-> d]
  <2>1. Is(g, 0)
    <3> SUFFICES ASSUME NEW T \in Upto(0) PROVE T = {}
        OBVIOUS
    <3> QED  BY <1>0
  <2> QED  BY <2>1
<1>2. ASSUME NEW N \in Nat, NEW g, Is(g, N)
      PROVE  \E h : Is(h, N + 1)
  <2> DEFINE h == [T \in Upto(N + 1) |-> IF T \in Upto(N) THEN g[T] ELSE Step(g, T)]
  <2>1. ASSUME NEW T \in Upto(N + 1) PROVE h[T] = Step(h, T)
    <3>1. ASSUME NEW r \in T PROVE T \ {r} \in Upto(N) /\ h[T \ {r}] = g[T \ {r}]
      <4>1. T \ {r} \in SUBSET S /\ Cardinality(T \ {r}) <= N /\ Cardinality(T \ {r}) <= N + 1
          BY <1>0
      <4> QED  BY <4>1
    <3>2. Step(g, T) = Step(h, T)
      <4>1. CASE T = {}
          BY <4>1
      <4>2. CASE T # {}
        <5> DEFINE r == CHOOSE r \in T : TRUE
        <5>1. r \in T
            BY <4>2
        <5>2. h[T \ {r}] = g[T \ {r}]
            BY <3>1, <5>1
        <5> HIDE DEF h
        <5> QED  BY <4>2, <5>2
      <4> QED  BY <4>1, <4>2
    <3>3. h[T] = IF T \in Upto(N) THEN g[T] ELSE Step(g, T)
        OBVIOUS
    <3> HIDE DEF h, Step, Upto
    <3>4. T \in Upto(N) => g[T] = Step(g, T)
        BY <1>2
    <3> QED  BY <3>2, <3>3, <3>4
  <2>2. Is(h, N + 1)
    <3>1. h = [T \in Upto(N + 1) |-> h[T]]
        OBVIOUS
    <3> HIDE DEF h, Step, Upto
    <3> QED  BY <2>1, <3>1
  <2> QED  BY <2>2
<1>3. \E g : Is(g, K)
  <2> HIDE DEF Is
  <2>1. \A N \in Nat : N \in Sizes => N + 1 \in Sizes
      BY <1>2
  <2>2. \A N \in Nat : N \in Sizes
    <3> HIDE DEF Sizes
    <3> QED  BY <1>1, <2>1, Induction
  <2> QED  BY <2>2, <1>0
<1>4. Upto(K) = SUBSET S
    BY <1>0
<1> DEFINE after == CHOOSE g : g = [T \in SUBSET S |-> Step(g, T)]
<1>5. after = [T \in SUBSET S |-> Step(after, T)]
  <2>1. PICK g : g = [T \in SUBSET S |-> Step(g, T)]
    <3> HIDE DEF Step
    <3> QED  BY <1>3, <1>4
  <2> HIDE DEF Step
  <2> QED  BY <2>1
<1>6. RedirectAll(d, S) = after[S]
    BY DEF RedirectAll
<1> HIDE DEF after
<1>7. after[{}] = d
    BY <1>5
<1>8. ASSUME NEW T \in SUBSET S, T # {}
      PROVE  \E r \in T : after[T] = Redirect(after[T \ {r}], r)
  <2>1. after[T] = Step(after, T)
      BY <1>5
  <2>2. (CHOOSE r \in T : TRUE) \in T
      BY <1>8
  <2> QED  BY <1>8, <2>1, <2>2
<1> QED
    BY <1>6, <1>7, <1>8

MadeAgainStepwise(after, d, S) ==
    /\ after[{}] = d
    /\ \A T \in SUBSET S : T # {} =>
         \E r \in T : after[T] = MakeRequest(after[T \ {r}], r.task, r.part, r.session)
    /\ MakeAgain(d, S) = after[S]

LEMMA MakeAgainSteps ==
    ASSUME NEW d, NEW S, IsFiniteSet(S)
    PROVE  \E after : MadeAgainStepwise(after, d, S)
<1> SUFFICES \E after :
        /\ after[{}] = d
        /\ \A T \in SUBSET S : T # {} =>
             \E r \in T : after[T] = MakeRequest(after[T \ {r}], r.task, r.part, r.session)
        /\ MakeAgain(d, S) = after[S]
    BY Zenon DEF MadeAgainStepwise
<1> DEFINE Upto(N) == {T \in SUBSET S : Cardinality(T) <= N}
           Step(g, T) == IF T = {} THEN d
                         ELSE LET r == CHOOSE r \in T : TRUE
                              IN  MakeRequest(g[T \ {r}], r.task, r.part, r.session)
           Is(g, N) == g = [T \in Upto(N) |-> Step(g, T)]
           K == Cardinality(S)
           Sizes == {N \in Nat : \E g : Is(g, N)}
<1>0. /\ K \in Nat
      /\ \A T \in SUBSET S : IsFiniteSet(T) /\ Cardinality(T) \in Nat /\ Cardinality(T) <= K
      /\ \A T \in SUBSET S : Cardinality(T) = 0 <=> T = {}
      /\ \A T \in SUBSET S : \A r \in T : Cardinality(T \ {r}) = Cardinality(T) - 1
    BY FS_CardinalityType, FS_Subset, FS_EmptySet, FS_RemoveElement
<1>1. 0 \in Sizes
  <2> DEFINE g == [T \in Upto(0) |-> d]
  <2>1. Is(g, 0)
    <3> SUFFICES ASSUME NEW T \in Upto(0) PROVE T = {}
        OBVIOUS
    <3> QED  BY <1>0
  <2> QED  BY <2>1
<1>2. ASSUME NEW N \in Nat, NEW g, Is(g, N)
      PROVE  \E h : Is(h, N + 1)
  <2> DEFINE h == [T \in Upto(N + 1) |-> IF T \in Upto(N) THEN g[T] ELSE Step(g, T)]
  <2>1. ASSUME NEW T \in Upto(N + 1) PROVE h[T] = Step(h, T)
    <3>1. ASSUME NEW r \in T PROVE T \ {r} \in Upto(N) /\ h[T \ {r}] = g[T \ {r}]
      <4>1. T \ {r} \in SUBSET S /\ Cardinality(T \ {r}) <= N /\ Cardinality(T \ {r}) <= N + 1
          BY <1>0
      <4> QED  BY <4>1
    <3>2. Step(g, T) = Step(h, T)
      <4>1. CASE T = {}
          BY <4>1
      <4>2. CASE T # {}
        <5> DEFINE r == CHOOSE r \in T : TRUE
        <5>1. r \in T
            BY <4>2
        <5>2. h[T \ {r}] = g[T \ {r}]
            BY <3>1, <5>1
        <5> HIDE DEF h
        <5> QED  BY <4>2, <5>2
      <4> QED  BY <4>1, <4>2
    <3>3. h[T] = IF T \in Upto(N) THEN g[T] ELSE Step(g, T)
        OBVIOUS
    <3> HIDE DEF h, Step, Upto
    <3>4. T \in Upto(N) => g[T] = Step(g, T)
        BY <1>2
    <3> QED  BY <3>2, <3>3, <3>4
  <2>2. Is(h, N + 1)
    <3>1. h = [T \in Upto(N + 1) |-> h[T]]
        OBVIOUS
    <3> HIDE DEF h, Step, Upto
    <3> QED  BY <2>1, <3>1
  <2> QED  BY <2>2
<1>3. \E g : Is(g, K)
  <2> HIDE DEF Is
  <2>1. \A N \in Nat : N \in Sizes => N + 1 \in Sizes
      BY <1>2
  <2>2. \A N \in Nat : N \in Sizes
    <3> HIDE DEF Sizes
    <3> QED  BY <1>1, <2>1, Induction
  <2> QED  BY <2>2, <1>0
<1>4. Upto(K) = SUBSET S
    BY <1>0
<1> DEFINE after == CHOOSE g : g = [T \in SUBSET S |-> Step(g, T)]
<1>5. after = [T \in SUBSET S |-> Step(after, T)]
  <2>1. PICK g : g = [T \in SUBSET S |-> Step(g, T)]
    <3> HIDE DEF Step
    <3> QED  BY <1>3, <1>4
  <2> HIDE DEF Step
  <2> QED  BY <2>1
<1>6. MakeAgain(d, S) = after[S]
    BY DEF MakeAgain
<1> HIDE DEF after
<1>7. after[{}] = d
    BY <1>5
<1>8. ASSUME NEW T \in SUBSET S, T # {}
      PROVE  \E r \in T : after[T] = MakeRequest(after[T \ {r}], r.task, r.part, r.session)
  <2>1. after[T] = Step(after, T)
      BY <1>5
  <2>2. (CHOOSE r \in T : TRUE) \in T
      BY <1>8
  <2> QED  BY <1>8, <2>1, <2>2
<1> QED
    BY <1>6, <1>7, <1>8

-----------------------------------------------------------------------------
(* A request more, and requests fewer.                                     *)

(* What sending and finishing requests leave alone.                        *)
Kept(d, e) ==
    /\ e.queue = d.queue /\ e.unchecked = d.unchecked /\ e.posted = d.posted
    /\ e.cdn = d.cdn /\ e.wanted = d.wanted /\ Len(e.sessions) = Len(d.sessions)

(* ... and what they change: one request more, or those of S fewer.        *)
Adds(d, e, t, p, i, kind) ==
    /\ e.total = d.total + 1
    /\ \E r \in Request :
         /\ r.task = t /\ r.part = p /\ r.session = i /\ r.kind = kind /\ ~r.over
         /\ e.sent = d.sent \cup {r} /\ r \notin d.sent

Drops(d, e, S) == e.sent = d.sent \ S

LEMMA CountsAreNat ==
    ASSUME NEW i, NEW x \in Nat, NEW d \in Manager, Ranged(d), Booked(d, i, x)
    PROVE  /\ d.total \in Nat
           /\ \A j \in 1..Len(d.sessions) :
                /\ IsFiniteSet(InSession(d.sent, j))
                /\ Cardinality(InSession(d.sent, j)) \in Nat
                /\ d.sessions[j].requested \in Nat
<1>1. IsFiniteSet(d.sent) /\ d.total = Cardinality(d.sent)
    BY DEF Booked
<1>2. ASSUME NEW j \in 1..Len(d.sessions)
      PROVE  IsFiniteSet(InSession(d.sent, j)) /\ Cardinality(InSession(d.sent, j)) \in Nat
  <2>1. InSession(d.sent, j) \subseteq d.sent
      BY DEF InSession
  <2> QED  BY <1>1, <2>1, FS_Subset, FS_CardinalityType
<1>3. ASSUME NEW j \in 1..Len(d.sessions) PROVE d.sessions[j].requested \in Nat
    BY <1>2, <1>3 DEF Booked
<1> QED
    BY <1>1, <1>2, <1>3, FS_CardinalityType

(* What placeSentRequest changes.                                          *)
LEMMA PlaceFields ==
    ASSUME NEW d \in Manager, NEW t \in Tasks, NEW p \in Parts,
           NEW i \in 1..Len(d.sessions), NEW kind \in Kinds, d.sessions[i].requested \in Nat,
           NEW e, e = PlaceSentRequest(d, t, p, i, kind)
    PROVE  /\ e \in Manager
           /\ e.queue = d.queue /\ e.unchecked = d.unchecked /\ e.posted = d.posted
           /\ e.cdn = d.cdn /\ e.wanted = d.wanted
           /\ e.total = d.total + 1 /\ ~e.kill
           /\ Len(e.sessions) = Len(d.sessions)
           /\ \A j \in 1..Len(d.sessions) :
                /\ e.sessions[j].max = d.sessions[j].max
                /\ e.sessions[j].requested =
                     IF j = i THEN d.sessions[j].requested + 1 ELSE d.sessions[j].requested
           /\ \E r \in Request :
                /\ r.task = t /\ r.part = p /\ r.session = i /\ r.kind = kind /\ ~r.over
                /\ e.sent = d.sent \cup {r}
<1> DEFINE amount == d.sessions[i].requested + 1
           r == [task |-> t, part |-> p, session |-> i, kind |-> kind,
                 amount |-> amount, over |-> FALSE]
           sessions == [d.sessions EXCEPT ![i].requested = amount]
           no == FALSE
<1>0. d.sessions \in Seq(Session) /\ d.total \in Int /\ d.sent \in SUBSET Request
    BY DEF Manager
<1>1. amount \in Nat
    OBVIOUS
<1>2. no \in BOOLEAN
    OBVIOUS
<1>3. r \in Request
    BY <1>1 DEF Request
<1>4. /\ sessions \in Seq(Session) /\ Len(sessions) = Len(d.sessions)
      /\ \A j \in 1..Len(d.sessions) :
           /\ sessions[j].max = d.sessions[j].max
           /\ sessions[j].requested =
                IF j = i THEN d.sessions[j].requested + 1 ELSE d.sessions[j].requested
  <2>1. \A j \in 1..Len(d.sessions) : d.sessions[j] \in Session
      BY <1>0
  <2>2. [d.sessions[i] EXCEPT !.requested = amount] \in Session
      BY <1>1, <2>1 DEF Session
  <2>3. sessions = [j \in 1..Len(d.sessions) |->
                      IF j = i THEN [d.sessions[i] EXCEPT !.requested = amount] ELSE d.sessions[j]]
      BY <1>0
  <2>4. sessions \in [1..Len(d.sessions) -> Session]
      BY <2>1, <2>2, <2>3
  <2>5. sessions \in Seq(Session) /\ Len(sessions) = Len(d.sessions)
      BY <2>4, <1>0
  <2>6. ASSUME NEW j \in 1..Len(d.sessions)
        PROVE  /\ sessions[j].max = d.sessions[j].max
               /\ sessions[j].requested =
                    IF j = i THEN d.sessions[j].requested + 1 ELSE d.sessions[j].requested
      BY <2>1, <2>3 DEF Session
  <2> QED  BY <2>5, <2>6
<1>5. e = [d EXCEPT !.sessions = sessions, !.total = @ + 1, !.kill = no, !.sent = @ \cup {r}]
    BY DEF PlaceSentRequest, Manager
<1>6. r.task = t /\ r.part = p /\ r.session = i /\ r.kind = kind /\ ~r.over
    OBVIOUS
<1> HIDE DEF r, sessions, amount
<1>7. e \in Manager
  <2>1. d.sent \cup {r} \in SUBSET Request /\ d.total + 1 \in Int
      BY <1>0, <1>3
  <2> HIDE DEF no
  <2> QED  BY <1>2, <1>4, <1>5, <2>1 DEF Manager
<1>8. /\ e.queue = d.queue /\ e.unchecked = d.unchecked /\ e.posted = d.posted
      /\ e.cdn = d.cdn /\ e.wanted = d.wanted /\ e.total = d.total + 1 /\ ~e.kill
      /\ e.sessions = sessions /\ e.sent = d.sent \cup {r}
    BY <1>5 DEF Manager
<1> QED
    BY <1>3, <1>4, <1>6, <1>7, <1>8

(* What finishSentRequest leaves.                                          *)
LEMMA FinishFields ==
    ASSUME NEW k, NEW x \in Nat, NEW d \in Manager, Ranged(d), Booked(d, k, x),
           NEW S, S \subseteq d.sent, NEW e, e = FinishRequests(d, S)
    PROVE  /\ e \in Manager /\ Ranged(e) /\ Booked(e, k, x)
           /\ Kept(d, e) /\ e.sent = d.sent \ S
<1> DEFINE N == Len(d.sessions)
           In(j) == Cardinality({r \in S : r.session = j})
           left == [j \in DOMAIN d.sessions |-> [d.sessions[j] EXCEPT !.requested = @ - In(j)]]
           sessions == SubSeq(left, 1, N)
           idle == \A j \in DOMAIN sessions : sessions[j].requested <= 0
           kill == d.kill \/ (S # {} /\ idle)
           total == d.total - Cardinality(S)
<1>0. /\ d.sessions \in Seq(Session) /\ d.total \in Int /\ d.sent \in SUBSET Request
      /\ N \in Nat /\ DOMAIN d.sessions = 1..N
  <2>1. d.sessions \in Seq(Session) /\ d.total \in Int /\ d.sent \in SUBSET Request
      BY DEF Manager
  <2> QED  BY <2>1
<1>1. IsFiniteSet(d.sent) /\ d.total = Cardinality(d.sent) /\ IsFiniteSet(S) /\ Cardinality(S) \in Nat
    BY FS_Subset, FS_CardinalityType DEF Booked
<1>2. e = [d EXCEPT !.sessions = sessions, !.total = total, !.kill = kill, !.sent = @ \ S]
    BY DEF FinishRequests, Manager
<1>3. /\ IsFiniteSet(d.sent \ S)
      /\ total = Cardinality(d.sent \ S)
  <2>1. d.sent \cap S = S
      OBVIOUS
  <2>2. /\ IsFiniteSet(d.sent \ S)
        /\ Cardinality(d.sent \ S) = Cardinality(d.sent) - Cardinality(d.sent \cap S)
      BY <1>1, FS_Difference
  <2> QED  BY <1>1, <2>1, <2>2
<1>4. ASSUME NEW j
      PROVE  /\ In(j) \in Nat
             /\ Cardinality(InSession(d.sent \ S, j)) \in Nat
             /\ Cardinality(InSession(d.sent \ S, j)) = Cardinality(InSession(d.sent, j)) - In(j)
             /\ Cardinality(InSession(d.sent \ S, j)) = 0 => InSession(d.sent \ S, j) = {}
  <2>1. /\ IsFiniteSet(InSession(d.sent, j)) /\ IsFiniteSet(InSession(S, j))
        /\ IsFiniteSet(InSession(d.sent \ S, j))
      BY <1>1, <1>3, FS_Subset DEF InSession
  <2>2. InSession(d.sent, j) \cap InSession(S, j) = InSession(S, j)
      BY DEF InSession
  <2>3. InSession(d.sent, j) \ InSession(S, j) = InSession(d.sent \ S, j)
      BY DEF InSession
  <2>4. In(j) = Cardinality(InSession(S, j))
      BY DEF InSession
  <2>5. Cardinality(InSession(d.sent, j) \ InSession(S, j))
          = Cardinality(InSession(d.sent, j)) - Cardinality(InSession(d.sent, j) \cap InSession(S, j))
      BY <2>1, FS_Difference
  <2>6. /\ Cardinality(InSession(d.sent \ S, j)) \in Nat /\ In(j) \in Nat
        /\ Cardinality(InSession(d.sent \ S, j)) = 0 => InSession(d.sent \ S, j) = {}
      BY <2>1, <2>4, FS_CardinalityType, FS_EmptySet
  <2> QED  BY <2>2, <2>3, <2>4, <2>5, <2>6
<1>5. /\ sessions \in Seq(Session) /\ Len(sessions) = N /\ DOMAIN sessions = 1..N
      /\ \A j \in 1..N : sessions[j].requested = d.sessions[j].requested - In(j)
  <2>1. \A j \in 1..N : d.sessions[j] \in Session
      BY <1>0
  <2> HIDE DEF In
  <2>2. \A j \in 1..N : In(j) \in Int
      BY <1>4
  <2>3. ASSUME NEW j \in 1..N
        PROVE  /\ left[j] \in Session /\ left[j].requested = d.sessions[j].requested - In(j)
    <3> DEFINE less == d.sessions[j].requested - In(j)
    <3>1. left[j] = [d.sessions[j] EXCEPT !.requested = less]
        BY <1>0
    <3>2. d.sessions[j] \in Session /\ less \in Int
        BY <2>1, <2>2 DEF Session
    <3> HIDE DEF less, left
    <3>3. left[j] \in Session /\ left[j].requested = less
        BY <3>1, <3>2 DEF Session
    <3> QED  BY <3>3 DEF less
  <2>4. left \in [1..N -> Session]
      BY <1>0, <2>3
  <2> HIDE DEF left
  <2>5. left \in Seq(Session) /\ Len(left) = N
      BY <2>4, <1>0
  <2>6. sessions = left
      BY <2>4, <2>5, <1>0
  <2> QED  BY <2>3, <2>4, <2>5, <2>6
<1>6. kill \in BOOLEAN /\ total \in Int
    BY <1>0, <1>1 DEF Manager
<1>7. ASSUME NEW j \in 1..N
      PROVE  sessions[j].requested
               = Cardinality(InSession(d.sent \ S, j)) + (IF j = k THEN x ELSE 0)
  <2> DEFINE more == IF j = k THEN x ELSE 0
  <2>1. /\ d.sessions[j].requested = Cardinality(InSession(d.sent, j)) + more
        /\ Cardinality(InSession(d.sent, j)) \in Nat
      BY CountsAreNat DEF Booked
  <2>2. more \in Nat
      OBVIOUS
  <2>3. /\ In(j) \in Nat
        /\ Cardinality(InSession(d.sent \ S, j)) = Cardinality(InSession(d.sent, j)) - In(j)
      BY <1>4
  <2>4. sessions[j].requested = d.sessions[j].requested - In(j)
      BY <1>5
  <2> HIDE DEF sessions, In, more
  <2>5. sessions[j].requested = Cardinality(InSession(d.sent \ S, j)) + more
      BY <2>1, <2>2, <2>3, <2>4
  <2> QED  BY <2>5 DEF more
<1>8. kill => d.sent \ S = {}
  <2>1. CASE d.kill
      BY <2>1 DEF Booked
  <2>2. CASE idle
    <3> SUFFICES ASSUME NEW r \in d.sent \ S PROVE FALSE
        OBVIOUS
    <3> DEFINE j == r.session
    <3>1. j \in 1..N
        BY DEF Ranged
    <3>2. sessions[j].requested <= 0
        BY <2>2, <3>1, <1>5
    <3>3. r \in InSession(d.sent \ S, j)
        BY DEF InSession
    <3> DEFINE more == IF j = k THEN x ELSE 0
    <3>4. more \in Nat
        OBVIOUS
    <3>5. sessions[j].requested = Cardinality(InSession(d.sent \ S, j)) + more
        BY <3>1, <1>7
    <3>6. Cardinality(InSession(d.sent \ S, j)) \in Nat
        BY <1>4
    <3> HIDE DEF j, sessions, In, more
    <3>7. Cardinality(InSession(d.sent \ S, j)) = 0
        BY <3>2, <3>4, <3>5, <3>6
    <3> QED  BY <3>3, <3>7, <1>4
  <2> QED  BY <2>1, <2>2
<1> HIDE DEF N, In, left, sessions, idle, kill, total
<1>9. /\ e \in Manager
      /\ e.queue = d.queue /\ e.unchecked = d.unchecked /\ e.posted = d.posted
      /\ e.cdn = d.cdn /\ e.wanted = d.wanted /\ e.sent = d.sent \ S
      /\ e.sessions = sessions /\ e.total = total /\ e.kill = kill
  <2>1. d.sent \ S \in SUBSET Request
      BY <1>0
  <2> QED  BY <1>2, <1>5, <1>6, <2>1 DEF Manager
<1>10. Ranged(e)
  <2>1. Len(e.sessions) = Len(d.sessions)
      BY <1>5, <1>9 DEF N
  <2> QED  BY <1>9, <2>1 DEF Ranged
<1>11. Booked(e, k, x)
  <2>1. Len(e.sessions) = N
      BY <1>5, <1>9
  <2> QED  BY <1>3, <1>7, <1>8, <1>9, <2>1 DEF Booked
<1> QED
    BY <1>5, <1>9, <1>10, <1>11 DEF N, Kept

(* A request that may be placed leaves the record sane: its part is asked  *)
(* for nowhere else, and its kind is one of the task's.                    *)
Placeable(d, t, p, i, kind) ==
    /\ t \in Tasks /\ p \in Parts /\ i \in 1..Len(d.sessions) /\ kind \in Kinds
    /\ InQueue(d, t) /\ p \notin d.wanted[t]
    /\ \A r \in d.sent : r.task = t => r.part # p
    /\ IF kind = "hashes"
       THEN /\ \E u \in d.unchecked[t] : u.part = p
            /\ \A r \in d.sent : r.task = t => r.kind # "hashes"
       ELSE \A u \in d.unchecked[t] : u.part # p
    /\ IF t \in d.cdn THEN kind \in {"cdn", "reupload", "hashes"} ELSE kind \in {"file", "expired"}

LEMMA Place ==
    ASSUME NEW k, NEW x \in Nat, NEW d, Sane(d, k, x),
           NEW t, NEW p, NEW i, NEW kind, Placeable(d, t, p, i, kind),
           NEW e, e = PlaceSentRequest(d, t, p, i, kind)
    PROVE  Sane(e, k, x) /\ Kept(d, e) /\ Adds(d, e, t, p, i, kind)
<1>0. /\ d \in Manager /\ Ranged(d) /\ Booked(d, k, x)
      /\ t \in Tasks /\ p \in Parts /\ i \in 1..Len(d.sessions) /\ kind \in Kinds
    BY DEF Sane, Placeable
<1>1. \A j \in 1..Len(d.sessions) :
         Cardinality(InSession(d.sent, j)) \in Nat /\ d.sessions[j].requested \in Nat
    BY <1>0, CountsAreNat
<1>a. d.sessions[i].requested \in Nat
    BY <1>0, <1>1
<1>2. /\ e \in Manager
      /\ e.queue = d.queue /\ e.unchecked = d.unchecked /\ e.posted = d.posted
      /\ e.cdn = d.cdn /\ e.wanted = d.wanted
      /\ e.total = d.total + 1 /\ ~e.kill
      /\ Len(e.sessions) = Len(d.sessions)
      /\ \A j \in 1..Len(d.sessions) :
           e.sessions[j].requested =
             IF j = i THEN d.sessions[j].requested + 1 ELSE d.sessions[j].requested
    BY <1>0, <1>a, PlaceFields
<1>3. PICK r \in Request :
         /\ r.task = t /\ r.part = p /\ r.session = i /\ r.kind = kind /\ ~r.over
         /\ e.sent = d.sent \cup {r}
    BY <1>0, <1>a, PlaceFields
<1>4. r \notin d.sent
    BY <1>3 DEF Placeable
<1>5. Ranged(e)
  <2>1. \A q \in e.sent : q.session \in 1..Len(d.sessions)
      BY <1>0, <1>3 DEF Ranged
  <2> QED  BY <1>0, <1>2, <2>1 DEF Ranged
<1>6. Booked(e, k, x)
  <2>0. IsFiniteSet(d.sent)
      BY <1>0 DEF Booked
  <2>1. IsFiniteSet(e.sent) /\ Cardinality(e.sent) = Cardinality(d.sent) + 1
    <3>1. /\ IsFiniteSet(d.sent \cup {r})
          /\ Cardinality(d.sent \cup {r}) = Cardinality(d.sent) + 1
        BY <1>4, <2>0, FS_AddElement
    <3> QED  BY <1>3, <3>1
  <2>2. e.total = Cardinality(e.sent)
      BY <1>0, <1>2, <2>1 DEF Booked
  <2>3. ASSUME NEW j \in 1..Len(d.sessions)
        PROVE  e.sessions[j].requested = Cardinality(InSession(e.sent, j)) + (IF j = k THEN x ELSE 0)
    <3> DEFINE more == IF j = k THEN x ELSE 0
    <3>0. more \in Nat
        OBVIOUS
    <3>1. /\ d.sessions[j].requested = Cardinality(InSession(d.sent, j)) + more
          /\ Cardinality(InSession(d.sent, j)) \in Nat
        BY <1>0, <1>1 DEF Booked
    <3> HIDE DEF more
    <3>2. CASE j = i
      <4>1. InSession(e.sent, j) = InSession(d.sent, j) \cup {r} /\ r \notin InSession(d.sent, j)
          BY <1>3, <1>4, <3>2 DEF InSession
      <4>2. IsFiniteSet(InSession(d.sent, j))
          BY <2>0, FS_Subset DEF InSession
      <4>3. Cardinality(InSession(e.sent, j)) = Cardinality(InSession(d.sent, j)) + 1
          BY <4>1, <4>2, FS_AddElement
      <4>4. e.sessions[j].requested = d.sessions[j].requested + 1
          BY <1>2, <3>2
      <4>5. e.sessions[j].requested = Cardinality(InSession(e.sent, j)) + more
          BY <3>0, <3>1, <4>3, <4>4
      <4> QED  BY <4>5 DEF more
    <3>3. CASE j # i
      <4>1. InSession(e.sent, j) = InSession(d.sent, j)
          BY <1>3, <3>3 DEF InSession
      <4>2. e.sessions[j].requested = d.sessions[j].requested
          BY <1>2, <3>3
      <4>3. e.sessions[j].requested = Cardinality(InSession(e.sent, j)) + more
          BY <3>1, <4>1, <4>2
      <4> QED  BY <4>3 DEF more
    <3> QED  BY <3>2, <3>3
  <2> QED  BY <1>2, <2>1, <2>2, <2>3 DEF Booked
<1>7. Reached(e)
  <2> SUFFICES ASSUME NEW s \in Tasks, HaveSentRequests(e, s) PROVE InQueue(e, s)
      BY DEF Reached
  <2>1. CASE s = t
      BY <1>2, <2>1 DEF Placeable, InQueue
  <2>2. CASE s # t
    <3>1. HaveSentRequests(d, s)
        BY <1>2, <1>3, <2>2 DEF HaveSentRequests, SentOf
    <3> QED  BY <1>2, <3>1 DEF Sane, Reached, InQueue
  <2> QED  BY <2>1, <2>2
<1>8. QueuedOnce(e)
    BY <1>2 DEF Sane, QueuedOnce
<1>9. OneByOne(e)
  <2>1. OneByOne(d)
      BY DEF Sane
  <2>2. \A q, s \in e.sent : q.task = s.task /\ q.part = s.part => q = s
      BY <1>3, <2>1 DEF OneByOne, Placeable
  <2>3. \A q, s \in e.sent :
          q.task = s.task /\ q.kind = "hashes" /\ s.kind = "hashes" => q = s
      BY <1>3, <2>1 DEF OneByOne, Placeable
  <2>4. \A q \in e.sent : q.kind = "hashes" <=> \E u \in e.unchecked[q.task] : u.part = q.part
    <3>1. r.kind = "hashes" <=> \E u \in d.unchecked[r.task] : u.part = r.part
        BY <1>3 DEF Placeable
    <3>2. \A q \in d.sent : q.kind = "hashes" <=> \E u \in d.unchecked[q.task] : u.part = q.part
        BY <2>1 DEF OneByOne
    <3> QED  BY <1>2, <1>3, <3>1, <3>2
  <2>5. \A q \in e.sent : q.part \notin e.wanted[q.task]
      BY <1>2, <1>3, <2>1 DEF OneByOne, Placeable
  <2> QED  BY <1>2, <2>1, <2>2, <2>3, <2>4, <2>5 DEF OneByOne
<1>10. AtCDN(e)
  <2>1. \A q \in e.sent : IF q.task \in d.cdn THEN q.kind \in {"cdn", "reupload", "hashes"}
                                              ELSE q.kind \in {"file", "expired"}
      BY <1>3 DEF Sane, AtCDN, Placeable
  <2> QED  BY <1>2, <2>1 DEF Sane, AtCDN
<1>11. Sane(e, k, x)
    BY <1>2, <1>5, <1>6, <1>7, <1>8, <1>9, <1>10 DEF Sane
<1> QED
    BY <1>2, <1>3, <1>4, <1>11 DEF Kept, Adds

LEMMA Finish ==
    ASSUME NEW k, NEW x \in Nat, NEW d, Sane(d, k, x),
           NEW S, S \subseteq d.sent, NEW e, e = FinishRequests(d, S)
    PROVE  Sane(e, k, x) /\ Kept(d, e) /\ Drops(d, e, S)
<1>0. d \in Manager /\ Ranged(d) /\ Booked(d, k, x)
    BY DEF Sane
<1>1. /\ e \in Manager /\ Ranged(e) /\ Booked(e, k, x)
      /\ Kept(d, e) /\ e.sent = d.sent \ S
    BY <1>0, FinishFields
<1>2. Reached(e)
    BY <1>1 DEF Sane, Reached, HaveSentRequests, SentOf, InQueue, Kept
<1>3. QueuedOnce(e)
    BY <1>1 DEF Sane, QueuedOnce, Kept
<1>4. OneByOne(e)
  <2>1. OneByOne(d)
      BY DEF Sane
  <2>2. \A q \in e.sent : q.kind = "hashes" <=> \E u \in e.unchecked[q.task] : u.part = q.part
      BY <1>1, <2>1 DEF OneByOne, Kept
  <2> QED  BY <1>1, <2>1, <2>2 DEF OneByOne, Kept
<1>5. AtCDN(e)
    BY <1>1 DEF Sane, AtCDN, Kept
<1>6. Sane(e, k, x)
    BY <1>1, <1>2, <1>3, <1>4, <1>5 DEF Sane
<1> QED
    BY <1>1, <1>6 DEF Drops

-----------------------------------------------------------------------------
(* What is to be asked for changes, and part after part is.                *)

Wanting(d, t, W) == [d EXCEPT !.wanted[t] = W]

OnlyWanted(d, e, t, W) ==
    /\ e.queue = d.queue /\ e.sent = d.sent /\ e.unchecked = d.unchecked
    /\ e.posted = d.posted /\ e.cdn = d.cdn /\ e.sessions = d.sessions /\ e.total = d.total
    /\ e.wanted[t] = W /\ \A s \in Tasks \ {t} : e.wanted[s] = d.wanted[s]

LEMMA SetWanted ==
    ASSUME NEW k, NEW x \in Nat, NEW d, Sane(d, k, x), NEW t \in Tasks,
           NEW W, W \subseteq Parts, W \cap PartsInHand(d, t) = {},
           NEW e, e = Wanting(d, t, W)
    PROVE  Sane(e, k, x) /\ OnlyWanted(d, e, t, W)
<1> DEFINE wanted == [d.wanted EXCEPT ![t] = W]
<1>0. d \in Manager /\ d.wanted \in [Tasks -> SUBSET Parts]
    BY DEF Sane, Manager
<1>1. /\ wanted \in [Tasks -> SUBSET Parts]
      /\ wanted[t] = W /\ \A s \in Tasks \ {t} : wanted[s] = d.wanted[s]
    BY <1>0
<1>2. e = [d EXCEPT !.wanted = wanted]
    BY <1>0 DEF Manager, Wanting
<1> HIDE DEF wanted
<1>3. /\ e \in Manager
      /\ e.queue = d.queue /\ e.sent = d.sent /\ e.unchecked = d.unchecked
      /\ e.posted = d.posted /\ e.cdn = d.cdn /\ e.sessions = d.sessions
      /\ e.total = d.total /\ (e.kill <=> d.kill) /\ e.wanted = wanted
    BY <1>0, <1>1, <1>2 DEF Manager
<1>4. Ranged(e) /\ Reached(e) /\ QueuedOnce(e) /\ AtCDN(e)
    BY <1>3 DEF Sane, Ranged, Reached, HaveSentRequests, SentOf, InQueue, QueuedOnce, AtCDN
<1>5. Booked(e, k, x)
    BY <1>3 DEF Sane, Booked
<1>6. OneByOne(e)
  <2>1. OneByOne(d)
      BY DEF Sane
  <2>2. ASSUME NEW r \in d.sent PROVE r.part \notin wanted[r.task]
    <3>1. r.task \in Tasks
        BY <1>0 DEF Manager, Request
    <3>2. CASE r.task = t
      <4>1. r.part \in PartsInHand(d, t)
          BY <3>2 DEF PartsInHand, SentOf
      <4> QED  BY <1>1, <3>2, <4>1
    <3>3. CASE r.task # t
        BY <1>1, <2>1, <3>1, <3>3 DEF OneByOne
    <3> QED  BY <3>2, <3>3
  <2>3. ASSUME NEW s \in Tasks, NEW u \in d.unchecked[s] PROVE u.part \notin wanted[s]
    <3>1. CASE s = t
      <4>1. u.part \in PartsInHand(d, t)
          BY <3>1 DEF PartsInHand
      <4> QED  BY <1>1, <3>1, <4>1
    <3>2. CASE s # t
        BY <1>1, <2>1, <3>2 DEF OneByOne
    <3> QED  BY <3>1, <3>2
  <2> QED  BY <1>3, <2>1, <2>2, <2>3 DEF OneByOne
<1>7. Sane(e, k, x)
    BY <1>3, <1>4, <1>5, <1>6 DEF Sane
<1> QED
    BY <1>1, <1>3, <1>7 DEF OnlyWanted

(* What sending more parts leaves: nothing is given up, what is not to be  *)
(* asked for any more is in hand, and only tasks in the queue are asked.   *)
Ahead(d, e) ==
    /\ e.queue = d.queue /\ e.unchecked = d.unchecked /\ e.posted = d.posted /\ e.cdn = d.cdn
    /\ d.sent \subseteq e.sent /\ Fresh(d, e)
    /\ \A t \in Tasks :
         /\ e.wanted[t] \subseteq d.wanted[t]
         /\ e.wanted[t] \cup PartsInHand(e, t) = d.wanted[t] \cup PartsInHand(d, t)
         /\ ~InQueue(d, t) => e.wanted[t] = d.wanted[t] /\ SentOf(e, t) = SentOf(d, t)

LEMMA AheadIsTransitive ==
    ASSUME NEW d, NEW e, NEW f, Ahead(d, e), Ahead(e, f)
    PROVE  Ahead(d, f)
<1>1. ASSUME NEW t \in Tasks
      PROVE  /\ f.wanted[t] \subseteq d.wanted[t]
             /\ f.wanted[t] \cup PartsInHand(f, t) = d.wanted[t] \cup PartsInHand(d, t)
             /\ ~InQueue(d, t) => f.wanted[t] = d.wanted[t] /\ SentOf(f, t) = SentOf(d, t)
  <2>1. InQueue(e, t) <=> InQueue(d, t)
      BY DEF Ahead, InQueue
  <2> QED  BY <2>1 DEF Ahead
<1>2. Fresh(d, f)
    BY DEF Ahead, Fresh
<1> QED
    BY <1>1, <1>2 DEF Ahead

LEMMA LoadsPart ==
    ASSUME NEW k, NEW x \in Nat, NEW d, Sane(d, k, x), NEW t \in Tasks, InQueue(d, t),
           d.wanted[t] # {}, NEW i \in 1..Len(d.sessions), NEW e, e = LoadPart(d, t, i)
    PROVE  Sane(e, k, x) /\ Ahead(d, e)
<1> DEFINE p == Min(d.wanted[t])
           W == d.wanted[t] \ {p}
           f == Wanting(d, t, W)
           kind == IF t \in f.cdn THEN "cdn" ELSE "file"
<1>0. d \in Manager /\ d.wanted[t] \in SUBSET Parts /\ Parts \subseteq Nat
    BY DEF Sane, Manager, Parts
<1>1. p \in d.wanted[t] /\ p \in Parts
    BY <1>0, MinIsSmallest
<1>2. e = PlaceSentRequest(f, t, p, i, kind)
    BY <1>0 DEF LoadPart, MakeRequest, Manager, Wanting
<1>3. OneByOne(d)
    BY DEF Sane
<1>4. d.wanted[t] \cap PartsInHand(d, t) = {}
    BY <1>3 DEF OneByOne, PartsInHand, SentOf
<1>5. W \subseteq Parts /\ W \cap PartsInHand(d, t) = {}
    BY <1>0, <1>4
<1> HIDE DEF p
<1>a. Sane(f, k, x) /\ OnlyWanted(d, f, t, W)
  <2> HIDE DEF f, W
  <2>1. f = Wanting(d, t, W)
      BY DEF f
  <2> QED  BY <1>5, <2>1, SetWanted
<1> HIDE DEF f
<1>6. /\ Sane(f, k, x)
      /\ f.queue = d.queue /\ f.sent = d.sent /\ f.unchecked = d.unchecked
      /\ f.posted = d.posted /\ f.cdn = d.cdn /\ f.sessions = d.sessions
      /\ f.wanted[t] = W /\ \A s \in Tasks \ {t} : f.wanted[s] = d.wanted[s]
    BY <1>a DEF OnlyWanted
<1>7. Placeable(f, t, p, i, kind)
  <2>1. InQueue(f, t)
      BY <1>6 DEF InQueue
  <2>2. \A r \in d.sent : r.task = t => r.part # p
      BY <1>1, <1>3 DEF OneByOne
  <2>3. \A u \in d.unchecked[t] : u.part # p
      BY <1>1, <1>3 DEF OneByOne
  <2>4. kind \in {"cdn", "file"} /\ kind \in Kinds /\ kind # "hashes" /\ (t \in f.cdn <=> kind = "cdn")
      BY DEF Kinds
  <2> HIDE DEF kind
  <2> QED  BY <1>1, <1>6, <2>1, <2>2, <2>3, <2>4 DEF Placeable
<1> HIDE DEF kind
<1>8. Sane(e, k, x) /\ Kept(f, e) /\ Adds(f, e, t, p, i, kind)
    BY <1>2, <1>6, <1>7, Place
<1>9. PICK r \in Request : r.task = t /\ r.part = p /\ ~r.over /\ e.sent = f.sent \cup {r}
    BY <1>8 DEF Adds
<1>10. Ahead(d, e)
  <2>1. /\ e.queue = d.queue /\ e.unchecked = d.unchecked /\ e.posted = d.posted /\ e.cdn = d.cdn
        /\ e.sent = d.sent \cup {r} /\ e.wanted[t] = W
        /\ \A s \in Tasks \ {t} : e.wanted[s] = d.wanted[s]
      BY <1>6, <1>8, <1>9 DEF Kept
  <2>2. ASSUME NEW s \in Tasks
        PROVE  /\ e.wanted[s] \subseteq d.wanted[s]
               /\ e.wanted[s] \cup PartsInHand(e, s) = d.wanted[s] \cup PartsInHand(d, s)
               /\ ~InQueue(d, s) => e.wanted[s] = d.wanted[s] /\ SentOf(e, s) = SentOf(d, s)
    <3>1. CASE s = t
      <4>1. SentOf(e, t) = SentOf(d, t) \cup {r}
          BY <1>9, <2>1 DEF SentOf
      <4>2. PartsInHand(e, t) = PartsInHand(d, t) \cup {p}
          BY <1>9, <2>1, <4>1 DEF PartsInHand
      <4> QED  BY <1>1, <2>1, <3>1, <4>2
    <3>2. CASE s # t
      <4>1. SentOf(e, s) = SentOf(d, s)
          BY <1>9, <2>1, <3>2 DEF SentOf
      <4>2. PartsInHand(e, s) = PartsInHand(d, s)
          BY <2>1, <4>1 DEF PartsInHand
      <4> QED  BY <2>1, <3>2, <4>1, <4>2
    <3> QED  BY <3>1, <3>2
  <2>3. Fresh(d, e)
      BY <1>9, <2>1 DEF Fresh
  <2> QED  BY <2>1, <2>2, <2>3 DEF Ahead
<1> QED
    BY <1>8, <1>10

LEMMA TrySends ==
    ASSUME NEW k, NEW x \in Nat, NEW d, Sane(d, k, x), NEW e, e = TrySendNextPart(d)
    PROVE  Sane(e, k, x) /\ Ahead(d, e)
<1> DEFINE ready == Ready(d)
           best == Best(d)
           n == Min(ready)
           i == CHOOSE i \in best : TRUE
<1>0. /\ d.queue \in Seq(Entry) /\ DOMAIN d.queue = 1..Len(d.queue) /\ DOMAIN d.sessions = 1..Len(d.sessions)
  <2>1. d.queue \in Seq(Entry) /\ d.sessions \in Seq(Session)
      BY DEF Sane, Manager
  <2> QED  BY <2>1
<1>1. CASE best = {} \/ ready = {}
  <2>1. e = d
      BY <1>1 DEF TrySendNextPart
  <2> QED  BY <2>1 DEF Ahead, Fresh
<1>2. CASE best # {} /\ ready # {}
  <2>1. e = LoadPart(d, d.queue[n].task, i)
      BY <1>2 DEF TrySendNextPart
  <2>2. ready \in SUBSET Nat /\ ready \subseteq DOMAIN d.queue
      BY <1>0 DEF Ready
  <2>3. n \in ready
    <3> HIDE DEF ready
    <3> QED  BY <1>2, <2>2, MinIsSmallest
  <2>4. n \in DOMAIN d.queue /\ d.wanted[d.queue[n].task] # {}
      BY <2>3 DEF Ready
  <2>5. d.queue[n] \in Entry
      BY <1>0, <2>4
  <2>6. d.queue[n].task \in Tasks /\ InQueue(d, d.queue[n].task)
      BY <2>4, <2>5 DEF Entry, InQueue
  <2>7. i \in 1..Len(d.sessions)
      BY <1>0, <1>2 DEF Best
  <2> HIDE DEF n, i
  <2> QED  BY <2>1, <2>4, <2>6, <2>7, LoadsPart
<1> QED
    BY <1>1, <1>2

LEMMA ChecksSendNext ==
    ASSUME NEW k, NEW x \in Nat, NEW d, Sane(d, k, x), NEW e, e = CheckSendNext(d)
    PROVE  Sane(e, k, x) /\ Ahead(d, e)
<1> DEFINE K == MaxSessions * MaxWaited
<1>0. K \in Nat
    BY SessionsAssumption
<1>1. PICK after : /\ after[0] = d
                   /\ \A n \in 1..K : after[n] = TrySendNextPart(after[n - 1])
                   /\ CheckSendNext(d) = after[K]
    BY SendNextSteps
<1> DEFINE S == {n \in Nat : n <= K => Sane(after[n], k, x) /\ Ahead(d, after[n])}
<1>2. 0 \in S
  <2>1. Ahead(d, d)
      BY DEF Ahead, Fresh
  <2> QED  BY <1>1, <2>1
<1>3. \A n \in Nat : n \in S => n + 1 \in S
  <2> SUFFICES ASSUME NEW n \in Nat, n \in S, n + 1 <= K
               PROVE  Sane(after[n + 1], k, x) /\ Ahead(d, after[n + 1])
      OBVIOUS
  <2>1. Sane(after[n], k, x) /\ Ahead(d, after[n])
      BY <1>0
  <2>2. n + 1 \in 1..K /\ (n + 1) - 1 = n
      BY <1>0
  <2>3. after[n + 1] = TrySendNextPart(after[n])
      BY <1>1, <2>2
  <2>4. Sane(after[n + 1], k, x) /\ Ahead(after[n], after[n + 1])
      BY <2>1, <2>3, TrySends
  <2> QED  BY <2>1, <2>4, AheadIsTransitive
<1>4. \A n \in Nat : n \in S
  <2> HIDE DEF S
  <2> QED  BY <1>2, <1>3, Induction
<1>5. Sane(after[K], k, x) /\ Ahead(d, after[K])
    BY <1>0, <1>4
<1> QED
    BY <1>1, <1>5

-----------------------------------------------------------------------------
(* The queue.                                                              *)

TaskIn(q, t) == \E n \in DOMAIN q : q[n].task = t
Once(q) == \A j, n \in DOMAIN q : q[j].task = q[n].task => j = n

LEMMA RemovedAt ==
    ASSUME NEW S, NEW s \in Seq(S), NEW n \in 1..Len(s), NEW r, r = RemoveAt(s, n)
    PROVE  /\ r \in Seq(S) /\ Len(r) = Len(s) - 1
           /\ \A j \in 1..Len(r) : r[j] = IF j < n THEN s[j] ELSE s[j + 1]
<1> DEFINE a == SubSeq(s, 1, n - 1)
           b == SubSeq(s, n + 1, Len(s))
<1>0. Len(s) \in Nat /\ n \in Int /\ 1 <= n /\ n <= Len(s) /\ \A j \in 1..Len(s) : s[j] \in S
    OBVIOUS
<1>1. /\ a \in Seq(S) /\ Len(a) = n - 1
      /\ \A j \in 1..(n - 1) : a[j] = s[j]
  <2>1. \A j \in 1..(n - 1) : s[j] \in S
      BY <1>0
  <2>2. n - 1 \in Int
      BY <1>0
  <2>3. /\ a \in Seq(S) /\ Len(a) = IF 1 <= n - 1 THEN (n - 1) - 1 + 1 ELSE 0
        /\ \A j \in 1..((n - 1) - 1 + 1) : a[j] = s[1 + j - 1]
      BY <2>1, <2>2, SubSeqProperties
  <2> HIDE DEF a
  <2> QED  BY <2>3, <1>0
<1>2. /\ b \in Seq(S) /\ Len(b) = Len(s) - n
      /\ \A j \in 1..(Len(s) - n) : b[j] = s[n + j]
  <2>1. \A j \in (n + 1)..Len(s) : s[j] \in S
      BY <1>0
  <2>2. n + 1 \in Int
      BY <1>0
  <2>3. /\ b \in Seq(S) /\ Len(b) = IF n + 1 <= Len(s) THEN Len(s) - (n + 1) + 1 ELSE 0
        /\ \A j \in 1..(Len(s) - (n + 1) + 1) : b[j] = s[(n + 1) + j - 1]
      BY <1>0, <2>1, <2>2, SubSeqProperties
  <2> HIDE DEF b
  <2> QED  BY <2>3, <1>0
<1>3. r = a \o b
    BY DEF RemoveAt
<1> HIDE DEF a, b
<1>4. /\ r \in Seq(S) /\ Len(r) = Len(a) + Len(b)
      /\ \A j \in 1..(Len(a) + Len(b)) : r[j] = IF j <= Len(a) THEN a[j] ELSE b[j - Len(a)]
  <2> DEFINE w == a \o b
  <2>1. /\ w \in Seq(S) /\ Len(w) = Len(a) + Len(b)
        /\ \A j \in 1..(Len(a) + Len(b)) : w[j] = IF j <= Len(a) THEN a[j] ELSE b[j - Len(a)]
      BY <1>1, <1>2, ConcatProperties
  <2> QED  BY <1>3, <2>1
<1>5. Len(r) = Len(s) - 1
    BY <1>0, <1>1, <1>2, <1>4
<1>6. ASSUME NEW j \in 1..Len(r) PROVE r[j] = IF j < n THEN s[j] ELSE s[j + 1]
  <2>1. CASE j < n
      BY <1>0, <1>1, <1>2, <1>4, <1>5, <2>1
  <2>2. CASE j >= n
    <3>1. r[j] = b[j - (n - 1)]
        BY <1>0, <1>1, <1>2, <1>4, <1>5, <2>2
    <3>2. j - (n - 1) \in 1..(Len(s) - n) /\ n + (j - (n - 1)) = j + 1
        BY <1>0, <1>5, <2>2
    <3> QED  BY <1>0, <1>2, <2>2, <3>1, <3>2
  <2> QED  BY <1>0, <2>1, <2>2
<1> QED
    BY <1>4, <1>5, <1>6

LEMMA InsertedAt ==
    ASSUME NEW S, NEW s \in Seq(S), NEW n \in 1..(Len(s) + 1), NEW v \in S,
           NEW r, r = InsertAt(s, n, v)
    PROVE  /\ r \in Seq(S) /\ Len(r) = Len(s) + 1
           /\ \A j \in 1..Len(r) : r[j] = IF j < n THEN s[j] ELSE IF j = n THEN v ELSE s[j - 1]
<1> DEFINE a == SubSeq(s, 1, n - 1)
           b == SubSeq(s, n, Len(s))
           c == a \o <<v>>
<1>0. Len(s) \in Nat /\ n \in Int /\ 1 <= n /\ n <= Len(s) + 1 /\ \A j \in 1..Len(s) : s[j] \in S
    OBVIOUS
<1>1. /\ a \in Seq(S) /\ Len(a) = n - 1
      /\ \A j \in 1..(n - 1) : a[j] = s[j]
  <2>1. \A j \in 1..(n - 1) : s[j] \in S
      BY <1>0
  <2>2. n - 1 \in Int
      BY <1>0
  <2>3. /\ a \in Seq(S) /\ Len(a) = IF 1 <= n - 1 THEN (n - 1) - 1 + 1 ELSE 0
        /\ \A j \in 1..((n - 1) - 1 + 1) : a[j] = s[1 + j - 1]
      BY <2>1, <2>2, SubSeqProperties
  <2> HIDE DEF a
  <2> QED  BY <2>3, <1>0
<1>2. /\ b \in Seq(S) /\ Len(b) = Len(s) - n + 1
      /\ \A j \in 1..(Len(s) - n + 1) : b[j] = s[n + j - 1]
  <2>1. \A j \in n..Len(s) : s[j] \in S
      BY <1>0
  <2>3. /\ b \in Seq(S) /\ Len(b) = IF n <= Len(s) THEN Len(s) - n + 1 ELSE 0
        /\ \A j \in 1..(Len(s) - n + 1) : b[j] = s[n + j - 1]
      BY <1>0, <2>1, SubSeqProperties
  <2> HIDE DEF b
  <2> QED  BY <2>3, <1>0
<1>3. r = c \o b
    BY DEF InsertAt
<1>4. <<v>> \in Seq(S) /\ Len(<<v>>) = 1 /\ <<v>>[1] = v
    OBVIOUS
<1> HIDE DEF a, b
<1>5. /\ c \in Seq(S) /\ Len(c) = n
      /\ \A j \in 1..n : c[j] = IF j < n THEN s[j] ELSE v
  <2> DEFINE w == <<v>>
  <2>1. w \in Seq(S) /\ Len(w) = 1 /\ w[1] = v
      BY <1>4
  <2>2. c = a \o w
      OBVIOUS
  <2> HIDE DEF c, w
  <2>3. /\ c \in Seq(S) /\ Len(c) = Len(a) + Len(w)
        /\ \A j \in 1..(Len(a) + Len(w)) : c[j] = IF j <= Len(a) THEN a[j] ELSE w[j - Len(a)]
      BY <1>1, <2>1, <2>2, ConcatProperties
  <2>4. ASSUME NEW j \in 1..n PROVE c[j] = IF j < n THEN s[j] ELSE v
    <3>1. CASE j < n
        BY <1>0, <1>1, <2>1, <2>3, <3>1
    <3>2. CASE j = n
      <4>1. c[j] = w[j - Len(a)] /\ j - Len(a) = 1
          BY <1>0, <1>1, <2>1, <2>3, <3>2
      <4> QED  BY <1>0, <2>1, <3>2, <4>1
    <3> QED  BY <1>0, <3>1, <3>2
  <2> QED  BY <1>0, <1>1, <2>1, <2>3, <2>4
<1> HIDE DEF c
<1>6. /\ r \in Seq(S) /\ Len(r) = Len(c) + Len(b)
      /\ \A j \in 1..(Len(c) + Len(b)) : r[j] = IF j <= Len(c) THEN c[j] ELSE b[j - Len(c)]
    BY <1>2, <1>3, <1>5, ConcatProperties
<1>7. Len(r) = Len(s) + 1
    BY <1>0, <1>2, <1>5, <1>6
<1>8. ASSUME NEW j \in 1..Len(r)
      PROVE  r[j] = IF j < n THEN s[j] ELSE IF j = n THEN v ELSE s[j - 1]
  <2>1. CASE j <= n
      BY <1>0, <1>2, <1>5, <1>6, <1>7, <2>1
  <2>2. CASE j > n
    <3>1. r[j] = b[j - n]
        BY <1>0, <1>2, <1>5, <1>6, <1>7, <2>2
    <3>2. j - n \in 1..(Len(s) - n + 1) /\ n + (j - n) - 1 = j - 1
        BY <1>0, <1>7, <2>2
    <3>3. b[j - n] = s[n + (j - n) - 1]
        BY <1>2, <3>2
    <3> QED  BY <1>0, <2>2, <3>1, <3>2, <3>3
  <2> QED  BY <1>0, <2>1, <2>2
<1> QED
    BY <1>6, <1>7, <1>8

LEMMA RemovesTask ==
    ASSUME NEW q \in Seq(Entry), Once(q), NEW n \in 1..Len(q), NEW r, r = RemoveAt(q, n)
    PROVE  /\ r \in Seq(Entry) /\ Once(r)
           /\ \A s : TaskIn(r, s) <=> TaskIn(q, s) /\ s # q[n].task
<1> DEFINE at(j) == IF j < n THEN j ELSE j + 1
<1>0. Len(q) \in Nat /\ n \in Int /\ 1 <= n /\ n <= Len(q) /\ DOMAIN q = 1..Len(q)
    OBVIOUS
<1>1. /\ r \in Seq(Entry) /\ Len(r) = Len(q) - 1
      /\ \A j \in 1..Len(r) : r[j] = IF j < n THEN q[j] ELSE q[j + 1]
    BY RemovedAt
<1>2. /\ DOMAIN r = 1..Len(r)
      /\ \A j \in 1..Len(r) : at(j) \in 1..Len(q) /\ at(j) # n /\ r[j] = q[at(j)]
  <2>1. DOMAIN r = 1..Len(r)
      BY <1>1
  <2>2. ASSUME NEW j \in 1..Len(r) PROVE at(j) \in 1..Len(q) /\ at(j) # n /\ r[j] = q[at(j)]
      BY <1>0, <1>1
  <2> QED  BY <2>1, <2>2
<1>3. \A i, j \in 1..Len(r) : at(i) = at(j) => i = j
    BY <1>0, <1>1
<1>4. Once(r)
  <2> SUFFICES ASSUME NEW i \in 1..Len(r), NEW j \in 1..Len(r), r[i].task = r[j].task
               PROVE  i = j
      BY <1>2 DEF Once
  <2> HIDE DEF at
  <2>1. at(i) \in DOMAIN q /\ at(j) \in DOMAIN q /\ q[at(i)].task = q[at(j)].task
      BY <1>0, <1>2
  <2>2. at(i) = at(j)
      BY <2>1 DEF Once
  <2> QED  BY <1>3, <2>2
<1>5. ASSUME NEW s, TaskIn(r, s) PROVE TaskIn(q, s) /\ s # q[n].task
  <2>1. PICK j \in 1..Len(r) : r[j].task = s
      BY <1>2, <1>5 DEF TaskIn
  <2> HIDE DEF at
  <2>2. at(j) \in DOMAIN q /\ at(j) # n /\ q[at(j)].task = s /\ n \in DOMAIN q
      BY <1>0, <1>2, <2>1
  <2> QED  BY <2>2 DEF TaskIn, Once
<1>6. ASSUME NEW s, TaskIn(q, s), s # q[n].task PROVE TaskIn(r, s)
  <2>1. PICK i \in 1..Len(q) : q[i].task = s
      BY <1>0, <1>6 DEF TaskIn
  <2>2. i # n
      BY <1>6, <2>1
  <2>3. CASE i < n
    <3>1. i \in 1..Len(r) /\ r[i] = q[i]
        BY <1>0, <1>1, <2>3
    <3> QED  BY <1>2, <2>1, <3>1 DEF TaskIn
  <2>4. CASE i > n
    <3>1. i - 1 \in 1..Len(r) /\ ~(i - 1 < n) /\ (i - 1) + 1 = i
        BY <1>0, <1>1, <2>4
    <3>2. r[i - 1] = q[i]
        BY <1>1, <3>1
    <3> QED  BY <1>2, <2>1, <3>1, <3>2 DEF TaskIn
  <2> QED  BY <1>0, <2>2, <2>3, <2>4
<1> QED
    BY <1>1, <1>4, <1>5, <1>6

LEMMA InsertsTask ==
    ASSUME NEW q \in Seq(Entry), Once(q), NEW n \in 1..(Len(q) + 1), NEW v \in Entry,
           ~TaskIn(q, v.task), NEW r, r = InsertAt(q, n, v)
    PROVE  /\ r \in Seq(Entry) /\ Once(r)
           /\ \A s : TaskIn(r, s) <=> TaskIn(q, s) \/ s = v.task
<1> DEFINE at(j) == IF j < n THEN j ELSE j - 1
<1>0. Len(q) \in Nat /\ n \in Int /\ 1 <= n /\ n <= Len(q) + 1 /\ DOMAIN q = 1..Len(q)
    OBVIOUS
<1>1. /\ r \in Seq(Entry) /\ Len(r) = Len(q) + 1
      /\ \A j \in 1..Len(r) : r[j] = IF j < n THEN q[j] ELSE IF j = n THEN v ELSE q[j - 1]
    BY <1>0, InsertedAt, SMTT(60)
<1>2. /\ DOMAIN r = 1..Len(r) /\ n \in 1..Len(r) /\ r[n] = v
      /\ \A j \in 1..Len(r) : j # n => at(j) \in 1..Len(q) /\ r[j] = q[at(j)]
  <2>1. DOMAIN r = 1..Len(r) /\ n \in 1..Len(r) /\ r[n] = v
      BY <1>0, <1>1
  <2>2. ASSUME NEW j \in 1..Len(r), j # n PROVE at(j) \in 1..Len(q) /\ r[j] = q[at(j)]
    <3>1. at(j) \in 1..Len(q)
        BY <1>0, <1>1, <2>2
    <3>2. CASE j < n
        BY <1>1, <3>2
    <3>3. CASE ~(j < n)
        BY <1>1, <2>2, <3>3
    <3> QED  BY <3>1, <3>2, <3>3
  <2> QED  BY <2>1, <2>2
<1>3. \A i, j \in 1..Len(r) : i # n /\ j # n /\ at(i) = at(j) => i = j
    BY <1>0, <1>1
<1>4. Once(r)
  <2> SUFFICES ASSUME NEW i \in 1..Len(r), NEW j \in 1..Len(r), r[i].task = r[j].task
               PROVE  i = j
      BY <1>2 DEF Once
  <2> HIDE DEF at
  <2>1. ASSUME NEW h \in 1..Len(r), h # n PROVE TaskIn(q, r[h].task)
      BY <1>0, <1>2, <2>1 DEF TaskIn
  <2>2. CASE i = n
      BY <1>2, <2>1, <2>2
  <2>3. CASE j = n
      BY <1>2, <2>1, <2>3
  <2>4. CASE i # n /\ j # n
    <3>1. at(i) \in DOMAIN q /\ at(j) \in DOMAIN q /\ q[at(i)].task = q[at(j)].task
        BY <1>0, <1>2, <2>4
    <3>2. at(i) = at(j)
        BY <3>1 DEF Once
    <3> QED  BY <1>3, <2>4, <3>2
  <2> QED  BY <2>2, <2>3, <2>4
<1>5. ASSUME NEW s, TaskIn(r, s) PROVE TaskIn(q, s) \/ s = v.task
  <2>1. PICK j \in 1..Len(r) : r[j].task = s
      BY <1>2, <1>5 DEF TaskIn
  <2> HIDE DEF at
  <2>2. CASE j = n
      BY <1>2, <2>1, <2>2
  <2>3. CASE j # n
      BY <1>0, <1>2, <2>1, <2>3 DEF TaskIn
  <2> QED  BY <2>2, <2>3
<1>6. ASSUME NEW s, TaskIn(q, s) PROVE TaskIn(r, s)
  <2>1. PICK i \in 1..Len(q) : q[i].task = s
      BY <1>0, <1>6 DEF TaskIn
  <2>2. CASE i < n
    <3>1. i \in 1..Len(r) /\ r[i] = q[i]
        BY <1>0, <1>1, <2>2
    <3> QED  BY <1>2, <2>1, <3>1 DEF TaskIn
  <2>3. CASE i >= n
    <3>1. i + 1 \in 1..Len(r) /\ ~(i + 1 < n) /\ i + 1 # n /\ (i + 1) - 1 = i
        BY <1>0, <1>1, <2>3
    <3>2. r[i + 1] = q[i]
        BY <1>1, <3>1
    <3> QED  BY <1>2, <2>1, <3>1, <3>2 DEF TaskIn
  <2> QED  BY <1>0, <2>2, <2>3
<1>7. TaskIn(r, v.task)
    BY <1>2 DEF TaskIn
<1> QED
    BY <1>1, <1>4, <1>5, <1>6, <1>7

Queueing(d, q, g) == [d EXCEPT !.queue = q, !.generation = g]

OnlyQueue(d, e, q) ==
    /\ e.queue = q
    /\ e.sent = d.sent /\ e.unchecked = d.unchecked /\ e.posted = d.posted /\ e.cdn = d.cdn
    /\ e.wanted = d.wanted /\ e.sessions = d.sessions /\ e.total = d.total

LEMMA SetQueue ==
    ASSUME NEW k, NEW x \in Nat, NEW d, Sane(d, k, x), NEW q, q \in Seq(Entry), Once(q),
           \A s \in Tasks : HaveSentRequests(d, s) => TaskIn(q, s),
           NEW g \in BOOLEAN, NEW e, e = Queueing(d, q, g)
    PROVE  Sane(e, k, x) /\ OnlyQueue(d, e, q)
<1>0. d \in Manager
    BY DEF Sane
<1>1. /\ e \in Manager /\ OnlyQueue(d, e, q) /\ (e.kill <=> d.kill)
    BY <1>0 DEF Manager, Queueing, OnlyQueue
<1>2. Ranged(e) /\ AtCDN(e) /\ OneByOne(e)
    BY <1>1 DEF Sane, Ranged, AtCDN, OneByOne, OnlyQueue
<1>3. Booked(e, k, x)
    BY <1>1 DEF Sane, Booked, OnlyQueue
<1>4. QueuedOnce(e)
    BY <1>1 DEF QueuedOnce, Once, OnlyQueue
<1>5. Reached(e)
  <2> SUFFICES ASSUME NEW s \in Tasks, HaveSentRequests(e, s) PROVE InQueue(e, s)
      BY DEF Reached
  <2>1. HaveSentRequests(d, s)
      BY <1>1 DEF HaveSentRequests, SentOf, OnlyQueue
  <2> QED  BY <1>1, <2>1 DEF TaskIn, InQueue, OnlyQueue
<1> QED
    BY <1>1, <1>2, <1>3, <1>4, <1>5 DEF Sane

LEMMA Dequeues ==
    ASSUME NEW d \in Manager, QueuedOnce(d), NEW t \in Tasks
    PROVE  \E q \in Seq(Entry) :
             /\ Once(q) /\ Dequeued(d, t) = Queueing(d, q, d.generation)
             /\ Dequeued(d, t).queue = q
             /\ \A s : TaskIn(q, s) <=> InQueue(d, s) /\ s # t
<1> DEFINE n == CHOOSE n \in DOMAIN d.queue : d.queue[n].task = t
           r == RemoveAt(d.queue, n)
<1>0. d.queue \in Seq(Entry) /\ DOMAIN d.queue = 1..Len(d.queue)
  <2>1. d.queue \in Seq(Entry)
      BY DEF Manager
  <2> QED  BY <2>1
<1>1. Once(d.queue) /\ \A s : TaskIn(d.queue, s) <=> InQueue(d, s)
    BY DEF QueuedOnce, Once, TaskIn, InQueue
<1>2. CASE InQueue(d, t)
  <2>1. n \in 1..Len(d.queue) /\ d.queue[n].task = t
      BY <1>0, <1>2 DEF InQueue
  <2>2. Dequeued(d, t) = [d EXCEPT !.queue = r]
      BY <1>2 DEF Dequeued, Manager
  <2> HIDE DEF n
  <2>3. /\ r \in Seq(Entry) /\ Once(r)
        /\ \A s : TaskIn(r, s) <=> TaskIn(d.queue, s) /\ s # d.queue[n].task
      BY <1>0, <1>1, <2>1, RemovesTask
  <2> HIDE DEF r
  <2>4. Dequeued(d, t) = Queueing(d, r, d.generation) /\ Dequeued(d, t).queue = r
      BY <2>2 DEF Queueing, Manager
  <2> QED  BY <1>1, <2>1, <2>3, <2>4
<1>3. CASE ~InQueue(d, t)
  <2>1. Dequeued(d, t) = d
      BY <1>3 DEF Dequeued
  <2>2. d = Queueing(d, d.queue, d.generation)
      BY DEF Queueing, Manager
  <2> QED  BY <1>0, <1>1, <1>3, <2>1, <2>2
<1> QED
    BY <1>2, <1>3

(* What a change of the queue and sending more parts leave together.       *)
Further(d, e) ==
    /\ e.unchecked = d.unchecked /\ e.posted = d.posted /\ e.cdn = d.cdn
    /\ d.sent \subseteq e.sent /\ Fresh(d, e)
    /\ \A t \in Tasks :
         /\ e.wanted[t] \subseteq d.wanted[t]
         /\ e.wanted[t] \cup PartsInHand(e, t) = d.wanted[t] \cup PartsInHand(d, t)
         /\ ~InQueue(e, t) => e.wanted[t] = d.wanted[t] /\ SentOf(e, t) = SentOf(d, t)

Joins(d, e, t) == \A s \in Tasks : InQueue(e, s) <=> InQueue(d, s) \/ s = t
Leaves(d, e, t) == \A s \in Tasks : InQueue(e, s) <=> InQueue(d, s) /\ s # t

LEMMA AheadOfQueue ==
    ASSUME NEW d, NEW f, NEW e, OnlyQueue(d, f, f.queue), Ahead(f, e)
    PROVE  Further(d, e) /\ \A s : InQueue(e, s) <=> TaskIn(f.queue, s)
<1>1. ASSUME NEW s PROVE InQueue(e, s) <=> TaskIn(f.queue, s)
    BY DEF InQueue, TaskIn, Ahead
<1>2. ASSUME NEW s \in Tasks PROVE SentOf(f, s) = SentOf(d, s) /\ PartsInHand(f, s) = PartsInHand(d, s)
    BY DEF SentOf, PartsInHand, OnlyQueue
<1>3. ASSUME NEW s \in Tasks
      PROVE  /\ e.wanted[s] \subseteq d.wanted[s]
             /\ e.wanted[s] \cup PartsInHand(e, s) = d.wanted[s] \cup PartsInHand(d, s)
             /\ ~InQueue(e, s) => e.wanted[s] = d.wanted[s] /\ SentOf(e, s) = SentOf(d, s)
  <2>1. InQueue(e, s) <=> InQueue(f, s)
      BY <1>1 DEF InQueue, TaskIn
  <2>2. f.wanted = d.wanted
      BY DEF OnlyQueue
  <2> QED  BY <1>2, <2>1, <2>2 DEF Ahead
<1>4. Fresh(d, e)
    BY DEF Ahead, Fresh, OnlyQueue
<1> QED
    BY <1>1, <1>3, <1>4 DEF Further, OnlyQueue, Ahead

LEMMA Enqueues ==
    ASSUME NEW k, NEW x \in Nat, NEW d, Sane(d, k, x), NEW t \in Tasks, NEW prio \in -1..1,
           NEW e, e = Enqueue(d, t, prio)
    PROVE  Sane(e, k, x) /\ Further(d, e) /\ Joins(d, e, t)
<1> DEFINE rest == Dequeued(d, t).queue
           places == {n \in 1..(Len(rest) + 1) : n \in DOMAIN rest => rest[n].prio <= prio}
           n == Min(places)
           v == [task |-> t, prio |-> prio]
           q == InsertAt(rest, n, v)
           yes == TRUE
           f == Queueing(d, q, yes)
<1>0. d \in Manager /\ QueuedOnce(d)
    BY DEF Sane
<1>1. rest \in Seq(Entry) /\ Once(rest) /\ \A s : TaskIn(rest, s) <=> InQueue(d, s) /\ s # t
    BY <1>0, Dequeues
<1>2. e = CheckSendNext(f)
    BY <1>0 DEF Enqueue, PlaceFor, Queueing, Manager
<1> HIDE DEF rest
<1>3. n \in 1..(Len(rest) + 1)
  <2>1. Len(rest) \in Nat /\ DOMAIN rest = 1..Len(rest)
      BY <1>1
  <2>2. Len(rest) + 1 \in places
      BY <2>1
  <2>3. places \in SUBSET Nat /\ places # {}
      BY <2>1, <2>2
  <2>4. n \in places
    <3> HIDE DEF places
    <3> QED  BY <2>3, MinIsSmallest
  <2> HIDE DEF n
  <2> QED  BY <2>4
<1>4. v \in Entry /\ v.task = t
    BY DEF Entry
<1> HIDE DEF n, v, places
<1>5. /\ q \in Seq(Entry) /\ Once(q)
      /\ \A s : TaskIn(q, s) <=> TaskIn(rest, s) \/ s = t
  <2>1. ~TaskIn(rest, v.task)
      BY <1>1, <1>4
  <2>2. /\ q \in Seq(Entry) /\ Once(q)
        /\ \A s : TaskIn(q, s) <=> TaskIn(rest, s) \/ s = v.task
      BY <1>1, <1>3, <1>4, <2>1, InsertsTask
  <2> QED  BY <1>4, <2>2
<1>6. yes \in BOOLEAN
    OBVIOUS
<1> HIDE DEF q, yes
<1>7. \A s \in Tasks : HaveSentRequests(d, s) => TaskIn(q, s)
    BY <1>1, <1>5 DEF Sane, Reached
<1>8. Sane(f, k, x) /\ OnlyQueue(d, f, q)
    BY <1>5, <1>6, <1>7, SetQueue
<1> HIDE DEF f
<1>9. f.queue = q
    BY <1>8 DEF OnlyQueue
<1>10. Sane(e, k, x) /\ Ahead(f, e)
    BY <1>2, <1>8, ChecksSendNext
<1>11. Further(d, e) /\ \A s : InQueue(e, s) <=> TaskIn(q, s)
    BY <1>8, <1>9, <1>10, AheadOfQueue
<1>12. Joins(d, e, t)
    BY <1>1, <1>5, <1>11 DEF Joins
<1> QED
    BY <1>10, <1>11, <1>12

LEMMA Removes ==
    ASSUME NEW k, NEW x \in Nat, NEW d, Sane(d, k, x), NEW t \in Tasks, ~HaveSentRequests(d, t),
           NEW e, e = Removed(d, t)
    PROVE  Sane(e, k, x) /\ Further(d, e) /\ Leaves(d, e, t)
<1>0. d \in Manager /\ QueuedOnce(d) /\ Reached(d)
    BY DEF Sane
<1>1. PICK q \in Seq(Entry) :
         /\ Once(q) /\ Dequeued(d, t) = Queueing(d, q, d.generation)
         /\ \A s : TaskIn(q, s) <=> InQueue(d, s) /\ s # t
    BY <1>0, Dequeues
<1> DEFINE f == Queueing(d, q, d.generation)
<1>2. e = CheckSendNext(f)
    BY <1>1 DEF Removed
<1>3. d.generation \in BOOLEAN
    BY <1>0 DEF Manager
<1>4. \A s \in Tasks : HaveSentRequests(d, s) => TaskIn(q, s)
    BY <1>0, <1>1 DEF Reached
<1>5. Sane(f, k, x) /\ OnlyQueue(d, f, q)
    BY <1>1, <1>3, <1>4, SetQueue
<1> HIDE DEF f
<1>6. f.queue = q
    BY <1>5 DEF OnlyQueue
<1>7. Sane(e, k, x) /\ Ahead(f, e)
    BY <1>2, <1>5, ChecksSendNext
<1>8. Further(d, e) /\ \A s : InQueue(e, s) <=> TaskIn(q, s)
    BY <1>5, <1>6, <1>7, AheadOfQueue
<1>9. Leaves(d, e, t)
    BY <1>1, <1>8 DEF Leaves
<1> QED
    BY <1>7, <1>8, <1>9

-----------------------------------------------------------------------------
(* What a handler leaves of a task: its parts are where they were, or are  *)
(* asked for now; the queue has it or has not, as before.                  *)

Continues(d, e, t) ==
    /\ AskedFor(d, t) => AskedFor(e, t)
    /\ e.wanted[t] \subseteq d.wanted[t]
    /\ e.wanted[t] \cup PartsInHand(e, t) = d.wanted[t] \cup PartsInHand(d, t)
    /\ InQueue(e, t) <=> InQueue(d, t)
    /\ ~InQueue(d, t) => e.wanted[t] = d.wanted[t]

LEMMA ContinuesIsTransitive ==
    ASSUME NEW d, NEW e, NEW f, NEW t, Continues(d, e, t), Continues(e, f, t)
    PROVE  Continues(d, f, t)
<1>1. f.wanted[t] \cup PartsInHand(f, t) = d.wanted[t] \cup PartsInHand(d, t)
    BY DEF Continues
<1> QED
    BY <1>1 DEF Continues

(* Parts are in hand or still to be asked for, and what has some in hand   *)
(* is in the queue.                                                        *)
LEMMA InHand ==
    ASSUME NEW k, NEW x \in Nat, NEW d, Sane(d, k, x), NEW t \in Tasks
    PROVE  /\ PartsInHand(d, t) \subseteq Parts /\ d.wanted[t] \subseteq Parts
           /\ PartsInHand(d, t) \cap d.wanted[t] = {}
           /\ HaveSentRequests(d, t) <=> PartsInHand(d, t) # {}
           /\ PartsInHand(d, t) # {} => InQueue(d, t)
<1>1. /\ \A r \in d.sent : r.part \in Parts
      /\ \A u \in d.unchecked[t] : u.part \in Parts
  <2>1. \A r \in d.sent : r \in Request
      BY DEF Sane, Manager
  <2>2. \A u \in d.unchecked[t] : u \in PartIn(Nat)
      BY DEF Sane, Manager
  <2> QED  BY <2>1, <2>2 DEF Request, PartIn
<1>2. PartsInHand(d, t) \subseteq Parts
    BY <1>1 DEF PartsInHand, SentOf
<1>3. d.wanted[t] \subseteq Parts
    BY DEF Sane, Manager
<1>4. PartsInHand(d, t) \cap d.wanted[t] = {}
    BY DEF Sane, OneByOne, PartsInHand, SentOf
<1>5. HaveSentRequests(d, t) <=> PartsInHand(d, t) # {}
    BY DEF HaveSentRequests, PartsInHand
<1> QED
    BY <1>2, <1>3, <1>4, <1>5 DEF Sane, Reached

LEMMA ContinuesKeepsPlaced ==
    ASSUME NEW d, Sane(d, 0, 0), NEW e, Sane(e, 0, 0), NEW t \in Tasks, Continues(d, e, t),
           NEW at, NEW done, PlacedAt(d, t, at, done)
    PROVE  PlacedAt(e, t, at, done)
<1>1. /\ PartsInHand(d, t) \cap d.wanted[t] = {}
      /\ PartsInHand(e, t) \cap e.wanted[t] = {}
    BY InHand
<1>2. /\ e.wanted[t] \subseteq d.wanted[t]
      /\ e.wanted[t] \cup PartsInHand(e, t) = d.wanted[t] \cup PartsInHand(d, t)
      /\ InQueue(e, t) <=> InQueue(d, t)
      /\ ~InQueue(d, t) => e.wanted[t] = d.wanted[t]
    BY DEF Continues
<1> QED
    BY <1>1, <1>2 DEF PlacedAt

LEMMA AheadContinues ==
    ASSUME NEW d, NEW e, Ahead(d, e), NEW t \in Tasks
    PROVE  Continues(d, e, t)
<1>1. AskedFor(d, t) => AskedFor(e, t)
    BY DEF Ahead, AskedFor, SentOf, Fresh
<1>2. InQueue(e, t) <=> InQueue(d, t)
    BY DEF Ahead, InQueue
<1> QED
    BY <1>1, <1>2 DEF Continues, Ahead

LEMMA FurtherContinues ==
    ASSUME NEW d, NEW e, Further(d, e), NEW t \in Tasks, InQueue(e, t) <=> InQueue(d, t)
    PROVE  Continues(d, e, t)
<1>1. AskedFor(d, t) => AskedFor(e, t)
    BY DEF Further, AskedFor, SentOf, Fresh
<1> QED
    BY <1>1 DEF Continues, Further

(* What a task has in hand is that of its requests and its parts that wait. *)
LEMMA SameInHand ==
    ASSUME NEW d, NEW e, NEW t, SentOf(e, t) = SentOf(d, t), e.unchecked[t] = d.unchecked[t]
    PROVE  PartsInHand(e, t) = PartsInHand(d, t)
BY DEF PartsInHand

(* Nothing of a task changes when its requests and parts do not.           *)
LEMMA Untouched ==
    ASSUME NEW d, NEW e, NEW t, SentOf(e, t) = SentOf(d, t), e.unchecked[t] = d.unchecked[t],
           e.wanted[t] = d.wanted[t], t \in d.posted => t \in e.posted,
           InQueue(e, t) <=> InQueue(d, t)
    PROVE  Continues(d, e, t)
<1>1. AskedFor(d, t) => AskedFor(e, t)
    BY DEF AskedFor
<1>2. PartsInHand(e, t) = PartsInHand(d, t)
    BY SameInHand
<1> QED
    BY <1>1, <1>2 DEF Continues

-----------------------------------------------------------------------------
(* One field of the record at a time.                                      *)

Posting(d, P) == [d EXCEPT !.posted = P]

OnlyPosted(d, e, P) ==
    /\ e.posted = P
    /\ e.queue = d.queue /\ e.sent = d.sent /\ e.unchecked = d.unchecked /\ e.cdn = d.cdn
    /\ e.wanted = d.wanted /\ e.sessions = d.sessions /\ e.total = d.total

LEMMA SetPosted ==
    ASSUME NEW k, NEW x \in Nat, NEW d, Sane(d, k, x), NEW P, P \subseteq Tasks,
           NEW e, e = Posting(d, P)
    PROVE  Sane(e, k, x) /\ OnlyPosted(d, e, P)
<1>0. d \in Manager
    BY DEF Sane
<1>1. /\ e \in Manager /\ OnlyPosted(d, e, P) /\ (e.kill <=> d.kill)
    BY <1>0 DEF Manager, Posting, OnlyPosted
<1>2. Ranged(e) /\ AtCDN(e) /\ OneByOne(e) /\ QueuedOnce(e)
    BY <1>1 DEF Sane, Ranged, AtCDN, OneByOne, QueuedOnce, OnlyPosted
<1>3. Booked(e, k, x)
    BY <1>1 DEF Sane, Booked, OnlyPosted
<1>4. Reached(e)
    BY <1>1 DEF Sane, Reached, HaveSentRequests, SentOf, InQueue, OnlyPosted
<1> QED
    BY <1>1, <1>2, <1>3, <1>4 DEF Sane

Switching(d, C) == [d EXCEPT !.cdn = C]

OnlyCdn(d, e, C) ==
    /\ e.cdn = C
    /\ e.queue = d.queue /\ e.sent = d.sent /\ e.unchecked = d.unchecked
    /\ e.posted = d.posted
    /\ e.wanted = d.wanted /\ e.sessions = d.sessions /\ e.total = d.total

LEMMA SetCdn ==
    ASSUME NEW k, NEW x \in Nat, NEW d, Sane(d, k, x), NEW C, C \subseteq Tasks,
           d.cdn \subseteq C, \A t \in C \ d.cdn : SentOf(d, t) = {},
           NEW e, e = Switching(d, C)
    PROVE  Sane(e, k, x) /\ OnlyCdn(d, e, C)
<1>0. d \in Manager
    BY DEF Sane
<1>1. /\ e \in Manager /\ OnlyCdn(d, e, C) /\ (e.kill <=> d.kill)
    BY <1>0 DEF Manager, Switching, OnlyCdn
<1>2. Ranged(e) /\ OneByOne(e) /\ QueuedOnce(e)
    BY <1>1 DEF Sane, Ranged, OneByOne, QueuedOnce, OnlyCdn
<1>3. Booked(e, k, x)
    BY <1>1 DEF Sane, Booked, OnlyCdn
<1>4. Reached(e)
    BY <1>1 DEF Sane, Reached, HaveSentRequests, SentOf, InQueue, OnlyCdn
<1>5. AtCDN(e)
  <2>1. \A r \in d.sent : r.task \notin C \ d.cdn
      BY DEF SentOf
  <2> QED  BY <1>1, <2>1 DEF Sane, AtCDN, OnlyCdn
<1> QED
    BY <1>1, <1>2, <1>3, <1>4, <1>5 DEF Sane

Unchecking(d, t, U) == [d EXCEPT !.unchecked[t] = U]

OnlyUnchecked(d, e, t, U) ==
    /\ e.unchecked[t] = U /\ \A s \in Tasks \ {t} : e.unchecked[s] = d.unchecked[s]
    /\ e.queue = d.queue /\ e.sent = d.sent /\ e.cdn = d.cdn /\ e.posted = d.posted
    /\ e.wanted = d.wanted /\ e.sessions = d.sessions /\ e.total = d.total

(* U may be what waits for its hash.                                       *)
Checkable(d, t, U) ==
    /\ U \subseteq PartIn(1..Len(d.sessions))
    /\ \A u \in U : u.part \notin d.wanted[t]
    /\ \A u, v \in U : u.part = v.part => u = v
    /\ \A r \in d.sent : r.task = t => (r.kind = "hashes" <=> \E u \in U : u.part = r.part)
    /\ U # {} => t \in d.cdn /\ InQueue(d, t)

LEMMA SetUnchecked ==
    ASSUME NEW k, NEW x \in Nat, NEW d, Sane(d, k, x), NEW t \in Tasks,
           NEW U, Checkable(d, t, U), NEW e, e = Unchecking(d, t, U)
    PROVE  Sane(e, k, x) /\ OnlyUnchecked(d, e, t, U)
<1>0. d \in Manager /\ Len(d.sessions) \in Nat
    BY DEF Sane, Manager
<1>1. U \subseteq PartIn(Nat) /\ \A u \in U : u.session \in 1..Len(d.sessions)
    BY <1>0 DEF Checkable, PartIn
<1>2. /\ e \in Manager /\ OnlyUnchecked(d, e, t, U) /\ (e.kill <=> d.kill)
  <2> DEFINE W == [d.unchecked EXCEPT ![t] = U]
  <2>1. W \in [Tasks -> SUBSET PartIn(Nat)] /\ W[t] = U
        /\ \A s \in Tasks \ {t} : W[s] = d.unchecked[s]
      BY <1>0, <1>1 DEF Manager
  <2>2. e = [d EXCEPT !.unchecked = W]
      BY <1>0 DEF Manager, Unchecking
  <2> HIDE DEF W
  <2> QED  BY <1>0, <2>1, <2>2 DEF Manager, OnlyUnchecked
<1>3. Ranged(e)
  <2>1. \A s \in Tasks : \A u \in e.unchecked[s] : u.session \in 1..Len(d.sessions)
      BY <1>1, <1>2 DEF Sane, Ranged, OnlyUnchecked
  <2> QED  BY <1>2, <2>1 DEF Sane, Ranged, OnlyUnchecked
<1>4. Booked(e, k, x) /\ QueuedOnce(e)
    BY <1>2 DEF Sane, Booked, QueuedOnce, OnlyUnchecked
<1>5. Reached(e)
  <2> SUFFICES ASSUME NEW s \in Tasks, HaveSentRequests(e, s) PROVE InQueue(d, s)
      BY <1>2 DEF Reached, InQueue, OnlyUnchecked
  <2>1. CASE s = t /\ U # {}
      BY <2>1 DEF Checkable
  <2>2. CASE ~(s = t /\ U # {})
      BY <1>2, <2>2 DEF Sane, Reached, HaveSentRequests, SentOf, OnlyUnchecked
  <2> QED  BY <2>1, <2>2
<1>6. OneByOne(e)
  <2>0. OneByOne(d) /\ \A r \in d.sent : r.task \in Tasks
    <3>1. d.sent \subseteq Request
        BY <1>0 DEF Manager
    <3> QED  BY <3>1 DEF Sane, Request
  <2>1. \A r \in e.sent : r.kind = "hashes" <=> \E u \in e.unchecked[r.task] : u.part = r.part
    <3> SUFFICES ASSUME NEW r \in d.sent
                 PROVE  r.kind = "hashes" <=> \E u \in e.unchecked[r.task] : u.part = r.part
        BY <1>2 DEF OnlyUnchecked
    <3>1. CASE r.task = t
        BY <1>2, <3>1 DEF OnlyUnchecked, Checkable
    <3>2. CASE r.task # t
        BY <1>2, <2>0, <3>2 DEF OnlyUnchecked, OneByOne
    <3> QED  BY <3>1, <3>2
  <2>2. \A s \in Tasks : \A u, v \in e.unchecked[s] : u.part = v.part => u = v
      BY <1>2, <2>0 DEF OnlyUnchecked, Checkable, OneByOne
  <2>3. \A s \in Tasks : \A u \in e.unchecked[s] : u.part \notin e.wanted[s]
      BY <1>2, <2>0 DEF OnlyUnchecked, Checkable, OneByOne
  <2> QED  BY <1>2, <2>0, <2>1, <2>2, <2>3 DEF OneByOne, OnlyUnchecked
<1>7. AtCDN(e)
  <2>1. \A s \in Tasks \ d.cdn : e.unchecked[s] = {}
      BY <1>2 DEF Sane, AtCDN, OnlyUnchecked, Checkable
  <2> QED  BY <1>2, <2>1 DEF Sane, AtCDN, OnlyUnchecked
<1> QED
    BY <1>2, <1>3, <1>4, <1>5, <1>6, <1>7 DEF Sane

OnlySessions(d, e) ==
    /\ e.queue = d.queue /\ e.sent = d.sent /\ e.unchecked = d.unchecked /\ e.cdn = d.cdn
    /\ e.posted = d.posted /\ e.wanted = d.wanted /\ e.total = d.total
    /\ Len(e.sessions) >= Len(d.sessions)

(* A session allowed one request more, and a session more: the new one has *)
(* nothing to count.                                                       *)
Allowing(d, i, n) == [d EXCEPT !.sessions[i].max = n]
Adding(d) == [d EXCEPT !.sessions = Append(@, NewSession)]

LEMMA Allows ==
    ASSUME NEW d, Sane(d, 0, 0), NEW i \in 1..Len(d.sessions), NEW n \in StartWaited..MaxWaited,
           NEW e, e = Allowing(d, i, n)
    PROVE  Sane(e, 0, 0) /\ OnlySessions(d, e)
<1>0. d \in Manager /\ d.sessions \in Seq(Session)
    BY DEF Sane, Manager
<1> DEFINE s == [d.sessions[i] EXCEPT !.max = n]
           W == [d.sessions EXCEPT ![i] = s]
<1>1. s \in Session /\ s.requested = d.sessions[i].requested
  <2>1. d.sessions[i] \in Session
      BY <1>0
  <2> QED  BY <2>1 DEF Session
<1> HIDE DEF s
<1>2. W \in Seq(Session) /\ Len(W) = Len(d.sessions)
      /\ \A j \in 1..Len(d.sessions) : W[j] = IF j = i THEN s ELSE d.sessions[j]
    BY <1>0, <1>1
<1>3. e = [d EXCEPT !.sessions = W]
  <2>1. W = [d.sessions EXCEPT ![i].max = n]
      BY DEF s
  <2> QED  BY <1>0, <2>1 DEF Manager, Allowing
<1> HIDE DEF W
<1>4. /\ e \in Manager /\ (e.kill <=> d.kill) /\ e.sessions = W
      /\ e.queue = d.queue /\ e.sent = d.sent /\ e.unchecked = d.unchecked /\ e.cdn = d.cdn
      /\ e.posted = d.posted /\ e.wanted = d.wanted /\ e.total = d.total
    BY <1>0, <1>2, <1>3 DEF Manager
<1>5. \A j \in 1..Len(d.sessions) : e.sessions[j].requested = d.sessions[j].requested
    BY <1>1, <1>2, <1>4
<1>6. Booked(e, 0, 0)
    BY <1>2, <1>4, <1>5 DEF Sane, Booked
<1>7. Ranged(e) /\ AtCDN(e) /\ OneByOne(e) /\ QueuedOnce(e)
    BY <1>2, <1>4 DEF Sane, Ranged, AtCDN, OneByOne, QueuedOnce
<1>8. Reached(e)
    BY <1>4 DEF Sane, Reached, HaveSentRequests, SentOf, InQueue
<1>9. Len(e.sessions) >= Len(d.sessions)
    BY <1>0, <1>2, <1>4
<1> QED
    BY <1>4, <1>6, <1>7, <1>8, <1>9 DEF Sane, OnlySessions

LEMMA AddsSession ==
    ASSUME NEW d, Sane(d, 0, 0), Len(d.sessions) < MaxSessions, NEW e, e = Adding(d)
    PROVE  Sane(e, 0, 0) /\ OnlySessions(d, e)
<1>0. d \in Manager /\ d.sessions \in Seq(Session) /\ Len(d.sessions) \in Nat
    BY DEF Sane, Manager
<1> DEFINE s == NewSession
           W == Append(d.sessions, s)
<1>1. s \in Session /\ s.requested = 0
    BY SessionsAssumption DEF Session, NewSession
<1> HIDE DEF s
<1>2. W \in Seq(Session) /\ Len(W) = Len(d.sessions) + 1
      /\ \A j \in 1..Len(W) : W[j] = IF j = Len(d.sessions) + 1 THEN s ELSE d.sessions[j]
    BY <1>0, <1>1
<1>3. e = [d EXCEPT !.sessions = W]
    BY <1>0 DEF Manager, Adding, s
<1> HIDE DEF W
<1>4. /\ e \in Manager /\ (e.kill <=> d.kill) /\ e.sessions = W
      /\ e.queue = d.queue /\ e.sent = d.sent /\ e.unchecked = d.unchecked /\ e.cdn = d.cdn
      /\ e.posted = d.posted /\ e.wanted = d.wanted /\ e.total = d.total
    BY <1>0, <1>2, <1>3 DEF Manager
<1>5. Ranged(d) /\ Booked(d, 0, 0)
    BY DEF Sane
<1>6. Booked(e, 0, 0)
  <2>1. ASSUME NEW j \in 1..Len(e.sessions)
        PROVE  e.sessions[j].requested = Cardinality(InSession(e.sent, j)) + (IF j = 0 THEN 0 ELSE 0)
    <3>1. CASE j \in 1..Len(d.sessions)
      <4>1. e.sessions[j] = d.sessions[j]
          BY <1>0, <1>2, <1>4, <3>1
      <4> QED  BY <1>4, <1>5, <3>1, <4>1 DEF Booked
    <3>2. CASE j = Len(d.sessions) + 1
      <4>1. InSession(e.sent, j) = {}
          BY <1>0, <1>4, <1>5, <3>2 DEF Ranged, InSession
      <4>2. e.sessions[j].requested = 0
          BY <1>1, <1>2, <1>4, <3>2
      <4>3. Cardinality(InSession(e.sent, j)) = 0
          BY <4>1, FS_EmptySet
      <4> QED  BY <4>2, <4>3
    <3> QED  BY <1>0, <1>2, <1>4, <3>1, <3>2
  <2> QED  BY <1>4, <1>5, <2>1 DEF Booked
<1>7. Ranged(e)
  <2>1. Len(e.sessions) = Len(d.sessions) + 1
      BY <1>2, <1>4
  <2>2. Len(e.sessions) \in 1..MaxSessions
      BY <1>0, <2>1, SessionsAssumption
  <2>3. \A j \in 1..Len(d.sessions) : j \in 1..Len(e.sessions)
      BY <1>0, <2>1
  <2> QED  BY <1>4, <1>5, <2>2, <2>3 DEF Ranged
<1>8. AtCDN(e) /\ OneByOne(e) /\ QueuedOnce(e)
    BY <1>4 DEF Sane, AtCDN, OneByOne, QueuedOnce
<1>9. Reached(e)
    BY <1>4 DEF Sane, Reached, HaveSentRequests, SentOf, InQueue
<1>10. Len(e.sessions) >= Len(d.sessions)
    BY <1>0, <1>2, <1>4
<1> QED
    BY <1>4, <1>6, <1>7, <1>8, <1>9, <1>10 DEF Sane, OnlySessions

(* Whatever a success does to the sessions.                                *)
LEMMA Succeeds ==
    ASSUME NEW d, Sane(d, 0, 0), NEW r, r.session \in 1..Len(d.sessions),
           NEW e \in Succeeded(d, r)
    PROVE  Sane(e, 0, 0) /\ OnlySessions(d, e)
<1> DEFINE s == d.sessions[r.session]
           grown == IF r.amount = s.max /\ s.max < MaxWaited
                    THEN Allowing(d, r.session, s.max + 1) ELSE d
           added == Adding(grown)
<1>0. d \in Manager /\ d.sessions \in Seq(Session) /\ Len(d.sessions) \in Nat
    BY DEF Sane, Manager
<1>1. OnlySessions(d, d)
    BY <1>0 DEF OnlySessions
<1>2. Sane(grown, 0, 0) /\ OnlySessions(d, grown) /\ Len(grown.sessions) = Len(d.sessions)
  <2>1. CASE r.amount = s.max /\ s.max < MaxWaited
    <3>1. s \in Session
        BY <1>0
    <3>2. s.max + 1 \in StartWaited..MaxWaited
        BY <2>1, <3>1, SessionsAssumption DEF Session
    <3>3. grown = Allowing(d, r.session, s.max + 1)
        BY <2>1
    <3>4. Len(Allowing(d, r.session, s.max + 1).sessions) = Len(d.sessions)
        BY <1>0 DEF Allowing, Manager
    <3> HIDE DEF s, grown
    <3> QED  BY <3>2, <3>3, <3>4, Allows
  <2>2. CASE ~(r.amount = s.max /\ s.max < MaxWaited)
      BY <1>1, <2>2
  <2> QED  BY <2>1, <2>2
<1>3. e \in {d, grown} \/ (e = added /\ Len(d.sessions) < MaxSessions)
    BY DEF Succeeded, Allowing, Adding
<1> HIDE DEF grown
<1>4. CASE e \in {d, grown}
    BY <1>1, <1>2, <1>4
<1>5. CASE e = added /\ Len(d.sessions) < MaxSessions
  <2>1. Sane(e, 0, 0) /\ OnlySessions(grown, e)
      BY <1>2, <1>5, AddsSession
  <2> QED  BY <1>2, <2>1 DEF OnlySessions
<1> QED
    BY <1>3, <1>4, <1>5

-----------------------------------------------------------------------------
(* Requests given up, made instead of others, and those for hashes.        *)

(* e is d without the requests of S, and with as many sessions or more.    *)
Without(d, e, S) ==
    /\ e.queue = d.queue /\ e.unchecked = d.unchecked /\ e.cdn = d.cdn
    /\ e.wanted = d.wanted /\ Len(e.sessions) >= Len(d.sessions)
    /\ d.posted \subseteq e.posted /\ e.sent = d.sent \ S

LEMMA FinishLeaves ==
    ASSUME NEW k, NEW x \in Nat, NEW d, Sane(d, k, x),
           NEW S, S \subseteq d.sent, NEW e, e = FinishRequests(d, S)
    PROVE  Sane(e, k, x) /\ Without(d, e, S) /\ Len(e.sessions) = Len(d.sessions)
<1>1. Sane(e, k, x) /\ Kept(d, e) /\ Drops(d, e, S)
    BY Finish
<1>2. Len(d.sessions) \in Nat
    BY DEF Sane, Ranged
<1> QED
    BY <1>1, <1>2 DEF Kept, Drops, Without

(* For what waits for its hash another request is on its way.              *)
PostedFor(d, e, S) ==
    \A r \in S : r.kind = "hashes" /\ d.unchecked[r.task] # {} => r.task \in e.posted

LEMMA Cancels ==
    ASSUME NEW k, NEW x \in Nat, NEW d, Sane(d, k, x),
           NEW S, S \subseteq d.sent, NEW e, e = CancelRequests(d, S)
    PROVE  /\ Sane(e, k, x) /\ Without(d, e, S) /\ Len(e.sessions) = Len(d.sessions)
           /\ PostedFor(d, e, S)
<1> DEFINE f == FinishRequests(d, S)
           N == {r.task : r \in {q \in S : q.kind = "hashes" /\ d.unchecked[q.task] # {}}}
           P == f.posted \cup N
<1>1. Sane(f, k, x) /\ Without(d, f, S) /\ Len(f.sessions) = Len(d.sessions)
  <2> HIDE DEF f
  <2> QED  BY FinishLeaves DEF f
<1>2. e = [f EXCEPT !.posted = @ \cup N]
    BY DEF CancelRequests
<1>3. S \subseteq Request
    BY DEF Sane, Manager
<1>4. N \subseteq Tasks
    BY <1>3 DEF Request
<1> HIDE DEF f, N
<1>5. f.posted \subseteq Tasks
    BY <1>1 DEF Sane, Manager
<1>6. P \subseteq Tasks /\ e = Posting(f, P)
    BY <1>2, <1>4, <1>5 DEF Posting
<1> HIDE DEF P
<1>7. Sane(e, k, x) /\ OnlyPosted(f, e, P)
    BY <1>1, <1>6, SetPosted
<1>8. Without(d, e, S) /\ Len(e.sessions) = Len(d.sessions)
    BY <1>1, <1>7 DEF Without, OnlyPosted, P
<1>9. ASSUME NEW r \in S, r.kind = "hashes", d.unchecked[r.task] # {} PROVE r.task \in e.posted
  <2>1. r.task \in N
      BY <1>9 DEF N
  <2> QED  BY <1>7, <2>1 DEF OnlyPosted, P
<1> QED
    BY <1>7, <1>8, <1>9 DEF PostedFor

(* A part asked for: it is in hand now, and nothing else changes.          *)
LEMMA PlacedInHand ==
    ASSUME NEW d, NEW e, NEW t, NEW p, NEW i, NEW kind,
           Kept(d, e), Adds(d, e, t, p, i, kind), NEW s \in Tasks
    PROVE  /\ PartsInHand(e, s) = PartsInHand(d, s) \cup (IF s = t THEN {p} ELSE {})
           /\ AskedFor(d, s) => AskedFor(e, s)
<1>1. PICK r \in Request : r.task = t /\ r.part = p /\ ~r.over /\ e.sent = d.sent \cup {r}
    BY DEF Adds
<1>2. e.unchecked = d.unchecked /\ e.posted = d.posted
    BY DEF Kept
<1>3. SentOf(e, s) = SentOf(d, s) \cup (IF s = t THEN {r} ELSE {})
    BY <1>1 DEF SentOf
<1>4. PartsInHand(e, s) = PartsInHand(d, s) \cup (IF s = t THEN {p} ELSE {})
  <2>1. CASE s = t
    <3>1. SentOf(e, s) \cup e.unchecked[s] = (SentOf(d, s) \cup d.unchecked[s]) \cup {r}
        BY <1>2, <1>3, <2>1
    <3> QED  BY <1>1, <2>1, <3>1 DEF PartsInHand
  <2>2. CASE s # t
      BY <1>2, <1>3, <2>2 DEF PartsInHand
  <2> QED  BY <2>1, <2>2
<1>5. AskedFor(d, s) => AskedFor(e, s)
    BY <1>1, <1>2, <1>3 DEF AskedFor
<1> QED
    BY <1>4, <1>5

(* A request that is made again or in another session, as long as it is not *)
(* one for hashes: nothing of any task changes.                            *)
LEMMA Replaces ==
    ASSUME NEW k, NEW x \in Nat, NEW d, Sane(d, k, x), NEW r \in d.sent, r.kind # "hashes",
           NEW f, Sane(f, k, x), Without(d, f, {r}),
           NEW i \in 1..Len(f.sessions), NEW kind \in Kinds \ {"hashes"},
           IF r.task \in d.cdn THEN kind \in {"cdn", "reupload"} ELSE kind \in {"file", "expired"},
           NEW e, e = PlaceSentRequest(f, r.task, r.part, i, kind)
    PROVE  /\ Sane(e, k, x) /\ Kept(f, e) /\ Adds(f, e, r.task, r.part, i, kind)
           /\ \A s \in Tasks : Continues(d, e, s)
<1> DEFINE t == r.task
           p == r.part
<1>0. r \in Request
    BY DEF Sane, Manager
<1>1. t \in Tasks /\ p \in Parts
    BY <1>0 DEF Request
<1>2. OneByOne(d) /\ Reached(d)
    BY DEF Sane
<1>3. InQueue(d, t)
  <2>1. HaveSentRequests(d, t)
      BY DEF HaveSentRequests, SentOf
  <2> QED  BY <1>1, <1>2, <2>1 DEF Reached
<1>4. Placeable(f, t, p, i, kind)
  <2>1. InQueue(f, t) /\ p \notin f.wanted[t]
      BY <1>2, <1>3 DEF Without, InQueue, OneByOne
  <2>2. \A q \in f.sent : q.task = t => q.part # p
      BY <1>2 DEF Without, OneByOne
  <2>3. \A u \in f.unchecked[t] : u.part # p
      BY <1>2 DEF Without, OneByOne
  <2>4. IF t \in f.cdn THEN kind \in {"cdn", "reupload", "hashes"} ELSE kind \in {"file", "expired"}
      BY DEF Without
  <2> QED  BY <1>1, <2>1, <2>2, <2>3, <2>4 DEF Placeable
<1>5. Sane(e, k, x) /\ Kept(f, e) /\ Adds(f, e, t, p, i, kind)
  <2> HIDE DEF t, p
  <2> QED  BY <1>4, Place DEF t, p
<1>6. ASSUME NEW s \in Tasks PROVE Continues(d, e, s)
  <2>1. /\ PartsInHand(e, s) = PartsInHand(f, s) \cup (IF s = t THEN {p} ELSE {})
        /\ AskedFor(f, s) => AskedFor(e, s)
    <3> HIDE DEF t, p
    <3> QED  BY <1>5, PlacedInHand
  <2>2. PartsInHand(d, s) = PartsInHand(f, s) \cup (IF s = t THEN {p} ELSE {})
    <3>1. f.unchecked = d.unchecked
        BY DEF Without
    <3>2. SentOf(d, s) = SentOf(f, s) \cup (IF s = t THEN {r} ELSE {})
        BY DEF SentOf, Without
    <3>3. CASE s = t
      <4>1. SentOf(d, s) \cup d.unchecked[s] = (SentOf(f, s) \cup f.unchecked[s]) \cup {r}
          BY <3>1, <3>2, <3>3
      <4> QED  BY <3>3, <4>1 DEF PartsInHand
    <3>4. CASE s # t
        BY <3>1, <3>2, <3>4 DEF PartsInHand
    <3> QED  BY <3>3, <3>4
  <2>3. AskedFor(d, s) => AskedFor(f, s)
      BY DEF AskedFor, Without, SentOf
  <2>4. e.wanted = d.wanted /\ e.queue = d.queue
      BY <1>5 DEF Without, Kept
  <2> QED  BY <2>1, <2>2, <2>3, <2>4 DEF Continues, InQueue
<1> QED
    BY <1>5, <1>6

LEMMA Answers ==
    ASSUME NEW d, Sane(d, 0, 0), NEW r \in d.sent,
           NEW e \in Succeeded(FinishSentRequest(d, r), r)
    PROVE  Sane(e, 0, 0) /\ Without(d, e, {r})
<1> DEFINE f == FinishSentRequest(d, r)
<1>1. Sane(f, 0, 0) /\ Without(d, f, {r}) /\ Len(f.sessions) = Len(d.sessions)
    BY FinishLeaves DEF FinishSentRequest
<1>2. r.session \in 1..Len(d.sessions) /\ Len(d.sessions) \in Nat
    BY DEF Sane, Ranged
<1>3. Sane(e, 0, 0) /\ OnlySessions(f, e)
  <2>1. r.session \in 1..Len(f.sessions)
      BY <1>1, <1>2
  <2> HIDE DEF f
  <2> QED  BY <1>1, <2>1, Succeeds DEF f
<1> HIDE DEF f
<1>4. Len(e.sessions) \in Nat
    BY <1>3 DEF Sane, Ranged
<1>5. Len(e.sessions) >= Len(d.sessions)
    BY <1>1, <1>2, <1>3, <1>4 DEF OnlySessions
<1> QED
    BY <1>1, <1>3, <1>5 DEF Without, OnlySessions

(* Whatever waits for its hash is asked about afterwards.                  *)
LEMMA RequestsHashes ==
    ASSUME NEW d, Sane(d, 0, 0), NEW t \in Tasks, NEW e, e = RequestMoreCdnFileHashes(d, t)
    PROVE  /\ Sane(e, 0, 0) /\ \A s \in Tasks : Continues(d, e, s)
           /\ (\A r \in SentOf(d, t) : ~r.over) => AskedFor(e, t)
<1>1. CASE d.unchecked[t] = {} \/ \E r \in SentOf(d, t) : r.kind = "hashes"
  <2>1. e = d
      BY <1>1 DEF RequestMoreCdnFileHashes
  <2>2. (\A r \in SentOf(d, t) : ~r.over) => AskedFor(e, t)
      BY <1>1, <2>1 DEF AskedFor
  <2> QED  BY <2>1, <2>2 DEF Continues
<1>2. CASE d.unchecked[t] # {} /\ ~\E r \in SentOf(d, t) : r.kind = "hashes"
  <2> DEFINE U == d.unchecked[t]
             first == CHOOSE u \in U : \A v \in U : u.part <= v.part
             p == first.part
             i == first.session
             kind == "hashes"
  <2>1. U \subseteq PartIn(Nat) /\ U # {}
      BY <1>2 DEF Sane, Manager
  <2>2. first \in U
    <3> DEFINE N == {u.part : u \in U}
    <3>1. N \in SUBSET Nat /\ N # {}
        BY <2>1, PartsAssumption DEF PartIn, Parts
    <3>2. PICK n \in N : \A j \in N : n <= j
      <4> HIDE DEF N
      <4> QED  BY <3>1, Smallest
    <3>3. \E u \in U : \A v \in U : u.part <= v.part
        BY <3>2
    <3> HIDE DEF U
    <3> QED  BY <3>3
  <2>3. p \in Parts /\ i \in 1..Len(d.sessions)
    <3> HIDE DEF first
    <3>1. first \in PartIn(Nat)
        BY <2>1, <2>2
    <3> QED  BY <2>2, <3>1 DEF Sane, Ranged, PartIn
  <2>4. e = PlaceSentRequest(d, t, p, i, kind)
      BY <1>2 DEF RequestMoreCdnFileHashes
  <2> HIDE DEF first
  <2>5. OneByOne(d) /\ AtCDN(d) /\ Reached(d) /\ d.sent \subseteq Request
      BY DEF Sane, Manager
  <2>6. InQueue(d, t) /\ t \in d.cdn
      BY <1>2, <2>5 DEF Reached, HaveSentRequests, AtCDN
  <2>7. \E u \in d.unchecked[t] : u.part = p
      BY <2>2
  <2>8. \A r \in d.sent : r.task = t => r.kind # "hashes"
      BY <1>2 DEF SentOf
  <2>9. \A r \in d.sent : r.task = t => r.part # p
      BY <2>5, <2>7, <2>8 DEF OneByOne
  <2>10. p \notin d.wanted[t]
      BY <2>5, <2>7 DEF OneByOne
  <2>11. Placeable(d, t, p, i, kind)
      BY <2>3, <2>6, <2>7, <2>8, <2>9, <2>10 DEF Placeable, Kinds
  <2> HIDE DEF p, i, U
  <2>12. Sane(e, 0, 0) /\ Kept(d, e) /\ Adds(d, e, t, p, i, kind)
      BY <2>4, <2>11, Place
  <2>13. (\A r \in SentOf(d, t) : ~r.over) => AskedFor(e, t)
      BY <2>12 DEF Adds, AskedFor, SentOf
  <2>14. ASSUME NEW s \in Tasks PROVE Continues(d, e, s)
    <3>1. /\ PartsInHand(e, s) = PartsInHand(d, s) \cup (IF s = t THEN {p} ELSE {})
          /\ AskedFor(d, s) => AskedFor(e, s)
        BY <2>12, PlacedInHand
    <3>2. p \in PartsInHand(d, t)
        BY <2>7 DEF PartsInHand
    <3>3. PartsInHand(e, s) = PartsInHand(d, s)
        BY <3>1, <3>2
    <3> QED  BY <2>12, <3>1, <3>3 DEF Continues, Kept, InQueue
  <2> QED  BY <2>12, <2>13, <2>14
<1> QED
    BY <1>1, <1>2

-----------------------------------------------------------------------------
(* A file moves to a CDN: all requests of its task are given up and made   *)
(* again there.                                                            *)

Remade(d, e, t, S) ==
    /\ e.queue = d.queue /\ e.unchecked = d.unchecked /\ e.posted = d.posted
    /\ e.cdn = d.cdn /\ e.wanted = d.wanted /\ Len(e.sessions) = Len(d.sessions)
    /\ \A p : (\E r \in S : r.part = p) <=> (\E q \in SentOf(e, t) : q.part = p)
    /\ \A q \in SentOf(e, t) : ~q.over
    /\ \A s \in Tasks \ {t} : SentOf(e, s) = SentOf(d, s)

(* What may be asked for again at the CDN, with nothing of the task out.   *)
Remakable(d, t, S) ==
    /\ S \subseteq Request /\ InQueue(d, t) /\ t \in d.cdn /\ d.unchecked[t] = {}
    /\ \A r \in S : /\ r.task = t /\ r.session \in 1..Len(d.sessions)
                    /\ r.part \notin d.wanted[t]
    /\ \A r, q \in S : r.part = q.part => r = q

LEMMA MakesAgain ==
    ASSUME NEW d, Sane(d, 0, 0), NEW t \in Tasks, SentOf(d, t) = {},
           NEW S, IsFiniteSet(S), Remakable(d, t, S), NEW e, e = MakeAgain(d, S)
    PROVE  Sane(e, 0, 0) /\ Remade(d, e, t, S)
<1>0. PICK after : MadeAgainStepwise(after, d, S)
    BY MakeAgainSteps
<1>1. /\ after[{}] = d
      /\ \A T \in SUBSET S : T # {} =>
           \E r \in T : after[T] = MakeRequest(after[T \ {r}], r.task, r.part, r.session)
      /\ MakeAgain(d, S) = after[S]
    BY <1>0, Zenon DEF MadeAgainStepwise
<1> DEFINE F == {T \in SUBSET S : Sane(after[T], 0, 0) /\ Remade(d, after[T], t, T)}
<1>2. {} \in F
  <2>1. Remade(d, d, t, {})
      BY DEF Remade
  <2> QED  BY <1>1, <2>1
<1>3. ASSUME NEW T \in SUBSET S, NEW r \in T, after[T] = MakeRequest(after[T \ {r}], r.task, r.part, r.session),
             T \ {r} \in F
      PROVE  T \in F
  <2> DEFINE b == after[T \ {r}]
             a == after[T]
             p == r.part
             i == r.session
             kind == "cdn"
  <2>1. Sane(b, 0, 0) /\ Remade(d, b, t, T \ {r})
      BY <1>3
  <2>2. r \in Request /\ r.task = t /\ i \in 1..Len(d.sessions) /\ p \notin d.wanted[t]
      BY DEF Remakable
  <2>3. p \in Parts
      BY <2>2 DEF Request
  <2>4. a = PlaceSentRequest(b, t, p, i, kind)
    <3>1. t \in b.cdn
        BY <2>1 DEF Remade, Remakable
    <3> QED  BY <1>3, <2>2, <3>1 DEF MakeRequest
  <2> HIDE DEF a, b
  <2>5. \A q \in b.sent : q.task = t => q.part # p
    <3> SUFFICES ASSUME NEW q \in b.sent, q.task = t, q.part = p PROVE FALSE
        OBVIOUS
    <3>1. \E o \in T \ {r} : o.part = p
        BY <2>1 DEF Remade, SentOf
    <3> QED  BY <3>1 DEF Remakable
  <2>6. Placeable(b, t, p, i, kind)
      BY <2>1, <2>2, <2>3, <2>5 DEF Remade, Placeable, Remakable, InQueue, Kinds
  <2> HIDE DEF p, i
  <2>7. Sane(a, 0, 0) /\ Kept(b, a) /\ Adds(b, a, t, p, i, kind)
      BY <2>1, <2>4, <2>6, Place
  <2>8. Remade(d, a, t, T)
    <3>1. PICK q \in Request : q.task = t /\ q.part = p /\ ~q.over /\ a.sent = b.sent \cup {q}
        BY <2>7 DEF Adds
    <3>2. \A s \in Tasks : SentOf(a, s) = SentOf(b, s) \cup (IF s = t THEN {q} ELSE {})
        BY <3>1 DEF SentOf
    <3>3. \A h : (\E o \in T : o.part = h) <=> (\E o \in SentOf(a, t) : o.part = h)
      <4>1. \A h : (\E o \in T : o.part = h) <=> (\E o \in T \ {r} : o.part = h) \/ h = p
          BY DEF p
      <4>2. \A h : (\E o \in T \ {r} : o.part = h) <=> (\E o \in SentOf(b, t) : o.part = h)
          BY <2>1 DEF Remade
      <4>3. \A h : (\E o \in SentOf(a, t) : o.part = h) <=> (\E o \in SentOf(b, t) : o.part = h) \/ h = p
          BY <3>1, <3>2
      <4> QED  BY <4>1, <4>2, <4>3
    <3>4. \A s \in Tasks \ {t} : SentOf(a, s) = SentOf(d, s)
        BY <2>1, <3>2 DEF Remade
    <3>5. \A o \in SentOf(a, t) : ~o.over
        BY <2>1, <3>1, <3>2 DEF Remade
    <3> QED  BY <2>1, <2>7, <3>3, <3>4, <3>5 DEF Remade, Kept
  <2> QED  BY <2>7, <2>8 DEF a
<1>4. S \in F
  <2>1. ASSUME NEW T \in SUBSET S, T # {}, \A r \in T : T \ {r} \in F PROVE T \in F
    <3>1. PICK r \in T : after[T] = MakeRequest(after[T \ {r}], r.task, r.part, r.session)
        BY <1>1, <2>1
    <3> QED  BY <1>3, <2>1, <3>1
  <2> HIDE DEF F
  <2> QED  BY <1>2, <2>1, SetInduction
<1> QED
    BY <1>1, <1>4

LEMMA MovesToCDN ==
    ASSUME NEW d, Sane(d, 0, 0), NEW r \in d.sent, r.kind = "file",
           NEW f, Sane(f, 0, 0), Without(d, f, {r}),
           NEW e, e = ChangeCDNParams(f, r, f.cdn \cup {r.task})
    PROVE  Sane(e, 0, 0) /\ \A s \in Tasks : Continues(d, e, s)
<1> DEFINE t == r.task
           p == r.part
           i == r.session
           S == SentOf(f, t)
           g == FinishRequests(f, S)
           C == f.cdn \cup {t}
           h == Switching(g, C)
           a == MakeAgain(h, S)
           kind == "cdn"
<1>0. d.sent \subseteq Request /\ f.sent \subseteq Request /\ f.cdn \subseteq Tasks
      /\ IsFiniteSet(f.sent) /\ OneByOne(d) /\ OneByOne(f) /\ AtCDN(d) /\ Reached(d) /\ Ranged(d)
      /\ Ranged(f)
    BY DEF Sane, Manager, Booked
<1>1. t \in Tasks /\ p \in Parts
    BY <1>0 DEF Request
<1>2. t \notin d.cdn /\ d.unchecked[t] = {} /\ InQueue(d, t)
  <2>1. t \notin d.cdn
      BY <1>0 DEF AtCDN
  <2>2. HaveSentRequests(d, t)
      BY DEF HaveSentRequests, SentOf
  <2> QED  BY <1>0, <1>1, <2>1, <2>2 DEF AtCDN, Reached
<1>3. /\ InQueue(f, t) /\ f.unchecked = d.unchecked /\ f.wanted = d.wanted /\ f.queue = d.queue
      /\ d.posted \subseteq f.posted /\ f.sent = d.sent \ {r}
      /\ Len(f.sessions) >= Len(d.sessions)
    BY <1>2 DEF Without, InQueue
<1>4. i \in 1..Len(f.sessions)
  <2>1. i \in 1..Len(d.sessions) /\ Len(d.sessions) \in Nat /\ Len(f.sessions) \in Nat
      BY <1>0 DEF Ranged
  <2> QED  BY <1>3, <2>1
<1>5. e = PlaceSentRequest(a, t, p, i, IF t \in a.cdn THEN "cdn" ELSE "file")
    BY DEF ChangeCDNParams, Switching, MakeRequest
<1>6. Sane(g, 0, 0) /\ Without(f, g, S) /\ Len(g.sessions) = Len(f.sessions)
  <2>1. S \subseteq f.sent
      BY DEF SentOf
  <2>2. g = FinishRequests(f, S)
      OBVIOUS
  <2>3. Sane(f, 0, 0) /\ 0 \in Nat
      OBVIOUS
  <2> HIDE DEF S, g
  <2> QED  BY ONLY <2>1, <2>2, <2>3, FinishLeaves
<1>7. SentOf(g, t) = {} /\ \A s \in Tasks \ {t} : SentOf(g, s) = SentOf(f, s)
    BY <1>6 DEF Without, SentOf
<1> HIDE DEF g, t, p, i, a
<1>8. Sane(h, 0, 0) /\ OnlyCdn(g, h, C)
  <2>1. C \subseteq Tasks
      BY <1>0, <1>1
  <2>2. g.cdn \subseteq C /\ C \ g.cdn \subseteq {t}
      BY <1>6 DEF Without
  <2>3. \A s \in C \ g.cdn : SentOf(g, s) = {}
      BY <1>7, <2>2
  <2> HIDE DEF C
  <2> QED  BY <1>6, <2>1, <2>2, <2>3, SetCdn
<1>9. IsFiniteSet(S) /\ SentOf(h, t) = {}
  <2>1. S \subseteq f.sent
      BY DEF SentOf
  <2> HIDE DEF S, h
  <2> QED  BY <1>0, <1>7, <1>8, <2>1, FS_Subset DEF SentOf, OnlyCdn
<1>10. Remakable(h, t, S)
  <2>1. h.queue = f.queue /\ h.unchecked = f.unchecked /\ h.wanted = f.wanted
        /\ h.cdn = C /\ Len(h.sessions) = Len(f.sessions)
    <3> HIDE DEF h, C
    <3> QED  BY <1>6, <1>8 DEF Without, OnlyCdn
  <2> HIDE DEF h
  <2>2. S \subseteq Request /\ InQueue(h, t) /\ t \in h.cdn /\ h.unchecked[t] = {}
      BY <1>0, <1>2, <1>3, <2>1 DEF SentOf, InQueue
  <2>3. \A q \in S : q.task = t /\ q \in f.sent
      BY DEF SentOf
  <2> HIDE DEF S
  <2>4. \A q \in S : q.session \in 1..Len(h.sessions) /\ q.part \notin h.wanted[t]
      BY <1>0, <2>1, <2>3 DEF Ranged, OneByOne
  <2>5. \A q, o \in S : q.part = o.part => q = o
      BY <1>0, <2>3 DEF OneByOne
  <2> QED  BY <2>2, <2>3, <2>4, <2>5 DEF Remakable
<1>11. Sane(a, 0, 0) /\ Remade(h, a, t, S)
  <2> HIDE DEF S, h
  <2> QED  BY <1>1, <1>8, <1>9, <1>10, MakesAgain DEF a
<1>12. /\ a.queue = d.queue /\ a.unchecked = d.unchecked /\ d.posted \subseteq a.posted
       /\ a.cdn = C /\ a.wanted = d.wanted /\ Len(a.sessions) = Len(f.sessions)
  <2> HIDE DEF S, h, C
  <2> QED  BY <1>3, <1>6, <1>8, <1>11 DEF Without, OnlyCdn, Remade
<1>13. \A s \in Tasks \ {t} : SentOf(a, s) = SentOf(d, s)
  <2>1. \A s \in Tasks \ {t} : SentOf(a, s) = SentOf(h, s)
      BY <1>11 DEF Remade
  <2>2. \A s \in Tasks \ {t} : SentOf(h, s) = SentOf(g, s)
      BY <1>8 DEF OnlyCdn, SentOf
  <2>3. \A s \in Tasks \ {t} : SentOf(f, s) = SentOf(d, s)
      BY <1>3 DEF SentOf, t
  <2> QED  BY <1>7, <2>1, <2>2, <2>3
<1>14. \A n : (\E q \in SentOf(a, t) : q.part = n) <=> (\E q \in SentOf(f, t) : q.part = n)
    BY <1>11 DEF Remade
<1>15. Placeable(a, t, p, i, kind)
  <2>1. \A q \in a.sent : q.task = t => q.part # p
    <3> SUFFICES ASSUME NEW q \in a.sent, q.task = t, q.part = p PROVE FALSE
        OBVIOUS
    <3>1. \E o \in SentOf(f, t) : o.part = p
        BY <1>14 DEF SentOf
    <3>2. \A o \in f.sent : o.task = t => o.part # p
        BY <1>0, <1>3 DEF OneByOne, t, p
    <3> QED  BY <3>1, <3>2 DEF SentOf
  <2>2. p \notin a.wanted[t] /\ InQueue(a, t) /\ a.unchecked[t] = {}
      BY <1>0, <1>2, <1>12 DEF OneByOne, t, p, InQueue
  <2>3. t \in a.cdn
      BY <1>12
  <2> QED  BY <1>1, <1>4, <1>12, <2>1, <2>2, <2>3 DEF Placeable, Kinds
<1>16. Sane(e, 0, 0) /\ Kept(a, e) /\ Adds(a, e, t, p, i, kind)
  <2>1. t \in a.cdn
      BY <1>12
  <2>2. e = PlaceSentRequest(a, t, p, i, kind)
      BY <1>5, <2>1
  <2> HIDE DEF kind
  <2> QED  BY <1>11, <1>15, <2>2, Place
<1>17. ASSUME NEW s \in Tasks PROVE Continues(d, e, s)
  <2>1. /\ PartsInHand(e, s) = PartsInHand(a, s) \cup (IF s = t THEN {p} ELSE {})
        /\ AskedFor(a, s) => AskedFor(e, s)
      BY <1>16, PlacedInHand
  <2>2. e.queue = d.queue /\ e.wanted = d.wanted /\ e.unchecked = d.unchecked
      BY <1>12, <1>16 DEF Kept
  <2>3. CASE s = t
    <3>1. AskedFor(e, t)
      <4>1. AskedFor(a, t)
          BY <1>2, <1>11, <1>12 DEF Remade, AskedFor
      <4> QED  BY <2>1, <2>3, <4>1
    <3>2. \A n : n \in PartsInHand(d, t) <=> (\E q \in SentOf(f, t) : q.part = n) \/ n = p
      <4>1. \A q : q \in SentOf(d, t) <=> q \in SentOf(f, t) \/ q = r
          BY <1>3 DEF SentOf, t
      <4> QED  BY <1>2, <4>1 DEF PartsInHand, p
    <3>3. \A n : n \in PartsInHand(a, t) <=> (\E q \in SentOf(a, t) : q.part = n)
        BY <1>2, <1>12 DEF PartsInHand
    <3>4. PartsInHand(e, t) = PartsInHand(d, t)
        BY <1>14, <2>1, <2>3, <3>2, <3>3
    <3> QED  BY <2>2, <2>3, <3>1, <3>4 DEF Continues, InQueue
  <2>4. CASE s # t
    <3>1. SentOf(a, s) = SentOf(d, s)
        BY <1>13, <2>4
    <3>2. Continues(d, a, s)
        BY <1>12, <3>1, Untouched DEF InQueue
    <3> QED  BY <1>12, <2>1, <2>2, <2>4, <3>2 DEF Continues, InQueue
  <2> QED  BY <2>3, <2>4
<1> QED
    BY <1>16, <1>17

-----------------------------------------------------------------------------
(* A session is removed: its count is raised above all others, so that     *)
(* what was in it moves elsewhere.                                         *)

Removing(d, i, x) ==
    /\ Sane(d, i, x) /\ Len(d.sessions) = i /\ i > 1
    /\ d.total <= x

(* Nothing of the task is in session i.                                    *)
Clear(d, t, i) ==
    /\ \A r \in d.sent : r.task = t => r.session # i
    /\ \A u \in d.unchecked[t] : u.session # i

(* The index is of another session (the Assert of removeSession).          *)
LEMMA ChoosesAnother ==
    ASSUME NEW x \in Nat, NEW i \in Nat, NEW d, Removing(d, i, x)
    PROVE  ChooseSessionIndex(d) \in 1..(i - 1)
<1> DEFINE asked(j) == d.sessions[j].requested
           c == ChooseSessionIndex(d)
           N == {asked(j) : j \in 1..i}
<1>0. /\ Sane(d, i, x) /\ Len(d.sessions) = i /\ i > 1 /\ d.total <= x
      /\ d \in Manager /\ Ranged(d) /\ Booked(d, i, x) /\ IsFiniteSet(d.sent)
    BY DEF Removing, Sane, Booked
<1>1. d.total \in Nat /\ \A j \in 1..i : asked(j) \in Nat /\ Cardinality(InSession(d.sent, j)) \in Nat
    BY <1>0, CountsAreNat
<1>2. DOMAIN d.sessions = 1..i
  <2>1. d.sessions \in Seq(Session)
      BY <1>0 DEF Manager
  <2> QED  BY <1>0, <2>1
<1> HIDE DEF asked
<1>3. PICK n \in N : \A o \in N : n <= o
  <2>1. N \in SUBSET Nat /\ N # {}
      BY <1>0, <1>1
  <2> HIDE DEF N
  <2> QED  BY <2>1, Smallest
<1>4. PICK j \in {h \in 1..i : asked(h) = n} : \A h \in {h \in 1..i : asked(h) = n} : j <= h
  <2> DEFINE J == {h \in 1..i : asked(h) = n}
  <2>1. J \in SUBSET Nat /\ J # {}
      BY <1>3
  <2> HIDE DEF J
  <2>2. \E j \in J : \A h \in J : j <= h
      BY <2>1, Smallest
  <2> QED  BY <2>2 DEF J
<1>5. \A h \in 1..i : asked(j) < asked(h) \/ (asked(j) = asked(h) /\ j <= h)
  <2> SUFFICES ASSUME NEW h \in 1..i PROVE asked(j) < asked(h) \/ (asked(j) = asked(h) /\ j <= h)
      OBVIOUS
  <2>1. asked(j) = n /\ asked(h) \in N
      BY <1>4
  <2>2. asked(j) <= asked(h)
      BY <1>3, <2>1
  <2>3. asked(h) = n => j <= h
      BY <1>4
  <2> QED  BY <1>1, <2>1, <2>2, <2>3
<1>6. c \in 1..i /\ \A h \in 1..i : asked(c) < asked(h) \/ (asked(c) = asked(h) /\ c <= h)
  <2>1. \E b \in 1..i : \A h \in 1..i : asked(b) < asked(h) \/ (asked(b) = asked(h) /\ b <= h)
      BY <1>5
  <2>2. c = CHOOSE b \in 1..i : \A h \in 1..i : asked(b) < asked(h) \/ (asked(b) = asked(h) /\ b <= h)
      BY <1>2 DEF ChooseSessionIndex, asked
  <2> HIDE DEF c
  <2> QED  BY <2>1, <2>2
<1> HIDE DEF c
<1>7. asked(1) <= x /\ asked(i) >= x
  <2>1. asked(1) = Cardinality(InSession(d.sent, 1)) + (IF 1 = i THEN x ELSE 0)
        /\ asked(i) = Cardinality(InSession(d.sent, i)) + (IF i = i THEN x ELSE 0)
      BY <1>0 DEF Booked, asked
  <2>2. Cardinality(InSession(d.sent, 1)) <= Cardinality(d.sent)
    <3>1. InSession(d.sent, 1) \subseteq d.sent
        BY DEF InSession
    <3> QED  BY <1>0, <3>1, FS_Subset
  <2>3. d.total = Cardinality(d.sent)
      BY <1>0 DEF Booked
  <2>4. 1 \in 1..i /\ i \in 1..i /\ 1 # i
      BY <1>0
  <2> QED  BY <1>0, <1>1, <2>1, <2>2, <2>3, <2>4
<1>8. c # i
    BY <1>0, <1>1, <1>6, <1>7
<1> QED
    BY <1>0, <1>6, <1>8 DEF c

Moved(d, e, t, i, T) ==
    /\ e.queue = d.queue /\ e.unchecked = d.unchecked
    /\ d.sent \ T \subseteq e.sent
    /\ \A q \in e.sent : q \in d.sent \ T \/ (q.task = t /\ q.session # i)
    /\ \A s \in Tasks : Continues(d, e, s)

LEMMA Redirects ==
    ASSUME NEW x \in Nat, NEW i \in Nat, NEW d, Removing(d, i, x),
           NEW r \in d.sent, NEW e, e = Redirect(d, r)
    PROVE  Removing(e, i, x) /\ Moved(d, e, r.task, i, {r})
<1> DEFINE f == CancelRequests(d, {r})
           c == ChooseSessionIndex(f)
           kind == IF r.task \in f.cdn THEN "cdn" ELSE "file"
<1>0. Sane(d, i, x) /\ Len(d.sessions) = i /\ i > 1 /\ d.total <= x
    BY DEF Removing
<1>1. /\ Sane(f, i, x) /\ Without(d, f, {r}) /\ Len(f.sessions) = i
      /\ r.kind = "hashes" /\ d.unchecked[r.task] # {} => r.task \in f.posted
  <2> DEFINE S == {r}
  <2>1. S \subseteq d.sent /\ f = CancelRequests(d, S) /\ Sane(d, i, x) /\ x \in Nat
      BY <1>0
  <2> HIDE DEF S, f
  <2>2. /\ Sane(f, i, x) /\ Without(d, f, S) /\ Len(f.sessions) = Len(d.sessions)
        /\ PostedFor(d, f, S)
      BY ONLY <2>1, Cancels
  <2> QED  BY <1>0, <2>1, <2>2 DEF S, PostedFor
<1>2. f.total = d.total - 1 /\ d.total \in Nat
  <2>1. IsFiniteSet(d.sent) /\ d.total = Cardinality(d.sent) /\ f.total = Cardinality(f.sent)
      BY <1>0, <1>1 DEF Sane, Booked
  <2>2. f.sent = d.sent \ {r}
      BY <1>1 DEF Without
  <2>3. Cardinality(d.sent \ {r}) = Cardinality(d.sent) - 1 /\ Cardinality(d.sent) \in Nat
      BY <2>1, FS_RemoveElement, FS_CardinalityType
  <2> QED  BY <2>1, <2>2, <2>3
<1>3. Removing(f, i, x)
    BY <1>0, <1>1, <1>2 DEF Removing
<1>4. r \in Request /\ r.task \in Tasks /\ OneByOne(d) /\ AtCDN(d)
  <2>1. r \in Request
      BY <1>0 DEF Sane, Manager
  <2> QED  BY <1>0, <2>1 DEF Request, Sane
<1>5. CASE r.kind = "hashes"
  <2>1. e = f
      BY <1>5 DEF Redirect
  <2> HIDE DEF f
  <2>2. PICK u \in d.unchecked[r.task] : u.part = r.part
      BY <1>4, <1>5 DEF OneByOne
  <2>3. ASSUME NEW s \in Tasks PROVE Continues(d, e, s)
    <3>1. CASE s = r.task
      <4>1. PartsInHand(e, s) = PartsInHand(d, s)
        <5>1. \A n : n \in PartsInHand(d, s) <=>
                (\E q \in SentOf(d, s) : q.part = n) \/ (\E w \in d.unchecked[s] : w.part = n)
            BY DEF PartsInHand
        <5>2. \A n : n \in PartsInHand(e, s) <=>
                (\E q \in SentOf(e, s) : q.part = n) \/ (\E w \in d.unchecked[s] : w.part = n)
            BY <1>1, <2>1 DEF PartsInHand, Without
        <5>3. \A q : q \in SentOf(d, s) <=> q \in SentOf(e, s) \/ q = r
            BY <1>1, <2>1, <3>1 DEF Without, SentOf
        <5> QED  BY <2>2, <3>1, <5>1, <5>2, <5>3
      <4>2. AskedFor(d, s) => AskedFor(e, s)
          BY <1>1, <1>5, <2>1, <2>2, <3>1 DEF AskedFor, Without, SentOf
      <4> QED  BY <1>1, <2>1, <4>1, <4>2 DEF Continues, Without, InQueue
    <3>2. CASE s # r.task
      <4>1. SentOf(e, s) = SentOf(d, s)
          BY <1>1, <2>1, <3>2 DEF Without, SentOf
      <4> QED  BY <1>1, <2>1, <4>1, Untouched DEF Without, InQueue
    <3> QED  BY <3>1, <3>2
  <2> QED  BY <1>1, <1>3, <2>1, <2>3 DEF Moved, Without
<1>6. CASE r.kind # "hashes"
  <2>1. e = PlaceSentRequest(f, r.task, r.part, c, kind)
      BY <1>6 DEF Redirect, MakeRequest
  <2>2. c \in 1..(i - 1)
    <3> HIDE DEF f
    <3> QED  BY <1>3, ChoosesAnother
  <2>3. c \in 1..Len(f.sessions) /\ c # i
      BY <1>1, <2>2
  <2>4. kind \in Kinds \ {"hashes"}
        /\ IF r.task \in d.cdn THEN kind \in {"cdn", "reupload"} ELSE kind \in {"file", "expired"}
    <3>1. f.cdn = d.cdn
        BY <1>1 DEF Without
    <3> QED  BY <3>1 DEF Kinds
  <2> HIDE DEF f, c, kind
  <2>5. /\ Sane(e, i, x) /\ Kept(f, e) /\ Adds(f, e, r.task, r.part, c, kind)
        /\ \A s \in Tasks : Continues(d, e, s)
      BY <1>0, <1>1, <1>6, <2>1, <2>3, <2>4, Replaces
  <2>6. Removing(e, i, x)
      BY <1>0, <1>1, <1>2, <2>5 DEF Removing, Kept, Adds
  <2>7. PICK q \in Request : q.task = r.task /\ q.session = c /\ e.sent = f.sent \cup {q}
      BY <2>5 DEF Adds
  <2> QED  BY <1>1, <2>3, <2>5, <2>6, <2>7 DEF Moved, Kept, Without
<1> QED
    BY <1>5, <1>6

LEMMA RedirectsAll ==
    ASSUME NEW x \in Nat, NEW i \in Nat, NEW d, Removing(d, i, x), NEW t,
           NEW S, S \subseteq SentOf(d, t), NEW e, e = RedirectAll(d, S)
    PROVE  Removing(e, i, x) /\ Moved(d, e, t, i, S)
<1>0. IsFiniteSet(S)
  <2>1. IsFiniteSet(d.sent) /\ S \subseteq d.sent
      BY DEF Removing, Sane, Booked, SentOf
  <2> QED  BY <2>1, FS_Subset
<1>1. PICK after : RedirectedStepwise(after, d, S)
    BY <1>0, RedirectSteps
<1>2. /\ after[{}] = d
      /\ \A T \in SUBSET S : T # {} => \E r \in T : after[T] = Redirect(after[T \ {r}], r)
      /\ RedirectAll(d, S) = after[S]
    BY <1>1, Zenon DEF RedirectedStepwise
<1> DEFINE F == {T \in SUBSET S : Removing(after[T], i, x) /\ Moved(d, after[T], t, i, T)}
<1>3. {} \in F
  <2>1. Moved(d, d, t, i, {})
      BY DEF Moved, Continues
  <2> QED  BY <1>2, <2>1
<1>4. ASSUME NEW T \in SUBSET S, NEW r \in T, after[T] = Redirect(after[T \ {r}], r),
             T \ {r} \in F
      PROVE  T \in F
  <2> DEFINE b == after[T \ {r}]
             a == after[T]
  <2>1. Removing(b, i, x) /\ Moved(d, b, t, i, T \ {r})
      BY <1>4
  <2>2. a = Redirect(b, r)
      BY <1>4
  <2> HIDE DEF a, b
  <2>3. r \in d.sent /\ r.task = t
      BY DEF SentOf
  <2>4. r \in b.sent
      BY <2>1, <2>3 DEF Moved
  <2>5. Removing(a, i, x) /\ Moved(b, a, r.task, i, {r})
      BY <2>1, <2>2, <2>4, Redirects
  <2>6. Moved(d, a, t, i, T)
    <3>1. a.queue = d.queue /\ a.unchecked = d.unchecked
        BY <2>1, <2>5 DEF Moved
    <3>2. d.sent \ T \subseteq a.sent
        BY <2>1, <2>5 DEF Moved
    <3>3. ASSUME NEW q \in a.sent PROVE q \in d.sent \ T \/ (q.task = t /\ q.session # i)
      <4>1. q \in b.sent \ {r} \/ (q.task = t /\ q.session # i)
          BY <2>3, <2>5 DEF Moved
      <4>2. CASE q \in b.sent \ {r}
          BY <2>1, <4>2 DEF Moved
      <4> QED  BY <4>1, <4>2
    <3>4. ASSUME NEW s \in Tasks PROVE Continues(d, a, s)
      <4>1. Continues(d, b, s) /\ Continues(b, a, s)
          BY <2>1, <2>5 DEF Moved
      <4> QED  BY <4>1, ContinuesIsTransitive
    <3> QED  BY <3>1, <3>2, <3>3, <3>4 DEF Moved
  <2> QED  BY <2>5, <2>6 DEF a
<1>5. S \in F
  <2>1. ASSUME NEW T \in SUBSET S, T # {}, \A r \in T : T \ {r} \in F PROVE T \in F
    <3>1. PICK r \in T : after[T] = Redirect(after[T \ {r}], r)
        BY <1>2, <2>1
    <3> QED  BY <1>4, <2>1, <3>1
  <2> HIDE DEF F
  <2> QED  BY <1>0, <1>3, <2>1, SetInduction
<1> QED
    BY <1>2, <1>5

(* Everything of a task leaves the session, and nothing comes to it.       *)
Cleared(d, e, t, i) ==
    /\ e.queue = d.queue /\ Clear(e, t, i)
    /\ \A s \in Tasks : Continues(d, e, s) /\ (Clear(d, s, i) => Clear(e, s, i))

LEMMA RemovesFromSession ==
    ASSUME NEW x \in Nat, NEW i \in Nat, NEW d, Removing(d, i, x), NEW t \in Tasks,
           NEW e, e = RemoveFromSession(d, t, i)
    PROVE  Removing(e, i, x) /\ Cleared(d, e, t, i)
<1> DEFINE c == ChooseSessionIndex(d)
           Move(u) == IF u.session = i THEN [u EXCEPT !.session = c] ELSE u
           U == {Move(u) : u \in d.unchecked[t]}
           f == Unchecking(d, t, U)
           S == {r \in SentOf(d, t) : r.session = i}
<1>0. /\ Sane(d, i, x) /\ Len(d.sessions) = i /\ i > 1 /\ d.total <= x
      /\ d \in Manager /\ Ranged(d) /\ OneByOne(d) /\ AtCDN(d) /\ Reached(d)
    BY DEF Removing, Sane
<1>1. c \in 1..(i - 1)
    BY ChoosesAnother
<1> HIDE DEF c
<1>2. \A u \in d.unchecked[t] : u \in PartIn(Nat) /\ u.session \in 1..i
    BY <1>0 DEF Manager, Ranged
<1>3. \A u \in d.unchecked[t] :
        Move(u) \in PartIn(1..i) /\ Move(u).part = u.part /\ Move(u).session # i
    BY <1>0, <1>1, <1>2 DEF PartIn
<1> HIDE DEF Move
<1>4. Checkable(d, t, U)
  <2>1. U \subseteq PartIn(1..Len(d.sessions)) /\ \A u \in U : u.part \notin d.wanted[t]
      BY <1>0, <1>3 DEF OneByOne
  <2>2. \A u, v \in U : u.part = v.part => u = v
      BY <1>0, <1>3 DEF OneByOne
  <2>3. \A n : (\E u \in U : u.part = n) <=> (\E u \in d.unchecked[t] : u.part = n)
      BY <1>3
  <2>4. ASSUME NEW r \in d.sent, r.task = t
        PROVE  r.kind = "hashes" <=> \E u \in U : u.part = r.part
      BY <1>0, <2>3, <2>4 DEF OneByOne
  <2>5. U # {} => t \in d.cdn /\ InQueue(d, t)
      BY <1>0 DEF AtCDN, Reached, HaveSentRequests
  <2> QED  BY <2>1, <2>2, <2>4, <2>5 DEF Checkable
<1>5. Sane(f, i, x) /\ OnlyUnchecked(d, f, t, U)
  <2> HIDE DEF U
  <2> QED  BY <1>0, <1>4, SetUnchecked
<1>6. e = RedirectAll(f, S)
    BY DEF RemoveFromSession, Unchecking, Move, c
<1> HIDE DEF f
<1>7. Removing(f, i, x)
    BY <1>0, <1>5 DEF Removing, OnlyUnchecked
<1>8. ASSUME NEW s \in Tasks PROVE Continues(d, f, s) /\ SentOf(f, s) = SentOf(d, s)
  <2>1. SentOf(f, s) = SentOf(d, s)
      BY <1>5 DEF OnlyUnchecked, SentOf
  <2>2. CASE s = t
    <3>1. f.unchecked[t] = U
        BY <1>5 DEF OnlyUnchecked
    <3>2. \A n : (\E u \in U : u.part = n) <=> (\E u \in d.unchecked[t] : u.part = n)
        BY <1>3
    <3>3. PartsInHand(f, t) = PartsInHand(d, t)
      <4> HIDE DEF U
      <4>1. \A n : n \in PartsInHand(d, t) <=>
              (\E q \in SentOf(d, t) : q.part = n) \/ (\E w \in d.unchecked[t] : w.part = n)
          BY DEF PartsInHand
      <4>2. \A n : n \in PartsInHand(f, t) <=>
              (\E q \in SentOf(d, t) : q.part = n) \/ (\E w \in U : w.part = n)
          BY <2>1, <2>2, <3>1 DEF PartsInHand
      <4> QED  BY <3>2, <4>1, <4>2
    <3>4. U # {} => d.unchecked[t] # {}
        OBVIOUS
    <3>5. AskedFor(d, t) => AskedFor(f, t)
      <4> HIDE DEF U
      <4> QED  BY <1>5, <2>1, <2>2, <3>1, <3>4 DEF AskedFor, OnlyUnchecked
    <3> QED  BY <1>5, <2>1, <2>2, <3>3, <3>5 DEF Continues, OnlyUnchecked, InQueue
  <2>3. CASE s # t
    <3>1. Continues(d, f, s)
        BY <1>5, <2>1, <2>3, Untouched DEF OnlyUnchecked, InQueue
    <3> QED  BY <2>1, <3>1
  <2> QED  BY <2>2, <2>3
<1>9. Removing(e, i, x) /\ Moved(f, e, t, i, S)
  <2>1. S \subseteq SentOf(f, t)
      BY <1>8
  <2> HIDE DEF S
  <2> QED  BY <1>6, <1>7, <2>1, RedirectsAll
<1>10. Clear(e, t, i)
  <2>1. \A u \in e.unchecked[t] : u.session # i
    <3>1. e.unchecked[t] = U
        BY <1>5, <1>9 DEF Moved, OnlyUnchecked
    <3> QED  BY <1>3, <3>1
  <2>2. ASSUME NEW q \in e.sent, q.task = t PROVE q.session # i
    <3>1. q \in f.sent \ S \/ q.session # i
        BY <1>9 DEF Moved
    <3>2. CASE q \in f.sent \ S
      <4>1. q \in SentOf(d, t)
          BY <1>8, <2>2, <3>2 DEF SentOf
      <4> QED  BY <3>2, <4>1
    <3> QED  BY <3>1, <3>2
  <2> QED  BY <2>1, <2>2 DEF Clear
<1>11. ASSUME NEW s \in Tasks PROVE Continues(d, e, s) /\ (Clear(d, s, i) => Clear(e, s, i))
  <2>1. Continues(d, f, s) /\ Continues(f, e, s)
      BY <1>8, <1>9 DEF Moved
  <2>2. Continues(d, e, s)
      BY <2>1, ContinuesIsTransitive
  <2>3. CASE s = t
      BY <1>10, <2>2, <2>3
  <2>4. CASE s # t /\ Clear(d, s, i)
    <3>1. e.unchecked[s] = d.unchecked[s]
        BY <1>5, <1>9, <2>4 DEF Moved, OnlyUnchecked
    <3>2. ASSUME NEW q \in e.sent, q.task = s PROVE q.session # i
      <4>1. q \in f.sent
          BY <1>9, <2>4, <3>2 DEF Moved
      <4>2. q \in d.sent
          BY <1>5, <4>1 DEF OnlyUnchecked
      <4> QED  BY <2>4, <3>2, <4>2 DEF Clear
    <3>3. Clear(e, s, i)
        BY <2>4, <3>1, <3>2 DEF Clear
    <3> QED  BY <2>2, <3>3
  <2> QED  BY <2>2, <2>3, <2>4
<1>12. e.queue = d.queue
    BY <1>5, <1>9 DEF Moved, OnlyUnchecked
<1> QED
    BY <1>9, <1>10, <1>11, <1>12 DEF Cleared

RemovedStepwise(after, d, i) ==
    /\ after[0] = d
    /\ \A n \in 1..Len(d.queue) :
         after[n] = RemoveFromSession(after[n - 1], d.queue[n].task, i)
    /\ RemoveFromSessions(d, i) = after[Len(d.queue)]

LEMMA RemoveSteps ==
    ASSUME NEW d, NEW i, Len(d.queue) \in Nat
    PROVE  \E after : RemovedStepwise(after, d, i)
<1> DEFINE K == Len(d.queue)
           Step(b, n) == RemoveFromSession(b, d.queue[n].task, i)
           Is(g, N) == g = [n \in 0..N |-> IF n = 0 THEN d ELSE Step(g[n - 1], n)]
           S == {N \in Nat : \E g : Is(g, N)}
           after == CHOOSE g : Is(g, K)
<1>1. RemoveFromSessions(d, i) = after[K]
    BY DEF RemoveFromSessions
<1> HIDE DEF Step, K
<1>2. 0 \in S
  <2> DEFINE g == [n \in 0..0 |-> d]
  <2>1. Is(g, 0)
      OBVIOUS
  <2> QED  BY <2>1
<1>3. \A N \in Nat : N \in S => N + 1 \in S
  <2> SUFFICES ASSUME NEW N \in Nat, NEW g, Is(g, N) PROVE \E h : Is(h, N + 1)
      OBVIOUS
  <2> DEFINE last == Step(g[N], N + 1)
             h == [n \in 0..(N + 1) |-> IF n = N + 1 THEN last ELSE g[n]]
  <2>1. h = [n \in 0..(N + 1) |-> IF n = 0 THEN d ELSE Step(h[n - 1], n)]
    <3> SUFFICES ASSUME NEW n \in 0..(N + 1)
                 PROVE  h[n] = IF n = 0 THEN d ELSE Step(h[n - 1], n)
        OBVIOUS
    <3>1. CASE n = N + 1
      <4>1. n - 1 = N /\ n # 0 /\ h[N] = g[N]
          BY <3>1
      <4> QED  BY <3>1, <4>1
    <3>2. CASE n # N + 1
      <4>1. n \in 0..N /\ h[n] = g[n]
          BY <3>2
      <4>2. n # 0 => h[n - 1] = g[n - 1]
          BY <4>1
      <4> QED  BY <4>1, <4>2
    <3> QED  BY <3>1, <3>2
  <2> HIDE DEF h
  <2> QED  BY <2>1
<1>4. \E g : Is(g, K)
  <2>1. \A N \in Nat : N \in S
    <3> HIDE DEF S
    <3> QED  BY <1>2, <1>3, Induction
  <2>2. K \in Nat
      BY DEF K
  <2> QED  BY <2>1, <2>2
<1>5. Is(after, K)
    BY <1>4
<1> HIDE DEF after
<1>6. K \in Nat
    BY DEF K
<1>7. after[0] = d
    BY <1>5, <1>6
<1>8. ASSUME NEW n \in 1..K PROVE after[n] = Step(after[n - 1], n)
  <2>1. n \in 0..K /\ n # 0
      BY <1>6
  <2> QED  BY <1>5, <2>1
<1>9. RemovedStepwise(after, d, i)
    BY <1>1, <1>7, <1>8 DEF RemovedStepwise, Step, K
<1> QED
    BY <1>9

(* Every task with something in flight is in the queue, and so is reached. *)
LEMMA RemovesFromSessions ==
    ASSUME NEW x \in Nat, NEW i \in Nat, NEW d, Removing(d, i, x),
           NEW e, e = RemoveFromSessions(d, i)
    PROVE  /\ Removing(e, i, x) /\ \A t \in Tasks : Clear(e, t, i)
           /\ \A t \in Tasks : Continues(d, e, t)
<1> DEFINE K == Len(d.queue)
           t(n) == d.queue[n].task
<1>0. d.queue \in Seq(Entry) /\ K \in Nat /\ \A n \in 1..K : t(n) \in Tasks
  <2>1. d.queue \in Seq(Entry)
      BY DEF Removing, Sane, Manager
  <2>2. \A n \in 1..K : d.queue[n] \in Entry
      BY <2>1
  <2> QED  BY <2>1, <2>2 DEF Entry
<1>1. PICK after : RemovedStepwise(after, d, i)
    BY <1>0, RemoveSteps
<1>2. /\ after[0] = d /\ e = after[K]
      /\ \A n \in 1..K : after[n] = RemoveFromSession(after[n - 1], t(n), i)
    BY <1>1 DEF RemovedStepwise
<1> DEFINE Holds(b, n) == /\ Removing(b, i, x) /\ b.queue = d.queue
                          /\ \A s \in Tasks : Continues(d, b, s)
                          /\ \A j \in 1..n : Clear(b, t(j), i)
           S == {n \in Nat : n <= K => Holds(after[n], n)}
<1> HIDE DEF K, t
<1>3. 0 \in S
  <2>1. Holds(d, 0)
      BY DEF Continues
  <2> HIDE DEF Holds
  <2> QED  BY <1>2, <2>1
<1>4. \A n \in Nat : n \in S => n + 1 \in S
  <2> SUFFICES ASSUME NEW n \in Nat, n \in S, n + 1 <= K PROVE Holds(after[n + 1], n + 1)
    <3> HIDE DEF Holds
    <3> QED  OBVIOUS
  <2> DEFINE b == after[n]
             a == after[n + 1]
             s == t(n + 1)
  <2>1. Holds(b, n)
    <3>1. n <= K
        BY <1>0
    <3> HIDE DEF Holds
    <3> QED  BY <3>1
  <2>2. n + 1 \in 1..K /\ (n + 1) - 1 = n
      BY <1>0
  <2>3. a = RemoveFromSession(b, s, i) /\ s \in Tasks
      BY <1>0, <1>2, <2>2
  <2> HIDE DEF a, b
  <2>4. Removing(a, i, x) /\ Cleared(b, a, s, i)
    <3>1. Removing(b, i, x)
        BY <2>1
    <3> HIDE DEF s, Holds
    <3> QED  BY <2>3, <3>1, RemovesFromSession
  <2>5. a.queue = d.queue
      BY <2>1, <2>4 DEF Cleared
  <2>6. ASSUME NEW h \in Tasks PROVE Continues(d, a, h)
    <3>1. Continues(d, b, h) /\ Continues(b, a, h)
        BY <2>1, <2>4 DEF Cleared
    <3> QED  BY <3>1, ContinuesIsTransitive
  <2>7. ASSUME NEW j \in 1..(n + 1) PROVE Clear(a, t(j), i)
    <3>1. CASE j = n + 1
        BY <2>4, <3>1 DEF Cleared
    <3>2. CASE j # n + 1
      <4>1. j \in 1..n /\ j \in 1..K
          BY <1>0, <2>2, <3>2
      <4>2. Clear(b, t(j), i) /\ t(j) \in Tasks
          BY <1>0, <2>1, <4>1
      <4> QED  BY <2>4, <4>2 DEF Cleared
    <3> QED  BY <3>1, <3>2
  <2> QED  BY <2>4, <2>5, <2>6, <2>7 DEF a
<1>5. Holds(after[K], K)
  <2>1. \A n \in Nat : n \in S
    <3> HIDE DEF S
    <3> QED  BY <1>3, <1>4, Induction
  <2> HIDE DEF Holds
  <2> QED  BY <1>0, <2>1
<1>6. Holds(e, K)
    BY <1>2, <1>5
<1>7. ASSUME NEW s \in Tasks PROVE Clear(e, s, i)
  <2>1. CASE HaveSentRequests(e, s)
    <3>1. InQueue(e, s)
        BY <1>6, <2>1 DEF Removing, Sane, Reached
    <3>2. PICK n \in 1..K : t(n) = s
        BY <1>0, <1>6, <3>1 DEF InQueue, t, K
    <3> QED  BY <1>6, <3>2
  <2>2. CASE ~HaveSentRequests(e, s)
      BY <2>2 DEF HaveSentRequests, SentOf, Clear
  <2> QED  BY <2>1, <2>2
<1> QED
    BY <1>6, <1>7

Inflating(d, i, x) == [d EXCEPT !.sessions[i].requested = @ + x]
Dropping(d) == [d EXCEPT !.sessions = Front(@)]

LEMMA RemovesSession ==
    ASSUME NEW d, Sane(d, 0, 0), NEW i \in Nat, i = Len(d.sessions), i > 1,
           NEW x \in Nat, d.total <= x,
           NEW e, e = Dropping(RemoveFromSessions(Inflating(d, i, x), i))
    PROVE  Sane(e, 0, 0) /\ \A t \in Tasks : Continues(d, e, t)
<1> DEFINE b == Inflating(d, i, x)
           f == RemoveFromSessions(b, i)
<1>0. /\ d \in Manager /\ d.sessions \in Seq(Session) /\ d.queue \in Seq(Entry)
      /\ Ranged(d) /\ Booked(d, 0, 0)
    BY DEF Sane, Manager
<1>1. /\ Sane(b, i, x) /\ Len(b.sessions) = i /\ b.total = d.total
      /\ \A t \in Tasks : Continues(d, b, t)
  <2> DEFINE s == [d.sessions[i] EXCEPT !.requested = @ + x]
             W == [d.sessions EXCEPT ![i] = s]
  <2>1. s \in Session /\ s.requested = d.sessions[i].requested + x
    <3>1. d.sessions[i] \in Session
        BY <1>0
    <3> QED  BY <3>1 DEF Session
  <2>2. W = [d.sessions EXCEPT ![i].requested = @ + x]
      OBVIOUS
  <2> HIDE DEF s
  <2>3. W \in Seq(Session) /\ Len(W) = i
        /\ \A j \in 1..i : W[j] = IF j = i THEN s ELSE d.sessions[j]
      BY <1>0, <2>1
  <2>4. b = [d EXCEPT !.sessions = W]
      BY <1>0, <2>2 DEF Manager, Inflating
  <2> HIDE DEF W, b
  <2>5. /\ b \in Manager /\ (b.kill <=> d.kill) /\ b.sessions = W
        /\ b.queue = d.queue /\ b.sent = d.sent /\ b.unchecked = d.unchecked /\ b.cdn = d.cdn
        /\ b.posted = d.posted /\ b.wanted = d.wanted /\ b.total = d.total
      BY <1>0, <2>3, <2>4 DEF Manager
  <2>6. Booked(b, i, x)
    <3>1. ASSUME NEW j \in 1..Len(b.sessions)
          PROVE  b.sessions[j].requested = Cardinality(InSession(b.sent, j)) + (IF j = i THEN x ELSE 0)
      <4>1. /\ d.sessions[j].requested = Cardinality(InSession(d.sent, j)) + (IF j = 0 THEN 0 ELSE 0)
            /\ Cardinality(InSession(d.sent, j)) \in Nat
        <5>1. j \in 1..Len(d.sessions)
            BY <2>3, <2>5
        <5>2. Cardinality(InSession(d.sent, j)) \in Nat
            BY <1>0, <5>1, CountsAreNat
        <5> QED  BY <1>0, <5>1, <5>2 DEF Booked
      <4>2. b.sessions[j].requested =
              IF j = i THEN d.sessions[j].requested + x ELSE d.sessions[j].requested
          BY <2>1, <2>3, <2>5
      <4>3. InSession(b.sent, j) = InSession(d.sent, j)
          BY <2>5
      <4> QED  BY <4>1, <4>2, <4>3
    <3> QED  BY <1>0, <2>5, <3>1 DEF Booked
  <2>7. Ranged(b) /\ AtCDN(b) /\ OneByOne(b) /\ QueuedOnce(b)
      BY <2>3, <2>5 DEF Sane, Ranged, AtCDN, OneByOne, QueuedOnce
  <2>8. Reached(b)
      BY <2>5 DEF Sane, Reached, HaveSentRequests, SentOf, InQueue
  <2>9. ASSUME NEW t \in Tasks PROVE Continues(d, b, t)
    <3>1. SentOf(b, t) = SentOf(d, t)
        BY <2>5 DEF SentOf
    <3> QED  BY <2>5, <3>1, Untouched DEF InQueue
  <2> QED  BY <2>3, <2>5, <2>6, <2>7, <2>8, <2>9 DEF Sane
<1> HIDE DEF b
<1>2. Removing(b, i, x)
    BY <1>1 DEF Removing
<1>3. /\ Removing(f, i, x) /\ \A t \in Tasks : Clear(f, t, i)
      /\ \A t \in Tasks : Continues(b, f, t)
    BY <1>2, RemovesFromSessions
<1>4. e = Dropping(f)
    BY DEF b
<1> HIDE DEF f
<1>5. /\ f \in Manager /\ f.sessions \in Seq(Session) /\ Len(f.sessions) = i
      /\ Sane(f, i, x) /\ Ranged(f) /\ Booked(f, i, x) /\ f.sent \subseteq Request
    BY <1>3 DEF Removing, Sane, Manager
<1> DEFINE W == Front(f.sessions)
<1>6. W \in Seq(Session) /\ Len(W) = i - 1 /\ \A j \in 1..(i - 1) : W[j] = f.sessions[j]
  <2>1. \A j \in 1..(i - 1) : f.sessions[j] \in Session
      BY <1>5
  <2>2. i - 1 \in Int
      OBVIOUS
  <2>3. W = SubSeq(f.sessions, 1, i - 1)
      BY <1>5 DEF Front
  <2> HIDE DEF W
  <2>4. /\ W \in Seq(Session) /\ Len(W) = IF 1 <= i - 1 THEN (i - 1) - 1 + 1 ELSE 0
        /\ \A j \in 1..((i - 1) - 1 + 1) : W[j] = f.sessions[1 + j - 1]
      BY <2>1, <2>2, <2>3, SubSeqProperties
  <2> QED  BY <2>4
<1>7. e = [f EXCEPT !.sessions = W]
    BY <1>4, <1>5 DEF Manager, Dropping
<1> HIDE DEF W
<1>8. /\ e \in Manager /\ (e.kill <=> f.kill) /\ e.sessions = W
      /\ e.queue = f.queue /\ e.sent = f.sent /\ e.unchecked = f.unchecked /\ e.cdn = f.cdn
      /\ e.posted = f.posted /\ e.wanted = f.wanted /\ e.total = f.total
    BY <1>5, <1>6, <1>7 DEF Manager
<1>9. Booked(e, 0, 0)
  <2>1. ASSUME NEW j \in 1..Len(e.sessions)
        PROVE  e.sessions[j].requested = Cardinality(InSession(e.sent, j)) + (IF j = 0 THEN 0 ELSE 0)
    <3>1. j \in 1..i /\ j # i /\ e.sessions[j] = f.sessions[j]
        BY <1>6, <1>8
    <3>2. f.sessions[j].requested = Cardinality(InSession(f.sent, j)) + (IF j = i THEN x ELSE 0)
        BY <1>5, <3>1 DEF Booked
    <3>3. InSession(e.sent, j) = InSession(f.sent, j) /\ Cardinality(InSession(f.sent, j)) \in Nat
        BY <1>5, <1>8, <3>1, CountsAreNat
    <3> QED  BY <3>1, <3>2, <3>3
  <2> QED  BY <1>5, <1>8, <2>1 DEF Booked
<1>10. Ranged(e)
  <2>1. Len(e.sessions) = i - 1 /\ i - 1 \in 1..MaxSessions
      BY <1>5, <1>6, <1>8, SessionsAssumption DEF Ranged
  <2>2. ASSUME NEW r \in f.sent PROVE r.session \in 1..(i - 1)
    <3>1. r.task \in Tasks /\ r.session \in 1..i
        BY <1>5 DEF Ranged, Request
    <3>2. r.session # i
        BY <1>3, <3>1 DEF Clear
    <3> QED  BY <3>1, <3>2
  <2>3. ASSUME NEW t \in Tasks, NEW u \in f.unchecked[t] PROVE u.session \in 1..(i - 1)
    <3>1. u.session \in 1..i /\ u.session # i
        BY <1>3, <1>5 DEF Ranged, Clear
    <3> QED  BY <3>1
  <2> QED  BY <1>8, <2>1, <2>2, <2>3 DEF Ranged
<1>11. AtCDN(e) /\ OneByOne(e) /\ QueuedOnce(e)
    BY <1>5, <1>8 DEF Sane, AtCDN, OneByOne, QueuedOnce
<1>12. Reached(e)
    BY <1>5, <1>8 DEF Sane, Reached, HaveSentRequests, SentOf, InQueue
<1>13. ASSUME NEW t \in Tasks PROVE Continues(d, e, t)
  <2>1. SentOf(e, t) = SentOf(f, t)
      BY <1>8 DEF SentOf
  <2>2. Continues(f, e, t)
      BY <1>8, <2>1, Untouched DEF InQueue
  <2>3. Continues(d, b, t) /\ Continues(b, f, t)
      BY <1>1, <1>3
  <2> QED  BY <2>2, <2>3, ContinuesIsTransitive
<1> QED
    BY <1>8, <1>9, <1>10, <1>11, <1>12, <1>13 DEF Sane

(* Sessions are killed when nothing is out.                                *)
Killing(d) ==
    [d EXCEPT !.kill = FALSE, !.total = 0, !.sessions = [i \in DOMAIN @ |-> NewSession]]

LEMMA Kills ==
    ASSUME NEW d, Sane(d, 0, 0), d.kill, NEW e, e = Killing(d)
    PROVE  Sane(e, 0, 0) /\ \A t \in Tasks : Continues(d, e, t)
<1> DEFINE s == NewSession
           W == [i \in DOMAIN d.sessions |-> s]
           no == FALSE
           none == 0
<1>0. d \in Manager /\ d.sessions \in Seq(Session) /\ Ranged(d) /\ Booked(d, 0, 0)
    BY DEF Sane, Manager
<1>1. s \in Session /\ s.requested = 0
    BY SessionsAssumption DEF Session, NewSession
<1>2. no \in BOOLEAN /\ ~no /\ none \in Int
    OBVIOUS
<1>3. e = [d EXCEPT !.kill = no, !.total = none, !.sessions = W]
    BY <1>0 DEF Killing, Manager
<1> HIDE DEF s, no, none
<1>4. W \in Seq(Session) /\ Len(W) = Len(d.sessions) /\ \A j \in 1..Len(W) : W[j] = s
    BY <1>0, <1>1
<1> HIDE DEF W
<1>5. /\ e \in Manager /\ ~e.kill /\ e.sessions = W /\ e.total = 0
      /\ e.queue = d.queue /\ e.sent = d.sent /\ e.unchecked = d.unchecked /\ e.cdn = d.cdn
      /\ e.posted = d.posted /\ e.wanted = d.wanted
  <2>1. e \in Manager
      BY <1>0, <1>2, <1>3, <1>4 DEF Manager
  <2>2. (e.kill <=> no) /\ e.sessions = W /\ e.total = none
      BY <1>0, <1>2, <1>3 DEF Manager
  <2>3. /\ e.queue = d.queue /\ e.sent = d.sent /\ e.unchecked = d.unchecked /\ e.cdn = d.cdn
        /\ e.posted = d.posted /\ e.wanted = d.wanted
      BY <1>0, <1>3 DEF Manager
  <2> QED  BY <1>2, <2>1, <2>2, <2>3 DEF none
<1>6. d.sent = {} /\ Cardinality(d.sent) = 0
    BY <1>0, FS_EmptySet DEF Booked
<1>7. Booked(e, 0, 0)
  <2>1. ASSUME NEW j \in 1..Len(e.sessions)
        PROVE  e.sessions[j].requested = Cardinality(InSession(e.sent, j)) + (IF j = 0 THEN 0 ELSE 0)
    <3>1. InSession(e.sent, j) = {}
        BY <1>5, <1>6 DEF InSession
    <3>2. Cardinality(InSession(e.sent, j)) = 0
        BY <3>1, FS_EmptySet
    <3>3. e.sessions[j].requested = 0
        BY <1>1, <1>4, <1>5
    <3> QED  BY <3>2, <3>3
  <2>2. IsFiniteSet(e.sent)
      BY <1>5, <1>6, FS_EmptySet
  <2> QED  BY <1>5, <1>6, <2>1, <2>2 DEF Booked
<1>8. Ranged(e) /\ AtCDN(e) /\ OneByOne(e) /\ QueuedOnce(e)
    BY <1>4, <1>5 DEF Sane, Ranged, AtCDN, OneByOne, QueuedOnce
<1>9. Reached(e)
    BY <1>5 DEF Sane, Reached, HaveSentRequests, SentOf, InQueue
<1>10. ASSUME NEW t \in Tasks PROVE Continues(d, e, t)
  <2>1. SentOf(e, t) = SentOf(d, t)
      BY <1>5 DEF SentOf
  <2> QED  BY <1>5, <2>1, Untouched DEF InQueue
<1> QED
    BY <1>5, <1>7, <1>8, <1>9, <1>10 DEF Sane

(* The timer changes priorities, not tasks.                                *)
Sinking(q) == [i \in DOMAIN q |-> IF q[i].prio = 0 THEN [q[i] EXCEPT !.prio = -1] ELSE q[i]]

LEMMA Sinks ==
    ASSUME NEW d, Sane(d, 0, 0), NEW e, e = Queueing(d, Sinking(d.queue), FALSE)
    PROVE  Sane(e, 0, 0) /\ \A t \in Tasks : Continues(d, e, t)
<1> DEFINE q == Sinking(d.queue)
           no == FALSE
<1>0. d.queue \in Seq(Entry) /\ DOMAIN d.queue = 1..Len(d.queue) /\ QueuedOnce(d) /\ Reached(d)
  <2>1. d.queue \in Seq(Entry) /\ QueuedOnce(d) /\ Reached(d)
      BY DEF Sane, Manager
  <2> QED  BY <2>1
<1>1. \A j \in 1..Len(d.queue) : q[j] \in Entry /\ q[j].task = d.queue[j].task
  <2>1. ASSUME NEW j \in 1..Len(d.queue) PROVE q[j] \in Entry /\ q[j].task = d.queue[j].task
    <3>1. d.queue[j] \in Entry
        BY <1>0
    <3>2. q[j] = IF d.queue[j].prio = 0 THEN [d.queue[j] EXCEPT !.prio = -1] ELSE d.queue[j]
        BY <1>0 DEF Sinking
    <3> HIDE DEF q
    <3> QED  BY <3>1, <3>2 DEF Entry
  <2> QED  BY <2>1
<1>2. q \in Seq(Entry) /\ DOMAIN q = DOMAIN d.queue
  <2>1. DOMAIN q = 1..Len(d.queue) /\ q = [j \in 1..Len(d.queue) |-> q[j]]
      BY <1>0 DEF Sinking
  <2>2. Len(d.queue) \in Nat
      BY <1>0
  <2> HIDE DEF q
  <2> QED  BY <1>0, <1>1, <2>1, <2>2
<1> HIDE DEF q
<1>3. Once(q) /\ \A s : TaskIn(q, s) <=> InQueue(d, s)
  <2>1. Once(q)
      BY <1>0, <1>1, <1>2 DEF Once, QueuedOnce
  <2>2. ASSUME NEW s PROVE TaskIn(q, s) <=> InQueue(d, s)
      BY <1>0, <1>1, <1>2 DEF TaskIn, InQueue
  <2> QED  BY <2>1, <2>2
<1>4. e = Queueing(d, q, no) /\ no \in BOOLEAN
    BY DEF q
<1> HIDE DEF no
<1>5. Sane(e, 0, 0) /\ OnlyQueue(d, e, q)
  <2>1. \A s \in Tasks : HaveSentRequests(d, s) => TaskIn(q, s)
      BY <1>0, <1>3 DEF Reached
  <2> QED  BY <1>2, <1>3, <1>4, <2>1, SetQueue
<1>6. ASSUME NEW t \in Tasks PROVE Continues(d, e, t)
  <2>1. SentOf(e, t) = SentOf(d, t)
      BY <1>5 DEF SentOf, OnlyQueue
  <2>2. InQueue(e, t) <=> InQueue(d, t)
      BY <1>3, <1>5 DEF InQueue, TaskIn, OnlyQueue
  <2> QED  BY <1>5, <2>1, <2>2, Untouched DEF OnlyQueue
<1> QED
    BY <1>5, <1>6

(* A request is kept with another state of it: nothing else changes.       *)
Relabelling(d, r, q) == [d EXCEPT !.sent = (@ \ {r}) \cup {q}]

Relabelled(r, q) ==
    /\ q \in Request /\ q.task = r.task /\ q.part = r.part /\ q.session = r.session
    /\ q.kind = r.kind \/ (r.kind = "file" /\ q.kind = "expired")

(* Another kind of request, or one that nobody answers any more.           *)
LEMMA Relabels ==
    ASSUME NEW d, Sane(d, 0, 0), NEW r \in d.sent, NEW q, Relabelled(r, q),
           NEW e, e = Relabelling(d, r, q)
    PROVE  /\ Sane(e, 0, 0) /\ \A t \in Tasks \ {r.task} : Continues(d, e, t)
           /\ (q.over => r.over) => \A t \in Tasks : Continues(d, e, t)
<1> DEFINE S == (d.sent \ {r}) \cup {q}
<1>0. /\ d \in Manager /\ d.sent \subseteq Request /\ r \in Request /\ q \in Request
      /\ Ranged(d) /\ Booked(d, 0, 0) /\ OneByOne(d) /\ AtCDN(d) /\ Reached(d) /\ QueuedOnce(d)
    BY DEF Sane, Manager, Relabelled
<1>1. /\ q.task = r.task /\ q.part = r.part /\ q.session = r.session
      /\ q.kind = "hashes" <=> r.kind = "hashes"
      /\ q.kind = r.kind \/ (r.kind = "file" /\ q.kind = "expired")
    BY DEF Relabelled
<1>2. S \subseteq Request
    BY <1>0
<1>3. q \notin d.sent \ {r}
    BY <1>0, <1>1 DEF OneByOne
<1>4. e = [d EXCEPT !.sent = S]
    BY DEF Relabelling
<1> HIDE DEF S
<1>5. /\ e \in Manager /\ (e.kill <=> d.kill) /\ e.sent = S
      /\ e.queue = d.queue /\ e.unchecked = d.unchecked /\ e.cdn = d.cdn
      /\ e.posted = d.posted /\ e.wanted = d.wanted /\ e.total = d.total
      /\ e.sessions = d.sessions
    BY <1>0, <1>2, <1>4 DEF Manager
<1>6. \A o : o \in S <=> (o \in d.sent /\ o # r) \/ o = q
    BY DEF S
<1>7. Booked(e, 0, 0)
  <2>0. IsFiniteSet(d.sent)
      BY <1>0 DEF Booked
  <2>1. IsFiniteSet(S) /\ Cardinality(S) = Cardinality(d.sent)
    <3>1. IsFiniteSet(d.sent \ {r}) /\ Cardinality(d.sent \ {r}) = Cardinality(d.sent) - 1
          /\ Cardinality(d.sent) \in Nat
        BY <2>0, FS_RemoveElement, FS_CardinalityType
    <3>2. IsFiniteSet(S) /\ Cardinality(S) = Cardinality(d.sent \ {r}) + 1
        BY <1>3, <3>1, FS_AddElement DEF S
    <3> QED  BY <3>1, <3>2
  <2>2. ASSUME NEW j \in 1..Len(d.sessions)
        PROVE  Cardinality(InSession(S, j)) = Cardinality(InSession(d.sent, j))
    <3> DEFINE A == InSession(d.sent, j)
    <3>1. IsFiniteSet(A) /\ Cardinality(A) \in Nat
        BY <1>0, CountsAreNat
    <3>2. CASE r.session = j
      <4>1. r \in A /\ q \notin A \ {r}
          BY <1>3, <3>2 DEF InSession
      <4>2. InSession(S, j) = (A \ {r}) \cup {q}
          BY <1>1, <1>6, <3>2 DEF InSession
      <4> HIDE DEF A
      <4>3. IsFiniteSet(A \ {r}) /\ Cardinality(A \ {r}) = Cardinality(A) - 1
          BY <3>1, <4>1, FS_RemoveElement
      <4>4. Cardinality((A \ {r}) \cup {q}) = Cardinality(A \ {r}) + 1
          BY <4>1, <4>3, FS_AddElement
      <4> QED  BY <3>1, <4>2, <4>3, <4>4 DEF A
    <3>3. CASE r.session # j
      <4>1. InSession(S, j) = A
          BY <1>1, <1>6, <3>3 DEF InSession
      <4> QED  BY <4>1
    <3> QED  BY <3>2, <3>3
  <2>3. d.kill => S = {}
      BY <1>0 DEF Booked
  <2> QED  BY <1>0, <1>5, <2>1, <2>2, <2>3 DEF Booked
<1>8. Ranged(e) /\ QueuedOnce(e)
    BY <1>0, <1>1, <1>5, <1>6 DEF Ranged, QueuedOnce
<1>9. AtCDN(e)
    BY <1>0, <1>1, <1>5, <1>6 DEF AtCDN
<1>10. OneByOne(e)
  <2> DEFINE back(o) == IF o = q THEN r ELSE o
  <2>1. \A o \in S : /\ back(o) \in d.sent /\ back(o).task = o.task /\ back(o).part = o.part
                     /\ back(o).kind = "hashes" <=> o.kind = "hashes"
      BY <1>1, <1>6
  <2>2. \A o, p \in S : back(o) = back(p) => o = p
      BY <1>6
  <2> HIDE DEF back
  <2>3. \A o, p \in S : o.task = p.task /\ o.part = p.part => o = p
      BY <1>0, <2>1, <2>2 DEF OneByOne
  <2>4. \A o, p \in S : o.task = p.task /\ o.kind = "hashes" /\ p.kind = "hashes" => o = p
      BY <1>0, <2>1, <2>2 DEF OneByOne
  <2>5. \A o \in S : o.kind = "hashes" <=> \E u \in d.unchecked[o.task] : u.part = o.part
      BY <1>0, <2>1 DEF OneByOne
  <2>6. \A o \in S : o.part \notin d.wanted[o.task]
      BY <1>0, <2>1 DEF OneByOne
  <2> QED  BY <1>0, <1>5, <2>3, <2>4, <2>5, <2>6 DEF OneByOne
<1>11. ASSUME NEW t \in Tasks
       PROVE  /\ HaveSentRequests(e, t) => HaveSentRequests(d, t)
              /\ t # r.task \/ (q.over => r.over) => Continues(d, e, t)
  <2>1. CASE t = r.task
    <3>1. \A n : (\E o \in SentOf(e, t) : o.part = n) <=> (\E o \in SentOf(d, t) : o.part = n)
        BY <1>1, <1>5, <1>6, <2>1 DEF SentOf
    <3>2. PartsInHand(e, t) = PartsInHand(d, t)
      <4>1. \A n : n \in PartsInHand(d, t) <=>
              (\E o \in SentOf(d, t) : o.part = n) \/ (\E w \in d.unchecked[t] : w.part = n)
          BY DEF PartsInHand
      <4>2. \A n : n \in PartsInHand(e, t) <=>
              (\E o \in SentOf(e, t) : o.part = n) \/ (\E w \in d.unchecked[t] : w.part = n)
          BY <1>5 DEF PartsInHand
      <4> QED  BY <3>1, <4>1, <4>2
    <3>3. (q.over => r.over) => (AskedFor(d, t) => AskedFor(e, t))
      <4>1. ASSUME NEW o \in SentOf(d, t), o.kind = "hashes"
            PROVE  \E p \in SentOf(e, t) : p.kind = "hashes"
        <5>1. CASE o = r
            BY <1>1, <1>5, <1>6, <2>1, <4>1, <5>1 DEF SentOf
        <5>2. CASE o # r
            BY <1>5, <1>6, <4>1, <5>2 DEF SentOf
        <5> QED  BY <5>1, <5>2
      <4>2. \A o \in SentOf(e, t) : o \in SentOf(d, t) \/ o = q
          BY <1>5, <1>6 DEF SentOf
      <4>3. r \in SentOf(d, t)
          BY <2>1 DEF SentOf
      <4> QED  BY <1>5, <4>1, <4>2, <4>3 DEF AskedFor
    <3>4. HaveSentRequests(d, t)
        BY <2>1 DEF HaveSentRequests, SentOf
    <3>5. (InQueue(e, t) <=> InQueue(d, t)) /\ e.wanted[t] = d.wanted[t]
        BY <1>5 DEF InQueue
    <3>6. ASSUME q.over => r.over PROVE Continues(d, e, t)
        BY <3>2, <3>3, <3>5, <3>6 DEF Continues
    <3> QED  BY <2>1, <3>4, <3>6
  <2>2. CASE t # r.task
    <3>1. SentOf(e, t) = SentOf(d, t)
        BY <1>1, <1>5, <1>6, <2>2 DEF SentOf
    <3>2. Continues(d, e, t)
        BY <1>5, <3>1, Untouched DEF InQueue
    <3> QED  BY <1>5, <3>1, <3>2 DEF HaveSentRequests
  <2> QED  BY <2>1, <2>2
<1>12. Reached(e)
    BY <1>0, <1>5, <1>11 DEF Reached, InQueue
<1> QED
    BY <1>5, <1>7, <1>8, <1>9, <1>10, <1>11, <1>12 DEF Sane

-----------------------------------------------------------------------------
(* A task is given parts, or gives up all that it has.                     *)

(* Its last part may finish it: then it leaves the queue.                  *)
LEMMA Feeds ==
    ASSUME NEW d, Sane(d, 0, 0), NEW t \in Tasks, NEW done,
           t \in Files \cup Preloads => PlacedAt(d, t, "on", done),
           NEW e, e = AfterFeed(d, t)
    PROVE  /\ Sane(e, 0, 0) /\ \A s \in Tasks \ {t} : Continues(d, e, s)
           /\ AskedFor(d, t) => AskedFor(e, t)
           /\ t \in Files \cup Preloads =>
                PlacedAt(e, t, IF Finished(d, t) THEN "done" ELSE "on", done)
<1>1. CASE ~Finished(d, t)
  <2>1. e = d
      BY <1>1 DEF AfterFeed
  <2> QED  BY <1>1, <2>1 DEF Continues
<1>2. CASE Finished(d, t)
  <2>1. /\ ~HaveSentRequests(d, t) /\ t \in Files \cup Preloads
        /\ (t \in Files /\ d.wanted[t] = {}) \/ (t \in Preloads /\ d.wanted[t] \subseteq {NumParts})
      BY <1>2 DEF Finished
  <2>2. e = Removed(d, t)
      BY <1>2 DEF AfterFeed
  <2>3. Sane(e, 0, 0) /\ Further(d, e) /\ Leaves(d, e, t)
      BY <2>1, <2>2, Removes
  <2>4. ASSUME NEW s \in Tasks \ {t} PROVE Continues(d, e, s)
      BY <2>3, FurtherContinues DEF Leaves
  <2>5. AskedFor(d, t) => AskedFor(e, t)
      BY <2>3 DEF Further, AskedFor, SentOf, Fresh
  <2>6. /\ PartsInHand(d, t) = {} /\ PartsInHand(e, t) \cap e.wanted[t] = {}
        /\ d.wanted[t] \subseteq Parts
      BY <2>1, <2>3, InHand
  <2>7. ~InQueue(e, t) /\ e.wanted[t] = d.wanted[t]
        /\ e.wanted[t] \cup PartsInHand(e, t) = d.wanted[t] \cup PartsInHand(d, t)
      BY <2>3 DEF Leaves, Further
  <2>8. PartsInHand(e, t) = {}
      BY <2>6, <2>7
  <2>9. Parts = d.wanted[t] \cup PartsInHand(d, t) \cup done
        /\ done \cap (PartsInHand(d, t) \cup d.wanted[t]) = {}
      BY <2>1 DEF PlacedAt
  <2>10. IF t \in Files THEN done = Parts ELSE Parts \ {NumParts} \subseteq done
    <3>1. CASE t \in Files
      <4>1. t \notin Preloads
          BY <3>1, TasksAssumption
      <4> QED  BY <2>1, <2>6, <2>9, <3>1, <4>1
    <3>2. CASE t \notin Files
        BY <2>1, <2>6, <2>9, <3>2
    <3> QED  BY <3>1, <3>2
  <2>11. PlacedAt(e, t, "done", done)
      BY <2>6, <2>7, <2>8, <2>9, <2>10 DEF PlacedAt
  <2> QED  BY <1>2, <2>3, <2>4, <2>5, <2>11
<1> QED
    BY <1>1, <1>2

(* cancelAllRequests, and nothing left to ask for.                         *)
Emptied(d, t) == [CancelAllRequests(d, t) EXCEPT !.wanted[t] = {}]

LEMMA Empties ==
    ASSUME NEW d, Sane(d, 0, 0), NEW t \in Tasks, NEW e, e = Emptied(d, t)
    PROVE  /\ Sane(e, 0, 0) /\ \A s \in Tasks \ {t} : Continues(d, e, s)
           /\ e.unchecked[t] = {} /\ e.wanted[t] = {} /\ PartsInHand(e, t) = {}
<1> DEFINE S == SentOf(d, t)
           none == {}
           f == CancelRequests(d, S)
           g == Unchecking(f, t, none)
<1>1. e = Wanting(g, t, none)
    BY DEF Emptied, CancelAllRequests, Unchecking, Wanting
<1>2. Sane(f, 0, 0) /\ Without(d, f, S)
  <2>1. S \subseteq d.sent /\ f = CancelRequests(d, S) /\ Sane(d, 0, 0) /\ 0 \in Nat
      BY DEF SentOf
  <2> HIDE DEF S, f
  <2> QED  BY ONLY <2>1, Cancels
<1> HIDE DEF f
<1>3. \A r \in f.sent : r.task # t
    BY <1>2 DEF Without, SentOf
<1>4. Sane(g, 0, 0) /\ OnlyUnchecked(f, g, t, none)
  <2>1. Checkable(f, t, none)
      BY <1>3 DEF Checkable
  <2> HIDE DEF none
  <2> QED  BY <1>2, <2>1, SetUnchecked
<1> HIDE DEF g
<1>5. PartsInHand(g, t) = {}
    BY <1>3, <1>4 DEF PartsInHand, SentOf, OnlyUnchecked
<1>6. Sane(e, 0, 0) /\ OnlyWanted(g, e, t, none)
  <2>1. none \subseteq Parts /\ none \cap PartsInHand(g, t) = {}
      OBVIOUS
  <2> HIDE DEF none
  <2> QED  BY <1>1, <1>4, <2>1, SetWanted
<1>7. e.unchecked[t] = {} /\ e.wanted[t] = {} /\ e.sent = f.sent
    BY <1>4, <1>6 DEF OnlyWanted, OnlyUnchecked
<1>8. PartsInHand(e, t) = {}
    BY <1>3, <1>7 DEF PartsInHand, SentOf
<1>9. ASSUME NEW s \in Tasks \ {t} PROVE Continues(d, e, s)
  <2>1. SentOf(e, s) = SentOf(d, s)
      BY <1>2, <1>7 DEF Without, SentOf
  <2>2. /\ e.unchecked[s] = d.unchecked[s] /\ e.wanted[s] = d.wanted[s] /\ e.queue = d.queue
        /\ s \in d.posted => s \in e.posted
      BY <1>2, <1>4, <1>6 DEF Without, OnlyUnchecked, OnlyWanted
  <2> QED  BY <2>1, <2>2, Untouched DEF InQueue
<1> QED
    BY <1>6, <1>7, <1>8, <1>9

-----------------------------------------------------------------------------
(* Steps.                                                                  *)

Typed ==
    /\ known \in [Tasks -> SUBSET Parts] /\ fed \in [Tasks -> SUBSET Parts]
    /\ stage \in [Tasks -> {"new", "on", "done", "failed", "gone"}]
    /\ priority \in [Loaders -> 0..1]

(* A step that concerns one task, and leaves the others as they were.      *)
LEMMA StepOf ==
    ASSUME Sound, Typed', Sane(m', 0, 0), NEW t \in Tasks,
           \A s \in Tasks \ {t} :
                Continues(m, m', s) /\ stage'[s] = stage[s] /\ fed'[s] = fed[s],
           stage'[t] = "failed" \/ AskedFor(m', t),
           t \in Files \cup Preloads => PlacedAt(m', t, stage'[t], fed'[t])
    PROVE  Sound'
<1>1. Asked'
  <2> SUFFICES ASSUME NEW s \in Tasks PROVE stage'[s] = "failed" \/ AskedFor(m', s)
      BY DEF Asked
  <2>1. CASE s # t
      BY <2>1 DEF Sound, Asked, Continues
  <2> QED  BY <2>1
<1>2. ASSUME NEW s \in Files \cup Preloads PROVE PlacedAt(m', s, stage'[s], fed'[s])
  <2>1. CASE s # t
    <3>1. s \in Tasks /\ PlacedAt(m, s, stage[s], fed[s]) /\ Sane(m, 0, 0)
        BY DEF Tasks, Sound
    <3>2. Continues(m, m', s) /\ stage'[s] = stage[s] /\ fed'[s] = fed[s]
        BY <2>1, <3>1
    <3>3. PlacedAt(m', s, stage[s], fed[s])
        BY <3>1, <3>2, ContinuesKeepsPlaced
    <3> QED  BY <3>2, <3>3
  <2> QED  BY <2>1
<1> QED
    BY <1>1, <1>2 DEF Sound, Typed

LEMMA StepOfAll ==
    ASSUME Sound, Sane(m', 0, 0), known' \in [Tasks -> SUBSET Parts],
           \A s \in Tasks : Continues(m, m', s),
           UNCHANGED <<stage, priority, fed>>
    PROVE  Sound'
<1>1. Asked'
    BY DEF Sound, Asked, Continues
<1>2. ASSUME NEW s \in Files \cup Preloads PROVE PlacedAt(m', s, stage'[s], fed'[s])
  <2>1. s \in Tasks /\ PlacedAt(m, s, stage[s], fed[s]) /\ Sane(m, 0, 0)
      BY DEF Tasks, Sound
  <2>2. PlacedAt(m', s, stage[s], fed[s])
      BY <2>1, ContinuesKeepsPlaced
  <2> QED  BY <2>2
<1> QED
    BY <1>1, <1>2 DEF Sound

LEMMA StartKeeps ==
    ASSUME Sound, NEW t \in Tasks, Start(t)
    PROVE  Sound'
<1>0. /\ Sane(m, 0, 0) /\ Asked /\ Typed
      /\ t \in Files \cup Preloads /\ PlacedAt(m, t, "new", fed[t])
    BY DEF Sound, Typed, Start, Tasks
<1>1. /\ m' = Enqueue(m, t, 0) /\ stage' = [stage EXCEPT ![t] = "on"]
      /\ UNCHANGED <<known, priority, fed>>
    BY DEF Start
<1>2. Sane(m', 0, 0) /\ Further(m, m') /\ Joins(m, m', t)
    BY <1>0, <1>1, Enqueues
<1>3. Typed'
    BY <1>0, <1>1 DEF Typed
<1>4. ASSUME NEW s \in Tasks \ {t}
      PROVE  Continues(m, m', s) /\ stage'[s] = stage[s] /\ fed'[s] = fed[s]
  <2>1. Continues(m, m', s)
      BY <1>2, FurtherContinues DEF Joins
  <2> QED  BY <1>0, <1>1, <2>1 DEF Typed
<1>5. AskedFor(m', t)
  <2>1. stage[t] = "new" /\ AskedFor(m, t)
      BY <1>0 DEF Start, Asked
  <2> QED  BY <1>2, <2>1 DEF AskedFor, Further, SentOf, Fresh
<1>6. PlacedAt(m', t, stage'[t], fed'[t])
  <2>1. m.wanted[t] = Parts /\ fed[t] = {}
      BY <1>0 DEF PlacedAt
  <2>2. m'.wanted[t] \cup PartsInHand(m', t) = m.wanted[t] \cup PartsInHand(m, t)
      BY <1>2 DEF Further
  <2>3. PartsInHand(m, t) \subseteq Parts
      BY <1>0, InHand
  <2>4. stage'[t] = "on" /\ fed'[t] = {}
      BY <1>0, <1>1, <2>1 DEF Typed
  <2> QED  BY <2>1, <2>2, <2>3, <2>4 DEF PlacedAt
<1> QED
    BY <1>2, <1>3, <1>4, <1>5, <1>6, StepOf

LEMMA LoadKeeps ==
    ASSUME Sound, NEW t \in Tasks, NEW p \in Parts, Load(t, p)
    PROVE  Sound'
<1> DEFINE W == m.wanted[t] \cup {p}
           f == Wanting(m, t, W)
<1>0. /\ Sane(m, 0, 0) /\ Asked /\ Typed /\ priority[t] \in -1..1
      /\ t \in Loaders /\ t \notin Files \cup Preloads
  <2>1. t \in Loaders
      BY DEF Load
  <2> QED  BY <2>1, TasksAssumption DEF Sound, Typed
<1>1. /\ m' = Enqueue(f, t, priority[t]) /\ fed' = [fed EXCEPT ![t] = @ \ {p}]
      /\ UNCHANGED <<known, stage, priority>> /\ p \notin PartsInHand(m, t) \cup m.wanted[t]
    BY DEF Load, Wanting
<1>2. Sane(f, 0, 0) /\ OnlyWanted(m, f, t, W)
  <2>1. W \subseteq Parts /\ W \cap PartsInHand(m, t) = {}
      BY <1>0, <1>1, InHand
  <2> HIDE DEF W
  <2> QED  BY <1>0, <2>1, SetWanted
<1> HIDE DEF f
<1>3. Sane(m', 0, 0) /\ Further(f, m') /\ Joins(f, m', t)
    BY <1>0, <1>1, <1>2, Enqueues
<1>4. Typed'
    BY <1>0, <1>1 DEF Typed
<1>5. ASSUME NEW s \in Tasks \ {t}
      PROVE  Continues(m, m', s) /\ stage'[s] = stage[s] /\ fed'[s] = fed[s]
  <2>1. Continues(f, m', s)
      BY <1>3, FurtherContinues DEF Joins
  <2>2. SentOf(f, s) = SentOf(m, s)
      BY <1>2 DEF OnlyWanted, SentOf
  <2>3. Continues(m, f, s)
      BY <1>2, <2>2, Untouched DEF OnlyWanted, InQueue
  <2>4. Continues(m, m', s)
      BY <2>1, <2>3, ContinuesIsTransitive
  <2> QED  BY <1>0, <1>1, <2>4 DEF Typed
<1>6. stage'[t] = "failed" \/ AskedFor(m', t)
  <2>1. stage'[t] = "failed" \/ AskedFor(m, t)
      BY <1>0, <1>1 DEF Asked
  <2>2. /\ m'.unchecked = m.unchecked /\ m'.posted = m.posted
        /\ m.sent \subseteq m'.sent /\ Fresh(m, m')
      BY <1>2, <1>3 DEF OnlyWanted, Further, Fresh
  <2> QED  BY <2>1, <2>2 DEF AskedFor, SentOf, Fresh
<1> QED
    BY <1>0, <1>3, <1>4, <1>5, <1>6, StepOf

LEMMA CancelForOffsetKeeps ==
    ASSUME Sound, NEW t \in Tasks, NEW p \in Parts, CancelForOffset(t, p)
    PROVE  Sound'
<1> DEFINE S == {r \in SentOf(m, t) : r.part = p}
           f == CancelRequests(m, S)
           U == {u \in f.unchecked[t] : u.part # p}
           left == Unchecking(f, t, U)
<1>0. /\ Sane(m, 0, 0) /\ Asked /\ Typed /\ priority[t] \in -1..1
      /\ t \in Loaders /\ t \notin Files \cup Preloads
  <2>1. t \in Loaders
      BY DEF CancelForOffset
  <2> QED  BY <2>1, TasksAssumption DEF Sound, Typed
<1>1. /\ m' = left \/ m' = Enqueue(left, t, priority[t])
      /\ UNCHANGED <<known, stage, priority, fed>>
    BY DEF CancelForOffset, Unchecking
<1>2. Sane(f, 0, 0) /\ Without(m, f, S) /\ PostedFor(m, f, S)
  <2>1. S \subseteq m.sent /\ f = CancelRequests(m, S) /\ Sane(m, 0, 0) /\ 0 \in Nat
      BY <1>0 DEF SentOf
  <2> HIDE DEF S, f
  <2> QED  BY ONLY <2>1, Cancels
<1> HIDE DEF f
<1>3. Sane(left, 0, 0) /\ OnlyUnchecked(f, left, t, U)
  <2>1. Checkable(f, t, U)
    <3>1. /\ f.unchecked[t] \subseteq PartIn(Nat) /\ OneByOne(f) /\ AtCDN(f) /\ Reached(f)
          /\ \A u \in f.unchecked[t] : u.session \in 1..Len(f.sessions)
        BY <1>2 DEF Sane, Manager, Ranged
    <3>2. U \subseteq PartIn(1..Len(f.sessions))
        BY <3>1 DEF PartIn
    <3>3. \A u \in U : u.part \notin f.wanted[t]
        BY <3>1 DEF OneByOne
    <3>4. \A u, v \in U : u.part = v.part => u = v
        BY <3>1 DEF OneByOne
    <3>5. ASSUME NEW r \in f.sent, r.task = t
          PROVE  r.kind = "hashes" <=> \E u \in U : u.part = r.part
      <4>1. r.part # p
          BY <1>2, <3>5 DEF Without, SentOf
      <4> QED  BY <3>1, <3>5, <4>1 DEF OneByOne
    <3>6. U # {} => t \in f.cdn /\ InQueue(f, t)
        BY <3>1 DEF AtCDN, Reached, HaveSentRequests
    <3> QED  BY <3>2, <3>3, <3>4, <3>5, <3>6 DEF Checkable
  <2> HIDE DEF U
  <2> QED  BY <1>2, <2>1, SetUnchecked
<1> HIDE DEF left
<1>4. AskedFor(m, t) => AskedFor(left, t)
  <2>0. (\A r \in SentOf(m, t) : ~r.over) => \A r \in SentOf(left, t) : ~r.over
      BY <1>2, <1>3 DEF Without, OnlyUnchecked, SentOf
  <2> SUFFICES ASSUME AskedFor(m, t), left.unchecked[t] # {}
               PROVE  t \in left.posted \/ \E r \in SentOf(left, t) : r.kind = "hashes"
      BY <2>0 DEF AskedFor
  <2>1. m.unchecked[t] # {}
      BY <1>2, <1>3 DEF Without, OnlyUnchecked
  <2>2. t \in m.posted \/ \E r \in SentOf(m, t) : r.kind = "hashes"
      BY <2>1 DEF AskedFor
  <2>3. CASE t \in m.posted
      BY <1>2, <1>3, <2>3 DEF Without, OnlyUnchecked
  <2>4. ASSUME NEW r \in SentOf(m, t), r.kind = "hashes"
        PROVE  t \in left.posted \/ \E q \in SentOf(left, t) : q.kind = "hashes"
    <3>1. CASE r \in S
      <4>1. r.task = t
          BY DEF SentOf
      <4>2. t \in f.posted
          BY <1>2, <2>1, <2>4, <3>1, <4>1 DEF PostedFor
      <4> QED  BY <1>3, <4>2 DEF OnlyUnchecked
    <3>2. CASE r \notin S
      <4>1. r \in SentOf(left, t)
          BY <1>2, <1>3, <3>2 DEF Without, OnlyUnchecked, SentOf
      <4> QED  BY <2>4, <4>1
    <3> QED  BY <3>1, <3>2
  <2> QED  BY <2>2, <2>3, <2>4
<1>5. ASSUME NEW s \in Tasks \ {t} PROVE Continues(m, left, s)
  <2>1. SentOf(left, s) = SentOf(m, s)
      BY <1>2, <1>3 DEF Without, OnlyUnchecked, SentOf
  <2> QED  BY <1>2, <1>3, <2>1, Untouched DEF Without, OnlyUnchecked, InQueue
<1>6. /\ Sane(m', 0, 0) /\ (AskedFor(m, t) => AskedFor(m', t))
      /\ \A s \in Tasks \ {t} : Continues(m, m', s)
  <2>1. CASE m' = left
      BY <1>3, <1>4, <1>5, <2>1
  <2>2. CASE m' = Enqueue(left, t, priority[t])
    <3>1. Sane(m', 0, 0) /\ Further(left, m') /\ Joins(left, m', t)
        BY <1>0, <1>3, <2>2, Enqueues
    <3>2. AskedFor(left, t) => AskedFor(m', t)
        BY <3>1 DEF Further, AskedFor, SentOf, Fresh
    <3>3. ASSUME NEW s \in Tasks \ {t} PROVE Continues(m, m', s)
      <4>1. Continues(left, m', s)
          BY <3>1, FurtherContinues DEF Joins
      <4> QED  BY <1>5, <4>1, ContinuesIsTransitive
    <3> QED  BY <1>4, <3>1, <3>2, <3>3
  <2> QED  BY <1>1, <2>1, <2>2
<1>7. stage'[t] = "failed" \/ AskedFor(m', t)
    BY <1>0, <1>1, <1>6 DEF Asked
<1> QED
    BY <1>0, <1>1, <1>6, <1>7, StepOf DEF Typed

LEMMA ForgetOffsetKeeps ==
    ASSUME Sound, NEW t \in Tasks, NEW p \in Parts, ForgetOffset(t, p)
    PROVE  Sound'
<1> DEFINE W == m.wanted[t] \ {p}
<1>0. /\ Sane(m, 0, 0) /\ Asked /\ Typed
      /\ t \in Loaders /\ t \notin Files \cup Preloads
  <2>1. t \in Loaders
      BY DEF ForgetOffset
  <2> QED  BY <2>1, TasksAssumption DEF Sound, Typed
<1>1. m' = Wanting(m, t, W) /\ UNCHANGED <<known, stage, priority, fed>>
    BY DEF ForgetOffset, Wanting
<1>2. Sane(m', 0, 0) /\ OnlyWanted(m, m', t, W)
  <2>1. W \subseteq Parts /\ W \cap PartsInHand(m, t) = {}
      BY <1>0, InHand
  <2> HIDE DEF W
  <2> QED  BY <1>0, <1>1, <2>1, SetWanted
<1>3. ASSUME NEW s \in Tasks \ {t} PROVE Continues(m, m', s)
  <2>1. SentOf(m', s) = SentOf(m, s)
      BY <1>2 DEF OnlyWanted, SentOf
  <2> QED  BY <1>2, <2>1, Untouched DEF OnlyWanted, InQueue
<1>4. stage'[t] = "failed" \/ AskedFor(m', t)
    BY <1>0, <1>1, <1>2 DEF Asked, AskedFor, OnlyWanted, SentOf
<1> QED
    BY <1>0, <1>1, <1>2, <1>3, <1>4, StepOf DEF Typed

LEMMA SetPriorityKeeps ==
    ASSUME Sound, NEW t \in Tasks, SetPriority(t)
    PROVE  Sound'
<1>0. /\ Sane(m, 0, 0) /\ Asked /\ Typed /\ 1 - priority[t] \in 0..1
      /\ t \in Loaders /\ t \notin Files \cup Preloads
  <2>1. t \in Loaders
      BY DEF SetPriority
  <2>2. priority[t] \in 0..1
      BY <2>1 DEF Sound
  <2> QED  BY <2>1, <2>2, TasksAssumption DEF Sound, Typed
<1>1. /\ m' = m \/ m' = Enqueue(m, t, 1 - priority[t])
      /\ priority' = [priority EXCEPT ![t] = 1 - @]
      /\ UNCHANGED <<known, stage, fed>>
    BY DEF SetPriority
<1>2. /\ Sane(m', 0, 0) /\ (AskedFor(m, t) => AskedFor(m', t))
      /\ \A s \in Tasks \ {t} : Continues(m, m', s)
  <2>1. CASE m' = m
      BY <1>0, <2>1 DEF Continues
  <2>2. CASE m' = Enqueue(m, t, 1 - priority[t])
    <3>1. 1 - priority[t] \in -1..1
        BY <1>0
    <3>2. Sane(m', 0, 0) /\ Further(m, m') /\ Joins(m, m', t)
        BY <1>0, <2>2, <3>1, Enqueues
    <3>3. AskedFor(m, t) => AskedFor(m', t)
        BY <3>2 DEF Further, AskedFor, SentOf, Fresh
    <3>4. ASSUME NEW s \in Tasks \ {t} PROVE Continues(m, m', s)
        BY <3>2, FurtherContinues DEF Joins
    <3> QED  BY <3>2, <3>3, <3>4
  <2> QED  BY <1>1, <2>1, <2>2
<1>3. Typed'
    BY <1>0, <1>1 DEF Typed
<1>4. stage'[t] = "failed" \/ AskedFor(m', t)
    BY <1>0, <1>1, <1>2 DEF Asked
<1> QED
    BY <1>0, <1>1, <1>2, <1>3, <1>4, StepOf

LEMMA TryRemoveFromQueueKeeps ==
    ASSUME Sound, NEW t \in Tasks, TryRemoveFromQueue(t)
    PROVE  Sound'
<1>0. /\ Sane(m, 0, 0) /\ Asked /\ Typed
      /\ t \in Loaders /\ t \notin Files \cup Preloads /\ ~HaveSentRequests(m, t)
  <2>1. t \in Loaders /\ ~HaveSentRequests(m, t)
      BY DEF TryRemoveFromQueue
  <2> QED  BY <2>1, TasksAssumption DEF Sound, Typed
<1>1. m' = Removed(m, t) /\ UNCHANGED <<known, stage, priority, fed>>
    BY DEF TryRemoveFromQueue
<1>2. Sane(m', 0, 0) /\ Further(m, m') /\ Leaves(m, m', t)
    BY <1>0, <1>1, Removes
<1>3. ASSUME NEW s \in Tasks \ {t} PROVE Continues(m, m', s)
    BY <1>2, FurtherContinues DEF Leaves
<1>4. stage'[t] = "failed" \/ AskedFor(m', t)
    BY <1>0, <1>1, <1>2 DEF Asked, Further, AskedFor, SentOf, Fresh
<1> QED
    BY <1>0, <1>1, <1>2, <1>3, <1>4, StepOf DEF Typed

(* A file or a preload that gives up what it has.                          *)
LEMMA EmptiedPlaced ==
    ASSUME Sound, NEW t \in Files \cup Preloads, NEW e, NEW at \in {"failed", "gone"},
           e.wanted[t] = {}, PartsInHand(e, t) = {}
    PROVE  PlacedAt(e, t, at, fed[t])
BY DEF PlacedAt

LEMMA CancelKeeps ==
    ASSUME Sound, NEW t \in Tasks, Cancel(t)
    PROVE  Sound'
<1>0. Sane(m, 0, 0) /\ Asked /\ Typed /\ t \in Files
    BY DEF Sound, Typed, Cancel
<1>1. /\ m' = Emptied(m, t) /\ stage' = [stage EXCEPT ![t] = "failed"]
      /\ UNCHANGED <<known, priority, fed>>
    BY DEF Cancel, Emptied
<1>2. /\ Sane(m', 0, 0) /\ \A s \in Tasks \ {t} : Continues(m, m', s)
      /\ m'.unchecked[t] = {} /\ m'.wanted[t] = {} /\ PartsInHand(m', t) = {}
    BY <1>0, <1>1, Empties
<1>3. Typed' /\ stage'[t] = "failed" /\ \A s \in Tasks \ {t} : stage'[s] = stage[s]
    BY <1>0, <1>1 DEF Typed
<1>4. stage'[t] = "failed" \/ AskedFor(m', t)
    BY <1>3
<1>5. PlacedAt(m', t, stage'[t], fed'[t])
    BY <1>0, <1>1, <1>2, <1>3, EmptiedPlaced
<1> QED
    BY <1>1, <1>2, <1>3, <1>4, <1>5, StepOf

LEMMA DestroyKeeps ==
    ASSUME Sound, NEW t \in Tasks, Destroy(t)
    PROVE  Sound'
<1> DEFINE f == Emptied(m, t)
           g == Removed(f, t)
           P == g.posted \ {t}
<1>0. Sane(m, 0, 0) /\ Asked /\ Typed
    BY DEF Sound, Typed
<1>1. /\ m' = Posting(g, P) /\ stage' = [stage EXCEPT ![t] = "gone"]
      /\ UNCHANGED <<known, priority, fed>>
    BY DEF Destroy, Emptied, Posting
<1>2. /\ Sane(f, 0, 0) /\ \A s \in Tasks \ {t} : Continues(m, f, s)
      /\ f.unchecked[t] = {} /\ f.wanted[t] = {} /\ PartsInHand(f, t) = {}
    BY <1>0, Empties
<1> HIDE DEF f
<1>3. Sane(g, 0, 0) /\ Further(f, g) /\ Leaves(f, g, t)
  <2>1. ~HaveSentRequests(f, t)
      BY <1>2, InHand
  <2> QED  BY <1>2, <2>1, Removes
<1> HIDE DEF g
<1>4. Sane(m', 0, 0) /\ OnlyPosted(g, m', P)
  <2>1. P \subseteq Tasks
      BY <1>3 DEF Sane, Manager
  <2> HIDE DEF P
  <2> QED  BY <1>1, <1>3, <2>1, SetPosted
<1>5. m'.unchecked[t] = {} /\ m'.wanted[t] = {} /\ PartsInHand(m', t) = {}
  <2>1. g.unchecked[t] = {} /\ g.wanted[t] = {} /\ PartsInHand(g, t) = {}
      BY <1>2, <1>3 DEF Further
  <2> QED  BY <1>4, <2>1 DEF OnlyPosted, PartsInHand, SentOf
<1>6. ASSUME NEW s \in Tasks \ {t} PROVE Continues(m, m', s)
  <2>1. Continues(f, g, s)
      BY <1>3, FurtherContinues DEF Leaves
  <2>2. Continues(g, m', s)
    <3>1. SentOf(m', s) = SentOf(g, s)
        BY <1>4 DEF OnlyPosted, SentOf
    <3> QED  BY <1>4, <3>1, Untouched DEF OnlyPosted, InQueue
  <2>3. Continues(m, f, s)
      BY <1>2
  <2>4. Continues(m, g, s)
      BY <2>1, <2>3, ContinuesIsTransitive
  <2> QED  BY <2>2, <2>4, ContinuesIsTransitive
<1>7. Typed' /\ stage'[t] = "gone" /\ \A s \in Tasks \ {t} : stage'[s] = stage[s]
    BY <1>0, <1>1 DEF Typed
<1>8. AskedFor(m', t)
    BY <1>5 DEF AskedFor, PartsInHand
<1>9. t \in Files \cup Preloads => PlacedAt(m', t, stage'[t], fed'[t])
    BY <1>1, <1>5, <1>7, EmptiedPlaced
<1> QED
    BY <1>1, <1>4, <1>6, <1>7, <1>8, <1>9, StepOf

(* The stage of a file or a preload with something in hand.                *)
LEMMA InHandIsOn ==
    ASSUME Sound, NEW t \in Files \cup Preloads, HaveSentRequests(m, t)
    PROVE  stage[t] = "on"
<1>1. /\ stage[t] \in {"new", "on", "done", "failed", "gone"}
      /\ Sane(m, 0, 0) /\ PlacedAt(m, t, stage[t], fed[t])
    BY DEF Sound, Tasks
<1>2. PartsInHand(m, t) # {} /\ PartsInHand(m, t) \subseteq Parts
      /\ PartsInHand(m, t) \cap m.wanted[t] = {}
    BY <1>1, InHand DEF Tasks
<1> QED
    BY <1>1, <1>2 DEF PlacedAt

LEMMA PartLoadedKeeps ==
    ASSUME Sound, NEW r \in m.sent, PartLoaded(r)
    PROVE  Sound'
<1> DEFINE t == r.task
           p == r.part
           done == fed[t] \cup {p}
<1>0. /\ Sane(m, 0, 0) /\ Asked /\ Typed /\ r \in Request /\ OneByOne(m)
      /\ r.kind # "hashes"
    BY DEF Sound, Typed, Sane, Manager, PartLoaded
<1>1. t \in Tasks /\ p \in Parts
    BY <1>0 DEF Request
<1>2. PICK d \in Succeeded(FinishSentRequest(m, r), r) :
        /\ fed' = [fed EXCEPT ![t] = @ \cup {p}]
        /\ stage' = IF Finished(d, t) THEN [stage EXCEPT ![t] = "done"] ELSE stage
        /\ m' = CheckSendNext(AfterFeed(d, t))
    BY DEF PartLoaded, FeedParts
<1>3. UNCHANGED <<known, priority>>
    BY DEF PartLoaded
<1>4. Sane(d, 0, 0) /\ Without(m, d, {r})
    BY <1>0, <1>2, Answers
<1>5. HaveSentRequests(m, t)
    BY DEF HaveSentRequests, SentOf
<1>6. /\ \A n : n \in PartsInHand(d, t) <=> n \in PartsInHand(m, t) /\ n # p
      /\ p \in PartsInHand(m, t)
  <2>1. \A n : n \in PartsInHand(m, t) <=>
          (\E o \in SentOf(m, t) : o.part = n) \/ (\E w \in m.unchecked[t] : w.part = n)
      BY DEF PartsInHand
  <2>2. \A n : n \in PartsInHand(d, t) <=>
          (\E o \in SentOf(d, t) : o.part = n) \/ (\E w \in m.unchecked[t] : w.part = n)
      BY <1>4 DEF PartsInHand, Without
  <2>3. \A o : o \in SentOf(d, t) <=> o \in SentOf(m, t) /\ o # r
      BY <1>4 DEF Without, SentOf
  <2>4. ~\E w \in m.unchecked[t] : w.part = p
      BY <1>0 DEF OneByOne
  <2>5. \A o \in SentOf(m, t) : o.part = p => o = r
      BY <1>0 DEF OneByOne, SentOf
  <2>6. r \in SentOf(m, t)
      BY DEF SentOf
  <2> QED  BY <2>1, <2>2, <2>3, <2>4, <2>5, <2>6
<1>7. t \in Files \cup Preloads => PlacedAt(d, t, "on", done)
  <2> SUFFICES ASSUME t \in Files \cup Preloads PROVE PlacedAt(d, t, "on", done)
      OBVIOUS
  <2> HIDE DEF p, t
  <2>1. stage[t] = "on" /\ PlacedAt(m, t, stage[t], fed[t])
      BY <1>5, InHandIsOn DEF Sound
  <2>2. /\ fed[t] \cap (PartsInHand(m, t) \cup m.wanted[t]) = {}
        /\ Parts = m.wanted[t] \cup PartsInHand(m, t) \cup fed[t]
      BY <2>1 DEF PlacedAt
  <2>3. d.wanted = m.wanted /\ PartsInHand(m, t) \cap m.wanted[t] = {}
      BY <1>0, <1>1, <1>4, InHand DEF Without
  <2>4. /\ done \cap (PartsInHand(d, t) \cup d.wanted[t]) = {}
        /\ Parts = d.wanted[t] \cup PartsInHand(d, t) \cup done
      BY <1>1, <1>6, <2>2, <2>3
  <2> QED  BY <2>4 DEF PlacedAt
<1> DEFINE e == AfterFeed(d, t)
<1>8. /\ Sane(e, 0, 0) /\ \A s \in Tasks \ {t} : Continues(d, e, s)
      /\ AskedFor(d, t) => AskedFor(e, t)
      /\ t \in Files \cup Preloads =>
           PlacedAt(e, t, IF Finished(d, t) THEN "done" ELSE "on", done)
  <2> HIDE DEF t, done
  <2> QED  BY <1>1, <1>4, <1>7, Feeds
<1> HIDE DEF e
<1>9. Sane(m', 0, 0) /\ Ahead(e, m')
    BY <1>2, <1>8, ChecksSendNext DEF e
<1>10. ASSUME NEW s \in Tasks \ {t} PROVE Continues(m, m', s)
  <2>1. Continues(m, d, s)
    <3>1. SentOf(d, s) = SentOf(m, s)
        BY <1>4 DEF Without, SentOf
    <3> QED  BY <1>4, <3>1, Untouched DEF Without, InQueue
  <2>2. Continues(d, e, s)
      BY <1>8
  <2>3. Continues(e, m', s)
      BY <1>9, AheadContinues
  <2>4. Continues(m, e, s)
      BY <2>1, <2>2, ContinuesIsTransitive
  <2> QED  BY <2>3, <2>4, ContinuesIsTransitive
<1>11. AskedFor(m, t) => AskedFor(m', t)
  <2>1. AskedFor(m, t) => AskedFor(d, t)
    <3>1. \A o \in SentOf(m, t) : o.kind = "hashes" => o \in SentOf(d, t)
        BY <1>0, <1>4 DEF Without, SentOf
    <3>2. SentOf(d, t) \subseteq SentOf(m, t)
        BY <1>4 DEF Without, SentOf
    <3> QED  BY <1>4, <3>1, <3>2 DEF AskedFor, Without
  <2>2. Continues(e, m', t)
      BY <1>1, <1>9, AheadContinues
  <2> QED  BY <1>8, <2>1, <2>2 DEF Continues
<1>12. /\ fed' \in [Tasks -> SUBSET Parts] /\ fed'[t] = done
       /\ \A s \in Tasks \ {t} : fed'[s] = fed[s]
    BY <1>0, <1>1, <1>2 DEF Typed
<1>13. /\ stage' \in [Tasks -> {"new", "on", "done", "failed", "gone"}]
       /\ stage'[t] = IF Finished(d, t) THEN "done" ELSE stage[t]
       /\ \A s \in Tasks \ {t} : stage'[s] = stage[s]
    BY <1>0, <1>1, <1>2 DEF Typed
<1>14. Typed'
    BY <1>0, <1>3, <1>12, <1>13 DEF Typed
<1>15. t \in Files \cup Preloads => PlacedAt(m', t, stage'[t], fed'[t])
  <2> SUFFICES ASSUME t \in Files \cup Preloads PROVE PlacedAt(m', t, stage'[t], fed'[t])
      OBVIOUS
  <2> HIDE DEF p, t, done
  <2>1. stage[t] = "on"
      BY <1>5, InHandIsOn
  <2>2. PlacedAt(e, t, stage'[t], fed'[t])
      BY <1>8, <1>12, <1>13, <2>1
  <2>3. Continues(e, m', t)
      BY <1>1, <1>9, AheadContinues
  <2> QED  BY <1>1, <1>8, <1>9, <2>2, <2>3, ContinuesKeepsPlaced
<1>16. stage'[t] = "failed" \/ AskedFor(m', t)
  <2>1. stage[t] = "failed" => ~Finished(d, t)
      BY <1>5, InHandIsOn DEF Finished
  <2> QED  BY <1>0, <1>1, <1>11, <1>13, <2>1 DEF Asked
<1> HIDE DEF t, done
<1> QED
    BY <1>1, <1>9, <1>10, <1>12, <1>13, <1>14, <1>15, <1>16, StepOf

LEMMA PartWaitsKeeps ==
    ASSUME Sound, NEW r \in m.sent, PartWaits(r)
    PROVE  Sound'
<1> DEFINE t == r.task
           p == r.part
           v(wrong) == [part |-> p, session |-> r.session, wrong |-> wrong]
<1>0. /\ Sane(m, 0, 0) /\ Typed /\ r \in Request /\ OneByOne(m) /\ AtCDN(m)
      /\ Ranged(m) /\ Reached(m) /\ r.kind # "hashes" /\ r.kind = "cdn"
      /\ UNCHANGED <<known, stage, priority, fed>>
    BY DEF Sound, Typed, Sane, Manager, PartWaits
<1>1. t \in Tasks /\ p \in Parts
    BY <1>0 DEF Request
<1>2. PICK d \in Succeeded(FinishSentRequest(m, r), r), wrong \in BOOLEAN :
        m' = CheckSendNext(RequestMoreCdnFileHashes(
               IF \E u \in d.unchecked[t] : u.part = p THEN d
               ELSE [d EXCEPT !.unchecked[t] = @ \cup {v(wrong)}], t))
    BY DEF PartWaits
<1>3. Sane(d, 0, 0) /\ Without(m, d, {r})
    BY <1>0, <1>2, Answers
<1>4. \A u \in m.unchecked[t] : u.part # p
    BY <1>0 DEF OneByOne
<1> DEFINE w == v(wrong)
           U == d.unchecked[t] \cup {w}
           f == Unchecking(d, t, U)
           e == RequestMoreCdnFileHashes(f, t)
<1>5. m' = CheckSendNext(e)
  <2>1. ~\E u \in d.unchecked[t] : u.part = p
      BY <1>3, <1>4 DEF Without
  <2> QED  BY <1>2, <2>1 DEF Unchecking
<1>6. InQueue(m, t) /\ t \in m.cdn
  <2>1. HaveSentRequests(m, t)
      BY DEF HaveSentRequests, SentOf
  <2> QED  BY <1>0, <1>1, <2>1 DEF Reached, AtCDN
<1>7. /\ OneByOne(d) /\ Ranged(d) /\ d.unchecked[t] \subseteq PartIn(Nat)
      /\ r.session \in 1..Len(d.sessions) /\ w \in PartIn(1..Len(d.sessions)) /\ w.part = p
  <2>1. r.session \in 1..Len(m.sessions) /\ Len(m.sessions) \in Nat
      BY <1>0 DEF Ranged
  <2>2. Len(d.sessions) >= Len(m.sessions) /\ Len(d.sessions) \in Nat
      BY <1>3 DEF Without, Sane, Ranged
  <2>3. r.session \in 1..Len(d.sessions)
      BY <2>1, <2>2
  <2>4. OneByOne(d) /\ Ranged(d) /\ d.unchecked[t] \subseteq PartIn(Nat)
      BY <1>1, <1>3 DEF Sane, Manager
  <2> QED  BY <1>1, <2>3, <2>4 DEF PartIn
<1> HIDE DEF w
<1>8. Checkable(d, t, U)
  <2>1. U \subseteq PartIn(1..Len(d.sessions))
      BY <1>1, <1>7 DEF Ranged, PartIn
  <2>2. \A u \in U : u.part \notin d.wanted[t]
      BY <1>0, <1>1, <1>3, <1>7 DEF OneByOne, Without
  <2>3. \A u, o \in U : u.part = o.part => u = o
      BY <1>1, <1>3, <1>4, <1>7 DEF OneByOne, Without
  <2>4. ASSUME NEW q \in d.sent, q.task = t
        PROVE  q.kind = "hashes" <=> \E u \in U : u.part = q.part
    <3>1. q.part # p
        BY <1>0, <1>3, <2>4 DEF OneByOne, Without
    <3> QED  BY <1>7, <2>4, <3>1 DEF OneByOne
  <2>5. t \in d.cdn /\ InQueue(d, t)
      BY <1>3, <1>6 DEF Without, InQueue
  <2> QED  BY <2>1, <2>2, <2>3, <2>4, <2>5 DEF Checkable
<1>9. Sane(f, 0, 0) /\ OnlyUnchecked(d, f, t, U)
  <2> HIDE DEF U, t
  <2> QED  BY <1>1, <1>3, <1>8, SetUnchecked
<1> HIDE DEF f
<1>10. /\ Sane(e, 0, 0) /\ \A s \in Tasks : Continues(f, e, s)
       /\ (\A o \in SentOf(f, t) : ~o.over) => AskedFor(e, t)
  <2> HIDE DEF t
  <2> QED  BY <1>1, <1>9, RequestsHashes
<1> HIDE DEF e
<1>11. Sane(m', 0, 0) /\ Ahead(e, m')
    BY <1>5, <1>10, ChecksSendNext
<1>12. ASSUME NEW s \in Tasks PROVE Continues(f, m', s)
  <2>1. Continues(e, m', s)
      BY <1>11, AheadContinues
  <2> QED  BY <1>10, <2>1, ContinuesIsTransitive
<1>13. AskedFor(m, t) => AskedFor(m', t)
  <2>1. Continues(e, m', t)
      BY <1>1, <1>11, AheadContinues
  <2>2. SentOf(f, t) \subseteq SentOf(m, t)
      BY <1>3, <1>9 DEF Without, OnlyUnchecked, SentOf
  <2> QED  BY <1>10, <2>1, <2>2 DEF Continues, AskedFor
<1>14. PartsInHand(f, t) = PartsInHand(m, t)
  <2>1. \A n : n \in PartsInHand(m, t) <=>
          (\E o \in SentOf(m, t) : o.part = n) \/ (\E u \in m.unchecked[t] : u.part = n)
      BY DEF PartsInHand
  <2>2. \A n : n \in PartsInHand(f, t) <=>
          (\E o \in SentOf(f, t) : o.part = n) \/ (\E u \in U : u.part = n)
      BY <1>9 DEF PartsInHand, OnlyUnchecked
  <2>3. \A n : (\E u \in U : u.part = n) <=> (\E u \in m.unchecked[t] : u.part = n) \/ n = p
      BY <1>3, <1>7 DEF Without
  <2>4. \A o : o \in SentOf(m, t) <=> o \in SentOf(f, t) \/ o = r
      BY <1>3, <1>9 DEF Without, SentOf, OnlyUnchecked
  <2> HIDE DEF U
  <2> QED  BY <2>1, <2>2, <2>3, <2>4
<1>15. ASSUME NEW s \in Tasks PROVE Continues(m, m', s)
  <2>1. CASE s = t
    <3>1. f.wanted = m.wanted /\ f.queue = m.queue
        BY <1>3, <1>9 DEF Without, OnlyUnchecked
    <3>2. Continues(f, m', t)
        BY <1>1, <1>12
    <3> HIDE DEF t
    <3> QED  BY <1>13, <1>14, <2>1, <3>1, <3>2 DEF Continues, InQueue
  <2>2. CASE s # t
    <3>1. SentOf(f, s) = SentOf(m, s)
        BY <1>3, <1>9, <2>2 DEF Without, OnlyUnchecked, SentOf
    <3>2. Continues(m, f, s)
        BY <1>3, <1>9, <2>2, <3>1, Untouched DEF Without, OnlyUnchecked, InQueue
    <3>3. Continues(f, m', s)
        BY <1>12
    <3> QED  BY <3>2, <3>3, ContinuesIsTransitive
  <2> QED  BY <2>1, <2>2
<1> QED
    BY <1>0, <1>11, <1>15, StepOfAll DEF Typed

LEMMA FinishesOne ==
    ASSUME NEW d, Sane(d, 0, 0), NEW r \in d.sent, NEW e, e = FinishSentRequest(d, r)
    PROVE  Sane(e, 0, 0) /\ Without(d, e, {r}) /\ Len(e.sessions) = Len(d.sessions)
<1> DEFINE f == FinishSentRequest(d, r)
<1>1. Sane(f, 0, 0) /\ Without(d, f, {r}) /\ Len(f.sessions) = Len(d.sessions)
    BY FinishLeaves DEF FinishSentRequest
<1>2. e = f
    OBVIOUS
<1> HIDE DEF f
<1> QED
    BY <1>1, <1>2

(* An answer with hashes takes parts of C from those that wait.            *)
Unchecked(d, f, t, C) ==
    /\ f.wanted = d.wanted /\ f.queue = d.queue
    /\ SentOf(f, t) \subseteq SentOf(d, t)
    /\ \A s \in Tasks \ {t} : Continues(d, f, s)
    /\ \A u \in C : u.part \in Parts /\ u.part \in PartsInHand(d, t)
    /\ \A n : n \in PartsInHand(f, t) <=>
              n \in PartsInHand(d, t) /\ ~\E u \in C : u.part = n

LEMMA Unchecks ==
    ASSUME NEW d, Sane(d, 0, 0), NEW r \in d.sent, r.kind = "hashes",
           NEW C, C \subseteq d.unchecked[r.task],
           NEW f, f = Unchecking(FinishSentRequest(d, r), r.task, d.unchecked[r.task] \ C)
    PROVE  Sane(f, 0, 0) /\ Unchecked(d, f, r.task, C)
<1> DEFINE t == r.task
           p == r.part
           e == FinishSentRequest(d, r)
           U == d.unchecked[t] \ C
<1>0. r \in Request /\ OneByOne(d) /\ d.unchecked[t] \subseteq PartIn(Nat)
  <2>1. r \in Request
      BY DEF Sane, Manager
  <2>2. r.task \in Tasks
      BY <2>1 DEF Request
  <2> QED  BY <2>1, <2>2 DEF Sane, Manager
<1>1. t \in Tasks
    BY <1>0 DEF Request
<1>2. Sane(e, 0, 0) /\ Without(d, e, {r})
  <2>1. e = FinishSentRequest(d, r)
      OBVIOUS
  <2> HIDE DEF e
  <2> QED  BY <2>1, FinishesOne
<1>3. f = Unchecking(e, t, U)
    OBVIOUS
<1> HIDE DEF e
<1>4. /\ OneByOne(e) /\ Ranged(e) /\ AtCDN(e) /\ Reached(e)
      /\ e.unchecked = d.unchecked /\ e.wanted = d.wanted /\ e.queue = d.queue
      /\ e.sent = d.sent \ {r}
    BY <1>2 DEF Sane, Without
<1>5. Checkable(e, t, U)
  <2>1. U \subseteq PartIn(1..Len(e.sessions)) /\ \A u \in U : u.part \notin e.wanted[t]
      BY <1>0, <1>1, <1>4 DEF Ranged, PartIn, OneByOne
  <2>2. \A u, w \in U : u.part = w.part => u = w
      BY <1>1, <1>4 DEF OneByOne
  <2>3. ASSUME NEW q \in e.sent, q.task = t
        PROVE  q.kind = "hashes" <=> \E u \in U : u.part = q.part
    <3>1. q \in d.sent /\ q # r
        BY <1>4
    <3>2. q.kind # "hashes"
        BY <1>0, <2>3, <3>1 DEF OneByOne
    <3>3. ~\E u \in e.unchecked[t] : u.part = q.part
        BY <1>4, <2>3, <3>2 DEF OneByOne
    <3> QED  BY <1>4, <3>2, <3>3
  <2>4. U # {} => t \in e.cdn /\ InQueue(e, t)
      BY <1>1, <1>4 DEF AtCDN, Reached, HaveSentRequests
  <2> QED  BY <2>1, <2>2, <2>3, <2>4 DEF Checkable
<1>6. Sane(f, 0, 0) /\ OnlyUnchecked(e, f, t, U)
  <2> HIDE DEF U, t
  <2> QED  BY <1>1, <1>2, <1>3, <1>5, SetUnchecked
<1>7. \A o : o \in SentOf(f, t) <=> o \in SentOf(d, t) /\ o # r
    BY <1>4, <1>6 DEF OnlyUnchecked, SentOf
<1>8. ASSUME NEW s \in Tasks \ {t} PROVE Continues(d, f, s)
  <2>1. SentOf(f, s) = SentOf(d, s)
      BY <1>4, <1>6 DEF OnlyUnchecked, SentOf
  <2>2. /\ f.unchecked[s] = d.unchecked[s] /\ f.wanted[s] = d.wanted[s]
        /\ d.posted \subseteq f.posted /\ f.queue = d.queue
      BY <1>2, <1>4, <1>6 DEF OnlyUnchecked, Without
  <2>3. InQueue(f, s) <=> InQueue(d, s)
      BY <2>2 DEF InQueue
  <2> QED  BY <2>1, <2>2, <2>3, Untouched
<1>9. \A n : n \in PartsInHand(d, t) <=>
        (\E o \in SentOf(d, t) : o.part = n) \/ (\E w \in d.unchecked[t] : w.part = n)
    BY DEF PartsInHand
<1>10. \A u \in C : u.part \in Parts /\ u.part \in PartsInHand(d, t)
    BY <1>0, <1>9 DEF PartIn
<1>11. \A n : n \in PartsInHand(f, t) <=>
         n \in PartsInHand(d, t) /\ ~\E u \in C : u.part = n
  <2>1. \A n : n \in PartsInHand(f, t) <=>
          (\E o \in SentOf(f, t) : o.part = n) \/ (\E w \in U : w.part = n)
      BY <1>6 DEF PartsInHand, OnlyUnchecked
  <2>2. \A n : (\E w \in U : w.part = n) <=>
               (\E w \in d.unchecked[t] : w.part = n) /\ ~\E u \in C : u.part = n
    <3>1. \A u, w \in d.unchecked[t] : u.part = w.part => u = w
        BY <1>0, <1>1 DEF OneByOne
    <3> QED  BY <3>1
  <2>3. \E w \in d.unchecked[t] : w.part = p
      BY <1>0 DEF OneByOne
  <2>4. ASSUME NEW o \in SentOf(d, t), o # r PROVE ~\E u \in C : u.part = o.part
    <3>1. o \in d.sent /\ o.task = t
        BY DEF SentOf
    <3>2. o.kind # "hashes"
        BY <1>0, <2>4, <3>1 DEF OneByOne
    <3> QED  BY <1>0, <3>1, <3>2 DEF OneByOne
  <2> HIDE DEF U, t
  <2>5. ASSUME NEW n, n \in PartsInHand(f, t)
        PROVE  n \in PartsInHand(d, t) /\ ~\E u \in C : u.part = n
    <3>1. CASE \E o \in SentOf(f, t) : o.part = n
      <4>1. PICK o \in SentOf(f, t) : o.part = n
          BY <3>1
      <4>2. o \in SentOf(d, t) /\ o # r
          BY <1>7, <4>1
      <4> QED  BY <1>9, <2>4, <4>1, <4>2
    <3>2. CASE \E w \in U : w.part = n
        BY <1>9, <2>2, <3>2
    <3> QED  BY <2>1, <2>5, <3>1, <3>2
  <2>6. ASSUME NEW n, n \in PartsInHand(d, t), ~\E u \in C : u.part = n
        PROVE  n \in PartsInHand(f, t)
    <3>1. CASE \E w \in d.unchecked[t] : w.part = n
        BY <2>1, <2>2, <2>6, <3>1
    <3>2. CASE \E o \in SentOf(d, t) : o.part = n
      <4>1. PICK o \in SentOf(d, t) : o.part = n
          BY <3>2
      <4>2. CASE o = r
          BY <2>3, <3>1, <4>1, <4>2
      <4>3. CASE o # r
          BY <1>7, <2>1, <4>1, <4>3
      <4> QED  BY <4>2, <4>3
    <3> QED  BY <1>9, <2>6, <3>1, <3>2
  <2> QED  BY <2>5, <2>6
<1>12. /\ f.wanted = d.wanted /\ f.queue = d.queue
       /\ SentOf(f, t) \subseteq SentOf(d, t)
    BY <1>4, <1>6, <1>7 DEF OnlyUnchecked
<1> QED
    BY <1>6, <1>8, <1>10, <1>11, <1>12 DEF Unchecked

LEMMA GetCdnFileHashesDoneKeeps ==
    ASSUME Sound, NEW r \in m.sent, GetCdnFileHashesDone(r)
    PROVE  Sound'
<1> DEFINE t == r.task
           d == FinishSentRequest(m, r)
           Left(H) == [d EXCEPT !.unchecked[t] = @ \ Due(t, H)]
<1>0. Sane(m, 0, 0) /\ Asked /\ Typed /\ r \in Request /\ r.kind = "hashes"
    BY DEF Sound, Typed, Sane, Manager, GetCdnFileHashesDone
<1>1. t \in Tasks
    BY <1>0 DEF Request
<1>2. PICK H \in SUBSET Parts :
        /\ known' = [known EXCEPT ![t] = @ \cup H]
        /\ FeedParts(Left(H), t, {u.part : u \in Due(t, H)})
        /\ m' = RequestMoreCdnFileHashes(AfterFeed(Left(H), t), t)
    BY DEF GetCdnFileHashesDone
<1> DEFINE C == Due(t, H)
           F == {u.part : u \in C}
           done == fed[t] \cup F
           f == Unchecking(d, t, m.unchecked[t] \ C)
           e == AfterFeed(f, t)
<1>a. d.unchecked = m.unchecked
  <2>1. d = FinishSentRequest(m, r)
      OBVIOUS
  <2> HIDE DEF d
  <2>2. Without(m, d, {r})
      BY <1>0, <2>1, FinishesOne
  <2> QED  BY <2>2 DEF Without
<1>3. /\ fed' = [fed EXCEPT ![t] = @ \cup F]
      /\ stage' = IF Finished(f, t) THEN [stage EXCEPT ![t] = "done"] ELSE stage
      /\ m' = RequestMoreCdnFileHashes(e, t)
      /\ UNCHANGED priority
  <2>1. Left(H) = f
    <3> HIDE DEF d
    <3> QED  BY <1>a DEF Unchecking
  <2> QED  BY <1>2, <2>1 DEF FeedParts, GetCdnFileHashesDone
<1>4. /\ Sane(f, 0, 0) /\ f.wanted = m.wanted
      /\ SentOf(f, t) \subseteq SentOf(m, t)
      /\ \A s \in Tasks \ {t} : Continues(m, f, s)
      /\ \A u \in C : u.part \in Parts /\ u.part \in PartsInHand(m, t)
      /\ \A n : n \in PartsInHand(f, t) <=>
                n \in PartsInHand(m, t) /\ ~\E u \in C : u.part = n
  <2>1. C \subseteq m.unchecked[r.task]
      BY DEF Due
  <2>2. f = Unchecking(FinishSentRequest(m, r), r.task, m.unchecked[r.task] \ C)
      OBVIOUS
  <2> HIDE DEF f, C
  <2>3. Sane(f, 0, 0) /\ Unchecked(m, f, r.task, C)
      BY <1>0, <2>1, <2>2, Unchecks
  <2> QED  BY <2>3 DEF Unchecked
<1> HIDE DEF f
<1>5. HaveSentRequests(m, t)
    BY DEF HaveSentRequests, SentOf
<1>6. F \subseteq Parts /\ F \subseteq PartsInHand(m, t)
      /\ \A n : n \in PartsInHand(f, t) <=> n \in PartsInHand(m, t) /\ n \notin F
    BY <1>4
<1> HIDE DEF F, C
<1>7. t \in Files \cup Preloads => PlacedAt(f, t, "on", done)
  <2> SUFFICES ASSUME t \in Files \cup Preloads PROVE PlacedAt(f, t, "on", done)
      OBVIOUS
  <2> HIDE DEF t
  <2>1. stage[t] = "on" /\ PlacedAt(m, t, stage[t], fed[t])
      BY <1>5, InHandIsOn DEF Sound
  <2>2. /\ fed[t] \cap (PartsInHand(m, t) \cup m.wanted[t]) = {}
        /\ Parts = m.wanted[t] \cup PartsInHand(m, t) \cup fed[t]
      BY <2>1 DEF PlacedAt
  <2>3. f.wanted = m.wanted /\ PartsInHand(m, t) \cap m.wanted[t] = {}
      BY <1>0, <1>1, <1>4, InHand
  <2>4. /\ done \cap (PartsInHand(f, t) \cup f.wanted[t]) = {}
        /\ Parts = f.wanted[t] \cup PartsInHand(f, t) \cup done
      BY <1>6, <2>2, <2>3
  <2> QED  BY <2>4 DEF PlacedAt
<1>8. /\ Sane(e, 0, 0) /\ \A s \in Tasks \ {t} : Continues(f, e, s)
      /\ t \in Files \cup Preloads =>
           PlacedAt(e, t, IF Finished(f, t) THEN "done" ELSE "on", done)
  <2> HIDE DEF t, done
  <2> QED  BY <1>1, <1>4, <1>7, Feeds
<1>9. (\A o \in SentOf(m, t) : ~o.over) => \A o \in SentOf(e, t) : ~o.over
  <2>1. CASE Finished(f, t)
    <3>1. ~HaveSentRequests(f, t) /\ e = Removed(f, t)
        BY <2>1 DEF Finished, AfterFeed
    <3> HIDE DEF t
    <3>2. Further(f, e)
        BY <1>1, <1>4, <3>1, Removes
    <3> QED  BY <1>4, <3>2 DEF Further, Fresh, SentOf
  <2>2. CASE ~Finished(f, t)
      BY <1>4, <2>2 DEF AfterFeed
  <2> QED  BY <2>1, <2>2
<1> HIDE DEF e
<1>10. /\ Sane(m', 0, 0) /\ \A s \in Tasks : Continues(e, m', s)
       /\ (\A o \in SentOf(e, t) : ~o.over) => AskedFor(m', t)
  <2> HIDE DEF t
  <2> QED  BY <1>1, <1>3, <1>8, RequestsHashes
<1>11. ASSUME NEW s \in Tasks \ {t} PROVE Continues(m, m', s)
  <2>1. Continues(m, f, s) /\ Continues(f, e, s) /\ Continues(e, m', s)
      BY <1>4, <1>8, <1>10
  <2>2. Continues(m, e, s)
      BY <2>1, ContinuesIsTransitive
  <2> QED  BY <2>1, <2>2, ContinuesIsTransitive
<1>12. /\ fed' \in [Tasks -> SUBSET Parts] /\ fed'[t] = done
       /\ \A s \in Tasks \ {t} : fed'[s] = fed[s]
    BY <1>0, <1>1, <1>3, <1>6 DEF Typed
<1>13. /\ stage' \in [Tasks -> {"new", "on", "done", "failed", "gone"}]
       /\ stage'[t] = IF Finished(f, t) THEN "done" ELSE stage[t]
       /\ \A s \in Tasks \ {t} : stage'[s] = stage[s]
    BY <1>0, <1>1, <1>3 DEF Typed
<1>14. Typed'
  <2>1. known' \in [Tasks -> SUBSET Parts]
      BY <1>0, <1>1, <1>2 DEF Typed
  <2> QED  BY <1>0, <1>3, <1>12, <1>13, <2>1 DEF Typed
<1>15. t \in Files \cup Preloads => PlacedAt(m', t, stage'[t], fed'[t])
  <2> SUFFICES ASSUME t \in Files \cup Preloads PROVE PlacedAt(m', t, stage'[t], fed'[t])
      OBVIOUS
  <2> HIDE DEF t, done
  <2>1. stage[t] = "on"
      BY <1>5, InHandIsOn
  <2>2. PlacedAt(e, t, stage'[t], fed'[t])
      BY <1>8, <1>12, <1>13, <2>1
  <2> QED  BY <1>1, <1>8, <1>10, <2>2, ContinuesKeepsPlaced
<1>16. stage'[t] = "failed" \/ AskedFor(m', t)
  <2>1. stage[t] = "failed" => ~Finished(f, t)
      BY <1>5, InHandIsOn DEF Finished
  <2>2. AskedFor(m, t) => AskedFor(m', t)
      BY <1>9, <1>10 DEF AskedFor
  <2> QED  BY <1>0, <1>1, <1>13, <2>1, <2>2 DEF Asked
<1> HIDE DEF t, done
<1> QED
    BY <1>1, <1>10, <1>11, <1>12, <1>13, <1>14, <1>15, <1>16, StepOf

LEMMA SwitchToCDNKeeps ==
    ASSUME Sound, NEW r \in m.sent, SwitchToCDN(r)
    PROVE  Sound'
<1>0. Sane(m, 0, 0) /\ Typed /\ r.kind = "file" /\ UNCHANGED <<stage, priority, fed>>
    BY DEF Sound, Typed, SwitchToCDN
<1>a. known' \in [Tasks -> SUBSET Parts]
  <2>1. PICK hashes \in SUBSET Parts : known' = [known EXCEPT ![r.task] = @ \cup hashes]
      BY DEF SwitchToCDN
  <2> QED  BY <1>0, <2>1 DEF Typed
<1>1. PICK d \in Succeeded(FinishSentRequest(m, r), r) :
        m' = CheckSendNext(ChangeCDNParams(d, r, d.cdn \cup {r.task}))
    BY DEF SwitchToCDN
<1>2. Sane(d, 0, 0) /\ Without(m, d, {r})
    BY <1>0, <1>1, Answers
<1> DEFINE e == ChangeCDNParams(d, r, d.cdn \cup {r.task})
<1>3. Sane(e, 0, 0) /\ \A s \in Tasks : Continues(m, e, s)
    BY <1>0, <1>2, MovesToCDN
<1> HIDE DEF e
<1>4. Sane(m', 0, 0) /\ Ahead(e, m')
    BY <1>1, <1>3, ChecksSendNext DEF e
<1>5. ASSUME NEW s \in Tasks PROVE Continues(m, m', s)
  <2>1. Continues(e, m', s)
      BY <1>4, AheadContinues
  <2> QED  BY <1>3, <2>1, ContinuesIsTransitive
<1> QED
    BY <1>0, <1>a, <1>4, <1>5, StepOfAll

(* A request that is finished and made in another form, in its session.    *)
LEMMA RemakesRequest ==
    ASSUME Sound, NEW r \in m.sent, r.kind # "hashes", NEW kind \in Kinds \ {"hashes"},
           IF r.task \in m.cdn THEN kind \in {"cdn", "reupload"} ELSE kind \in {"file", "expired"},
           m' = PlaceSentRequest(FinishSentRequest(m, r), r.task, r.part, r.session, kind),
           known' \in [Tasks -> SUBSET Parts], UNCHANGED <<stage, priority, fed>>
    PROVE  Sound'
<1> DEFINE f == FinishSentRequest(m, r)
<1>0. Sane(m, 0, 0)
    BY DEF Sound
<1>1. Sane(f, 0, 0) /\ Without(m, f, {r}) /\ Len(f.sessions) = Len(m.sessions)
  <2>1. f = FinishSentRequest(m, r)
      OBVIOUS
  <2> HIDE DEF f
  <2> QED  BY <1>0, <2>1, FinishesOne
<1>2. r.session \in 1..Len(f.sessions)
    BY <1>0, <1>1 DEF Sane, Ranged
<1>3. m' = PlaceSentRequest(f, r.task, r.part, r.session, kind)
    OBVIOUS
<1> HIDE DEF f
<1>4. Sane(m', 0, 0) /\ \A s \in Tasks : Continues(m, m', s)
    BY <1>0, <1>1, <1>2, <1>3, Replaces
<1> QED
    BY <1>4, StepOfAll

LEMMA ReuploadNeededKeeps ==
    ASSUME Sound, NEW r \in m.sent, ReuploadNeeded(r)
    PROVE  Sound'
<1>1. /\ r.kind = "cdn" /\ known \in [Tasks -> SUBSET Parts]
      /\ UNCHANGED <<known, stage, priority, fed>>
      /\ m' = PlaceSentRequest(FinishSentRequest(m, r), r.task, r.part, r.session, "reupload")
    BY DEF Sound, ReuploadNeeded
<1>2. r.task \in m.cdn
    BY <1>1 DEF Sound, Sane, AtCDN
<1>3. "reupload" \in Kinds \ {"hashes"}
    BY DEF Kinds
<1> QED
    BY <1>1, <1>2, <1>3, RemakesRequest

LEMMA ReuploadDoneKeeps ==
    ASSUME Sound, NEW r \in m.sent, ReuploadDone(r)
    PROVE  Sound'
<1>1. /\ r.kind = "reupload" /\ UNCHANGED <<stage, priority, fed>>
      /\ m' = MakeRequest(FinishSentRequest(m, r), r.task, r.part, r.session)
    BY DEF ReuploadDone
<1>2. /\ r \in Request /\ Sane(m, 0, 0) /\ r.task \in m.cdn
      /\ known \in [Tasks -> SUBSET Parts]
    BY <1>1 DEF Sound, Sane, Manager, AtCDN
<1>3. PICK hashes \in SUBSET {r.part} : known' = [known EXCEPT ![r.task] = @ \cup hashes]
    BY DEF ReuploadDone
<1>4. known' \in [Tasks -> SUBSET Parts]
    BY <1>2, <1>3 DEF Request
<1>5. FinishSentRequest(m, r).cdn = m.cdn
  <2> DEFINE f == FinishSentRequest(m, r)
  <2>1. f = FinishSentRequest(m, r)
      OBVIOUS
  <2> HIDE DEF f
  <2>2. Without(m, f, {r})
      BY <1>2, <2>1, FinishesOne
  <2> QED  BY <2>1, <2>2 DEF Without
<1>6. m' = PlaceSentRequest(FinishSentRequest(m, r), r.task, r.part, r.session, "cdn")
    BY <1>1, <1>2, <1>5 DEF MakeRequest
<1>7. "cdn" \in Kinds \ {"hashes"}
    BY DEF Kinds
<1> QED
    BY <1>1, <1>2, <1>4, <1>6, <1>7, RemakesRequest

LEMMA RefreshFileReferenceKeeps ==
    ASSUME Sound, NEW r \in m.sent, RefreshFileReference(r)
    PROVE  Sound'
<1>1. /\ r.kind = "expired" /\ UNCHANGED <<known, stage, priority, fed>>
      /\ m' = MakeRequest(FinishSentRequest(m, r), r.task, r.part, r.session)
    BY DEF RefreshFileReference
<1>2. Sane(m, 0, 0) /\ r.task \notin m.cdn /\ known \in [Tasks -> SUBSET Parts]
    BY <1>1 DEF Sound, Sane, AtCDN
<1>3. FinishSentRequest(m, r).cdn = m.cdn
  <2> DEFINE f == FinishSentRequest(m, r)
  <2>1. f = FinishSentRequest(m, r)
      OBVIOUS
  <2> HIDE DEF f
  <2>2. Without(m, f, {r})
      BY <1>2, <2>1, FinishesOne
  <2> QED  BY <2>1, <2>2 DEF Without
<1>4. m' = PlaceSentRequest(FinishSentRequest(m, r), r.task, r.part, r.session, "file")
    BY <1>1, <1>2, <1>3 DEF MakeRequest
<1>5. "file" \in Kinds \ {"hashes"}
    BY DEF Kinds
<1> QED
    BY <1>1, <1>2, <1>4, <1>5, RemakesRequest

LEMMA ReferenceExpiredKeeps ==
    ASSUME Sound, NEW r \in m.sent, ReferenceExpired(r)
    PROVE  Sound'
<1> DEFINE q == [r EXCEPT !.kind = "expired"]
<1>1. /\ r.kind = "file" /\ UNCHANGED <<known, stage, priority, fed>>
      /\ m' = Relabelling(m, r, q)
    BY DEF ReferenceExpired, Relabelling
<1>2. r \in Request /\ Sane(m, 0, 0) /\ known \in [Tasks -> SUBSET Parts]
    BY DEF Sound, Sane, Manager
<1>3. Relabelled(r, q) /\ (q.over => r.over)
    BY <1>1, <1>2 DEF Relabelled, Request, Kinds
<1> HIDE DEF q
<1>4. Sane(m', 0, 0) /\ \A s \in Tasks : Continues(m, m', s)
    BY <1>1, <1>2, <1>3, Relabels
<1> QED
    BY <1>1, <1>2, <1>4, StepOfAll

(* A task that fails: a loader keeps what it has, others give it up.       *)
LEMMA Fails ==
    ASSUME NEW d, Sane(d, 0, 0), NEW t \in Tasks, NEW e, e = CancelOnFail(d, t)
    PROVE  /\ Sane(e, 0, 0) /\ \A s \in Tasks \ {t} : Continues(d, e, s)
           /\ t \in Files \cup Preloads => e.wanted[t] = {} /\ PartsInHand(e, t) = {}
<1>1. CASE t \in Loaders
  <2>1. e = d /\ t \notin Files \cup Preloads
      BY <1>1, TasksAssumption DEF CancelOnFail
  <2> QED  BY <2>1 DEF Continues
<1>2. CASE t \notin Loaders
  <2>1. e = Emptied(d, t)
      BY <1>2 DEF CancelOnFail, Emptied
  <2> QED  BY <2>1, Empties
<1> QED
    BY <1>1, <1>2

LEMMA StepOfFailure ==
    ASSUME Sound, NEW t \in Tasks, Sane(m', 0, 0), \A s \in Tasks \ {t} : Continues(m, m', s),
           t \in Files \cup Preloads => m'.wanted[t] = {} /\ PartsInHand(m', t) = {},
           stage' = [stage EXCEPT ![t] = "failed"], UNCHANGED priority,
           known' \in [Tasks -> SUBSET Parts], fed' \in [Tasks -> SUBSET Parts],
           \A s \in Tasks \ {t} : fed'[s] = fed[s]
    PROVE  Sound'
<1>1. Typed' /\ stage'[t] = "failed" /\ \A s \in Tasks \ {t} : stage'[s] = stage[s]
    BY DEF Typed, Sound
<1>2. t \in Files \cup Preloads => PlacedAt(m', t, stage'[t], fed'[t])
    BY <1>1 DEF PlacedAt
<1> QED
    BY <1>1, <1>2, StepOf

LEMMA PartFailedKeeps ==
    ASSUME Sound, NEW r \in m.sent, PartFailed(r)
    PROVE  Sound'
<1> DEFINE t == r.task
           yes == TRUE
           q == [r EXCEPT !.over = yes]
           f == Relabelling(m, r, q)
<1>1. /\ stage' = [stage EXCEPT ![t] = "failed"] /\ UNCHANGED <<known, priority, fed>>
      /\ m' = CancelOnFail(f, t)
    BY DEF PartFailed, FailsAtOnce, Relabelling
<1>2. r \in Request /\ Sane(m, 0, 0) /\ Typed
    BY DEF Sound, Sane, Manager, Typed
<1>3. t \in Tasks
    BY <1>2 DEF Request
<1>4. Relabelled(r, q)
  <2>1. yes \in BOOLEAN
      OBVIOUS
  <2> HIDE DEF yes
  <2> QED  BY <1>2, <2>1 DEF Relabelled, Request
<1> HIDE DEF q
<1>5. Sane(f, 0, 0) /\ \A s \in Tasks \ {t} : Continues(m, f, s)
    BY <1>2, <1>4, Relabels
<1> HIDE DEF f
<1>6. /\ Sane(m', 0, 0) /\ \A s \in Tasks \ {t} : Continues(f, m', s)
      /\ t \in Files \cup Preloads => m'.wanted[t] = {} /\ PartsInHand(m', t) = {}
    BY <1>1, <1>3, <1>5, Fails
<1>7. \A s \in Tasks \ {t} : Continues(m, m', s)
    BY <1>5, <1>6, ContinuesIsTransitive
<1> HIDE DEF t
<1> QED
    BY <1>1, <1>2, <1>3, <1>6, <1>7, StepOfFailure DEF Typed

LEMMA PartRefusedKeeps ==
    ASSUME Sound, NEW r \in m.sent, PartRefused(r)
    PROVE  Sound'
<1> DEFINE t == r.task
<1>1. PICK d \in Succeeded(FinishSentRequest(m, r), r) : m' = CheckSendNext(CancelOnFail(d, t))
    BY DEF PartRefused
<1>2. stage' = [stage EXCEPT ![t] = "failed"] /\ UNCHANGED <<known, priority, fed>>
    BY DEF PartRefused, FailsAtOnce
<1>3. r \in Request /\ Sane(m, 0, 0) /\ Typed
    BY DEF Sound, Sane, Manager, Typed
<1>4. t \in Tasks
    BY <1>3 DEF Request
<1>5. Sane(d, 0, 0) /\ Without(m, d, {r})
    BY <1>1, <1>3, Answers
<1>6. ASSUME NEW s \in Tasks \ {t} PROVE Continues(m, d, s)
  <2>1. SentOf(d, s) = SentOf(m, s)
      BY <1>5 DEF Without, SentOf
  <2> QED  BY <1>5, <2>1, Untouched DEF Without, InQueue
<1> DEFINE e == CancelOnFail(d, t)
<1>7. /\ Sane(e, 0, 0) /\ \A s \in Tasks \ {t} : Continues(d, e, s)
      /\ t \in Files \cup Preloads => e.wanted[t] = {} /\ PartsInHand(e, t) = {}
  <2>1. e = CancelOnFail(d, t)
      OBVIOUS
  <2> HIDE DEF t, e
  <2> QED  BY <1>4, <1>5, <2>1, Fails
<1>8. Sane(m', 0, 0) /\ Ahead(e, m')
  <2>1. m' = CheckSendNext(e)
      BY <1>1
  <2> HIDE DEF e
  <2> QED  BY <1>7, <2>1, ChecksSendNext
<1> HIDE DEF e
<1>9. t \in Files \cup Preloads => m'.wanted[t] = {} /\ PartsInHand(m', t) = {}
    BY <1>4, <1>7, <1>8 DEF Ahead
<1>10. ASSUME NEW s \in Tasks \ {t} PROVE Continues(m, m', s)
  <2>1. Continues(m, d, s) /\ Continues(d, e, s) /\ Continues(e, m', s)
      BY <1>6, <1>7, <1>8, AheadContinues
  <2>2. Continues(m, e, s)
      BY <2>1, ContinuesIsTransitive
  <2> QED  BY <2>1, <2>2, ContinuesIsTransitive
<1> HIDE DEF t
<1> QED
    BY <1>2, <1>3, <1>4, <1>8, <1>9, <1>10, StepOfFailure DEF Typed

LEMMA PartWrongKeeps ==
    ASSUME Sound, NEW r \in m.sent, PartWrong(r)
    PROVE  Sound'
<1> DEFINE t == r.task
           d == FinishSentRequest(m, r)
           Good(H) == {u \in Due(t, H) : \A v \in Due(t, H) : v.wrong => u.part < v.part}
<1>1. PICK H \in SUBSET Parts :
        /\ known' = [known EXCEPT ![t] = @ \cup H]
        /\ fed' = [fed EXCEPT ![t] = @ \cup {u.part : u \in Good(H)}]
        /\ m' = CancelOnFail([d EXCEPT !.unchecked[t] = @ \ Good(H)], t)
    BY DEF PartWrong
<1>2. /\ r.kind = "hashes" /\ stage' = [stage EXCEPT ![t] = "failed"]
      /\ UNCHANGED priority
    BY DEF PartWrong
<1>3. r \in Request /\ Sane(m, 0, 0) /\ Typed
    BY DEF Sound, Sane, Manager, Typed
<1>4. t \in Tasks
    BY <1>3 DEF Request
<1> DEFINE C == Good(H)
           F == {u.part : u \in C}
           f == Unchecking(d, t, m.unchecked[t] \ C)
<1>5. d.unchecked = m.unchecked
  <2>1. d = FinishSentRequest(m, r)
      OBVIOUS
  <2> HIDE DEF d
  <2>2. Without(m, d, {r})
      BY <1>3, <2>1, FinishesOne
  <2> QED  BY <2>2 DEF Without
<1>6. m' = CancelOnFail(f, t)
  <2> HIDE DEF d, C
  <2>1. m' = CancelOnFail([d EXCEPT !.unchecked[t] = @ \ C], t)
      BY <1>1 DEF C
  <2> QED  BY <1>5, <2>1 DEF Unchecking
<1>7. /\ Sane(f, 0, 0) /\ \A s \in Tasks \ {t} : Continues(m, f, s)
      /\ \A u \in C : u.part \in Parts
  <2>1. C \subseteq m.unchecked[r.task]
      BY DEF Due
  <2>2. f = Unchecking(FinishSentRequest(m, r), r.task, m.unchecked[r.task] \ C)
      OBVIOUS
  <2> HIDE DEF f, C
  <2>3. Sane(f, 0, 0) /\ Unchecked(m, f, r.task, C)
      BY <1>2, <1>3, <2>1, <2>2, Unchecks
  <2> QED  BY <2>3 DEF Unchecked
<1> HIDE DEF f
<1>8. /\ Sane(m', 0, 0) /\ \A s \in Tasks \ {t} : Continues(f, m', s)
      /\ t \in Files \cup Preloads => m'.wanted[t] = {} /\ PartsInHand(m', t) = {}
    BY <1>4, <1>6, <1>7, Fails
<1>9. \A s \in Tasks \ {t} : Continues(m, m', s)
    BY <1>7, <1>8, ContinuesIsTransitive
<1>10. /\ known' \in [Tasks -> SUBSET Parts] /\ fed' \in [Tasks -> SUBSET Parts]
       /\ \A s \in Tasks \ {t} : fed'[s] = fed[s]
  <2>1. F \subseteq Parts /\ fed' = [fed EXCEPT ![t] = @ \cup F]
      BY <1>1, <1>7
  <2> HIDE DEF F
  <2> QED  BY <1>1, <1>3, <1>4, <2>1 DEF Typed
<1> HIDE DEF t
<1> QED
    BY <1>2, <1>4, <1>8, <1>9, <1>10, StepOfFailure

LEMMA HashesUselessKeeps ==
    ASSUME Sound, NEW r \in m.sent, HashesUseless(r)
    PROVE  Sound'
<1> DEFINE t == r.task
           f == FinishSentRequest(m, r)
<1>1. /\ stage' = [stage EXCEPT ![t] = "failed"] /\ UNCHANGED <<priority, fed>>
      /\ m' = CancelOnFail(f, t)
    BY DEF HashesUseless, FailsAtOnce
<1>2. r \in Request /\ Sane(m, 0, 0) /\ Typed
    BY DEF Sound, Sane, Manager, Typed
<1>3. t \in Tasks
    BY <1>2 DEF Request
<1>4. known' \in [Tasks -> SUBSET Parts]
  <2>1. PICK H \in SUBSET Parts : known' = [known EXCEPT ![t] = @ \cup H]
      BY DEF HashesUseless
  <2> QED  BY <1>2, <1>3, <2>1 DEF Typed
<1>5. Sane(f, 0, 0) /\ Without(m, f, {r})
  <2>1. f = FinishSentRequest(m, r)
      OBVIOUS
  <2> HIDE DEF f
  <2> QED  BY <1>2, <2>1, FinishesOne
<1> HIDE DEF f
<1>6. ASSUME NEW s \in Tasks \ {t} PROVE Continues(m, f, s)
  <2>1. SentOf(f, s) = SentOf(m, s)
      BY <1>5 DEF Without, SentOf
  <2> QED  BY <1>5, <2>1, Untouched DEF Without, InQueue
<1>7. /\ Sane(m', 0, 0) /\ \A s \in Tasks \ {t} : Continues(f, m', s)
      /\ t \in Files \cup Preloads => m'.wanted[t] = {} /\ PartsInHand(m', t) = {}
    BY <1>1, <1>3, <1>5, Fails
<1>8. \A s \in Tasks \ {t} : Continues(m, m', s)
    BY <1>6, <1>7, ContinuesIsTransitive
<1> HIDE DEF t
<1> QED
    BY <1>1, <1>2, <1>3, <1>4, <1>7, <1>8, StepOfFailure DEF Typed

LEMMA RunPostedKeeps ==
    ASSUME Sound, NEW t \in Tasks, RunPosted(t)
    PROVE  Sound'
<1> DEFINE P == m.posted \ {t}
           f == Posting(m, P)
<1>0. Sane(m, 0, 0) /\ Asked /\ Typed
    BY DEF Sound, Typed
<1>1. m' = RequestMoreCdnFileHashes(f, t) /\ UNCHANGED <<known, stage, priority, fed>>
    BY DEF RunPosted, Posting
<1>2. Sane(f, 0, 0) /\ OnlyPosted(m, f, P)
  <2>1. P \subseteq Tasks
      BY <1>0 DEF Sane, Manager
  <2> HIDE DEF P
  <2> QED  BY <1>0, <2>1, SetPosted
<1> HIDE DEF f
<1>3. /\ Sane(m', 0, 0) /\ \A s \in Tasks : Continues(f, m', s)
      /\ (\A r \in SentOf(f, t) : ~r.over) => AskedFor(m', t)
    BY <1>1, <1>2, RequestsHashes
<1>4. ASSUME NEW s \in Tasks PROVE Continues(m, m', s)
  <2>1. SentOf(f, s) = SentOf(m, s) /\ f.queue = m.queue /\ f.wanted = m.wanted
        /\ f.unchecked = m.unchecked
      BY <1>2 DEF OnlyPosted, SentOf
  <2>2. PartsInHand(f, s) = PartsInHand(m, s)
      BY <2>1 DEF PartsInHand
  <2>3. Continues(f, m', s)
      BY <1>3
  <2>4. CASE s = t
    <3>1. AskedFor(m, t) => AskedFor(m', t)
        BY <1>3, <2>1, <2>4 DEF AskedFor
    <3> QED  BY <2>1, <2>2, <2>3, <2>4, <3>1 DEF Continues, InQueue
  <2>5. CASE s # t
    <3>1. s \in m.posted => s \in f.posted
        BY <1>2, <2>5 DEF OnlyPosted
    <3>2. Continues(m, f, s)
        BY <2>1, <3>1, Untouched DEF InQueue
    <3> QED  BY <2>3, <3>2, ContinuesIsTransitive
  <2> QED  BY <2>4, <2>5
<1> QED
    BY <1>0, <1>1, <1>3, <1>4, StepOfAll DEF Typed

LEMMA SessionsKeep ==
    ASSUME Sound, NotOverloaded, ResetGeneration \/ RemoveSession \/ KillSessions
    PROVE  Sound'
<1>0. Sane(m, 0, 0) /\ Typed /\ Len(m.sessions) \in Nat
    BY DEF Sound, Typed, Sane, Ranged
<1>1. UNCHANGED <<known, stage, priority, fed>>
    BY DEF ResetGeneration, RemoveSession, KillSessions
<1>2. Sane(m', 0, 0) /\ \A s \in Tasks : Continues(m, m', s)
  <2>1. CASE ResetGeneration
    <3>1. m' = Queueing(m, Sinking(m.queue), FALSE)
      <4>1. m \in Manager
          BY <1>0 DEF Sane
      <4> QED  BY <2>1, <4>1 DEF ResetGeneration, Queueing, Sinking, Manager
    <3> QED  BY <1>0, <3>1, Sinks
  <2>2. CASE KillSessions
    <3>1. m.kill /\ m' = Killing(m)
        BY <2>2 DEF KillSessions, Killing
    <3> QED  BY <1>0, <3>1, Kills
  <2>3. CASE RemoveSession
    <3> DEFINE i == Len(m.sessions)
               x == MaxWaited * MaxSessions
    <3>1. i > 1 /\ m' = Dropping(RemoveFromSessions(Inflating(m, i, x), i))
        BY <2>3 DEF RemoveSession, Dropping, Inflating
    <3>2. x \in Nat /\ m.total <= x
        BY SessionsAssumption DEF NotOverloaded
    <3>3. i \in Nat /\ i = Len(m.sessions)
        BY <1>0
    <3> HIDE DEF i, x
    <3> QED  BY <1>0, <3>1, <3>2, <3>3, RemovesSession
  <2> QED  BY <2>1, <2>2, <2>3
<1> QED
    BY <1>0, <1>1, <1>2, StepOfAll DEF Typed


-----------------------------------------------------------------------------
(* The invariant, and what follows from it.                                *)

LEMMA InitSane ==
    ASSUME Init
    PROVE  Sane(m, 0, 0)
<1> DEFINE free == FALSE
           now == 0
           none == [t \in Tasks |-> {}]
           all == [t \in Tasks |-> IF t \in Loaders THEN {} ELSE Parts]
           first == <<NewSession>>
<1>1. m = [queue |-> <<>>, generation |-> free, sessions |-> first,
           total |-> now, kill |-> free, sent |-> {},
           unchecked |-> none, posted |-> {}, cdn |-> {}, wanted |-> all]
    BY DEF Init
<1>2. free \in BOOLEAN /\ ~free
    OBVIOUS
<1>3. first \in Seq(Session) /\ Len(first) = 1 /\ first[1].requested = 0
    BY SessionsAssumption DEF NewSession, Session
<1>4. /\ none \in [Tasks -> SUBSET PartIn(Nat)]
      /\ all \in [Tasks -> SUBSET Parts]
      /\ \A t \in Tasks : none[t] = {}
    OBVIOUS
<1> HIDE DEF free, none, all, first
<1>5. m \in Manager
  <2>1. now \in Int /\ <<>> \in Seq(Entry)
      OBVIOUS
  <2> HIDE DEF now
  <2> QED  BY <1>1, <1>2, <1>3, <1>4, <2>1 DEF Manager
<1>6. /\ m.queue = <<>> /\ m.sessions = first /\ m.total = now /\ ~m.kill /\ m.sent = {}
      /\ m.unchecked = none /\ m.cdn = {}
    BY <1>1, <1>2
<1>7. \A t \in Tasks : m.unchecked[t] = {} /\ SentOf(m, t) = {}
    BY <1>4, <1>6 DEF SentOf
<1>8. Ranged(m)
  <2>1. 1 \in 1..MaxSessions
      BY SessionsAssumption
  <2> QED  BY <1>3, <1>6, <1>7, <2>1 DEF Ranged
<1>9. Booked(m, 0, 0)
  <2>1. IsFiniteSet({}) /\ Cardinality({}) = 0
      BY FS_EmptySet
  <2>2. \A j \in 1..Len(m.sessions) : m.sessions[j].requested = 0 /\ j # 0
      BY <1>3, <1>6
  <2>3. \A j \in 1..Len(m.sessions) : InSession(m.sent, j) = {}
      BY <1>6 DEF InSession
  <2>4. IsFiniteSet(m.sent) /\ m.total = Cardinality(m.sent) /\ (m.kill => m.sent = {})
      BY <1>6, <2>1
  <2>5. ASSUME NEW j \in 1..Len(m.sessions)
        PROVE  m.sessions[j].requested
                 = Cardinality(InSession(m.sent, j)) + (IF j = 0 THEN 0 ELSE 0)
    <3>1. InSession(m.sent, j) = {}
        BY <2>3
    <3>2. m.sessions[j].requested = 0
        BY <2>2
    <3> QED  BY <2>1, <3>1, <3>2
  <2> QED  BY <2>4, <2>5 DEF Booked
<1>10. Reached(m) /\ QueuedOnce(m)
    BY <1>6, <1>7 DEF Reached, HaveSentRequests, QueuedOnce
<1>11. OneByOne(m) /\ AtCDN(m)
    BY <1>6, <1>7 DEF OneByOne, AtCDN
<1> QED
    BY <1>5, <1>8, <1>9, <1>10, <1>11 DEF Sane

LEMMA InitSound ==
    ASSUME Init
    PROVE  Sound
<1>1. Sane(m, 0, 0)
    BY InitSane
<1>2. /\ m.queue = <<>> /\ m.sent = {} /\ m.unchecked = [t \in Tasks |-> {}]
      /\ m.wanted = [t \in Tasks |-> IF t \in Loaders THEN {} ELSE Parts]
    BY DEF Init
<1>3. \A t \in Tasks : m.unchecked[t] = {} /\ PartsInHand(m, t) = {} /\ ~InQueue(m, t)
    BY <1>2 DEF PartsInHand, SentOf, InQueue
<1>4. Asked
    BY <1>2, <1>3 DEF Asked, AskedFor, SentOf
<1>5. /\ known \in [Tasks -> SUBSET Parts] /\ fed \in [Tasks -> SUBSET Parts]
      /\ stage \in [Tasks -> {"new", "on", "done", "failed", "gone"}]
      /\ priority \in [Loaders -> 0..1]
    BY DEF Init
<1>6. ASSUME NEW t \in Files \cup Preloads PROVE PlacedAt(m, t, stage[t], fed[t])
  <2>1. t \in Tasks /\ t \notin Loaders
      BY TasksAssumption DEF Tasks
  <2>2. stage[t] = "new" /\ fed[t] = {} /\ m.wanted[t] = Parts
      BY <1>2, <2>1 DEF Init
  <2> QED  BY <1>3, <2>1, <2>2 DEF PlacedAt
<1> QED
    BY <1>1, <1>4, <1>5, <1>6 DEF Sound

LEMMA AnsweredKeeps ==
    ASSUME Sound, NEW r \in m.sent, Answered(r)
    PROVE  Sound'
<1>1. CASE PartLoaded(r)
    BY <1>1, PartLoadedKeeps
<1>2. CASE PartWaits(r)
    BY <1>2, PartWaitsKeeps
<1>3. CASE GetCdnFileHashesDone(r)
    BY <1>3, GetCdnFileHashesDoneKeeps
<1>4. CASE ReuploadDone(r)
    BY <1>4, ReuploadDoneKeeps
<1>5. CASE RefreshFileReference(r)
    BY <1>5, RefreshFileReferenceKeeps
<1>6. CASE PartWrong(r)
    BY <1>6, PartWrongKeeps
<1> QED
    BY <1>1, <1>2, <1>3, <1>4, <1>5, <1>6 DEF Answered

LEMMA OwnerKeeps ==
    ASSUME Sound, NEW t \in Tasks, Owner(t)
    PROVE  Sound'
<1>1. CASE Start(t)
    BY <1>1, StartKeeps
<1>2. CASE Cancel(t)
    BY <1>2, CancelKeeps
<1>3. CASE Destroy(t)
    BY <1>3, DestroyKeeps
<1>4. CASE SetPriority(t)
    BY <1>4, SetPriorityKeeps
<1>5. CASE TryRemoveFromQueue(t)
    BY <1>5, TryRemoveFromQueueKeeps
<1>6. ASSUME NEW p \in Parts, Load(t, p) PROVE Sound'
    BY <1>6, LoadKeeps
<1>7. ASSUME NEW p \in Parts, CancelForOffset(t, p) PROVE Sound'
    BY <1>7, CancelForOffsetKeeps
<1>8. ASSUME NEW p \in Parts, ForgetOffset(t, p) PROVE Sound'
    BY <1>8, ForgetOffsetKeeps
<1> QED
    BY <1>1, <1>2, <1>3, <1>4, <1>5, <1>6, <1>7, <1>8 DEF Owner

LEMMA StutterKeeps ==
    ASSUME Sound, UNCHANGED vars
    PROVE  Sound'
BY DEF Sound, Asked, vars

LEMMA NextKeeps ==
    ASSUME Sound, NotOverloaded, [Next]_vars, ~(\E r \in Waiting : TokenInvalid(r))
    PROVE  Sound'
<1>1. ASSUME NEW r \in Waiting, Answered(r) PROVE Sound'
  <2>1. r \in m.sent
      BY DEF Waiting
  <2> QED  BY <1>1, <2>1, AnsweredKeeps
<1>2. ASSUME NEW r \in Waiting, Trouble(r) PROVE Sound'
  <2>1. r \in m.sent
      BY DEF Waiting
  <2>2. CASE SwitchToCDN(r)
      BY <2>1, <2>2, SwitchToCDNKeeps
  <2>3. CASE ReuploadNeeded(r)
      BY <2>1, <2>3, ReuploadNeededKeeps
  <2>4. CASE ReferenceExpired(r)
      BY <2>1, <2>4, ReferenceExpiredKeeps
  <2>5. CASE PartFailed(r)
      BY <2>1, <2>5, PartFailedKeeps
  <2>6. CASE PartRefused(r)
      BY <2>1, <2>6, PartRefusedKeeps
  <2>7. CASE HashesUseless(r)
      BY <2>1, <2>7, HashesUselessKeeps
  <2> QED  BY <1>2, <2>2, <2>3, <2>4, <2>5, <2>6, <2>7 DEF Trouble
<1>3. ASSUME NEW t \in Tasks, Owner(t) PROVE Sound'
    BY <1>3, OwnerKeeps
<1>4. ASSUME NEW t \in Tasks, RunPosted(t) PROVE Sound'
    BY <1>4, RunPostedKeeps
<1>5. CASE ResetGeneration \/ RemoveSession \/ KillSessions
    BY <1>5, SessionsKeep
<1>6. CASE UNCHANGED vars
    BY <1>6, StutterKeeps
<1> QED
    BY <1>1, <1>2, <1>3, <1>4, <1>5, <1>6 DEF Next

(* Tokens only expire.                                                     *)
LEMMA TokensOnlyExpire ==
    ASSUME tokens \in Nat, [Next]_vars
    PROVE  tokens' \in Nat /\ (tokens' = 0 => tokens = 0 /\ ~(\E r \in Waiting : TokenInvalid(r)))
<1>1. ASSUME NEW r \in Waiting, TokenInvalid(r) PROVE tokens' = tokens + 1
    BY <1>1 DEF TokenInvalid
<1>2. ASSUME ~(\E r \in Waiting : TokenInvalid(r)) PROVE tokens' = tokens
  <2>1. ASSUME NEW r \in Waiting, Answered(r) PROVE tokens' = tokens
      BY <2>1 DEF Answered, PartLoaded, PartWaits, GetCdnFileHashesDone, PartWrong,
                  ReuploadDone, RefreshFileReference, troubles
  <2>2. ASSUME NEW r \in Waiting, Trouble(r) PROVE tokens' = tokens
      BY <1>2, <2>2 DEF Trouble, SwitchToCDN, ReuploadNeeded, ReferenceExpired,
                        PartFailed, PartRefused, HashesUseless
  <2>3. ASSUME NEW t \in Tasks, Owner(t) PROVE tokens' = tokens
      BY <2>3 DEF Owner, Start, Cancel, Destroy, SetPriority, TryRemoveFromQueue, Load,
                  CancelForOffset, ForgetOffset, troubles
  <2>4. ASSUME NEW t \in Tasks, RunPosted(t) PROVE tokens' = tokens
      BY <2>4 DEF RunPosted, troubles
  <2>5. CASE ResetGeneration \/ RemoveSession \/ KillSessions
      BY <2>5 DEF ResetGeneration, RemoveSession, KillSessions, troubles
  <2>6. CASE UNCHANGED vars
      BY <2>6 DEF vars, troubles
  <2> QED  BY <2>1, <2>2, <2>3, <2>4, <2>5, <2>6 DEF Next
<1> QED
    BY <1>1, <1>2

LEMMA InitSafe ==
    ASSUME Init
    PROVE  Safe
<1>1. tokens \in Nat
    BY DEF Init
<1> QED
    BY <1>1, InitSound DEF Safe

LEMMA NextSafe ==
    ASSUME Safe, NotOverloaded, [Next]_vars
    PROVE  Safe'
<1>1. tokens' \in Nat /\ (tokens' = 0 => tokens = 0 /\ ~(\E r \in Waiting : TokenInvalid(r)))
    BY TokensOnlyExpire DEF Safe
<1>2. ASSUME tokens' = 0 PROVE Sound'
    BY <1>1, <1>2, NextKeeps DEF Safe
<1> QED
    BY <1>1, <1>2 DEF Safe

LEMMA AlwaysSafe == Spec /\ []NotOverloaded => []Safe
<1>1. Init => Safe
    BY InitSafe
<1>2. Safe /\ NotOverloaded /\ [Next]_vars => Safe'
    BY NextSafe
<1> QED
    BY <1>1, <1>2, PTL DEF Spec

LEMMA SoundIsConsistent ==
    ASSUME Sound
    PROVE  Consistent
<1>0. Sane(m, 0, 0)
    BY DEF Sound
<1>1. TypeOK
  <2>1. /\ m.queue \in Seq(Entry) /\ m.generation \in BOOLEAN /\ m.kill \in BOOLEAN
        /\ m.sessions \in Seq(Session) /\ m.sent \subseteq Request
        /\ m.unchecked \in [Tasks -> SUBSET PartIn(Nat)]
        /\ m.posted \subseteq Tasks /\ m.cdn \subseteq Tasks
        /\ m.wanted \in [Tasks -> SUBSET Parts]
      BY <1>0 DEF Sane, Manager
  <2>2. /\ Len(m.sessions) \in 1..MaxSessions
        /\ \A r \in m.sent : r.session \in Sessions
        /\ \A t \in Tasks : \A u \in m.unchecked[t] : u.session \in Sessions
      BY <1>0 DEF Sane, Ranged, Sessions
  <2>3. ASSUME NEW i \in Sessions
        PROVE  m.sessions[i].requested \in Nat /\ m.sessions[i].max \in StartWaited..MaxWaited
    <3>1. m.sessions[i] \in Session
        BY <2>1 DEF Sessions
    <3>2. IsFiniteSet(InSession(m.sent, i))
        BY <1>0, FS_Subset DEF Sane, Booked, InSession
    <3>3. m.sessions[i].requested = Cardinality(InSession(m.sent, i)) + 0
        BY <1>0 DEF Sane, Booked, Sessions
    <3>4. Cardinality(InSession(m.sent, i)) \in Nat
        BY <3>2, FS_CardinalityType
    <3> QED  BY <3>1, <3>3, <3>4 DEF Session
  <2>4. m.sent \subseteq [task : Tasks, part : Parts, session : Sessions,
                          kind : Kinds, amount : Nat, over : BOOLEAN]
      BY <2>1, <2>2 DEF Request
  <2>5. ASSUME NEW t \in Tasks, NEW u \in m.unchecked[t] PROVE u \in PartIn(Sessions)
      BY <2>1, <2>2 DEF PartIn
  <2>6. m.unchecked \in [Tasks -> SUBSET PartIn(Sessions)]
      BY <2>1, <2>5
  <2> QED  BY <2>1, <2>2, <2>3, <2>4, <2>6 DEF TypeOK, Entry, Sound
<1>2. RequestedIsSent
  <2>1. m.total = Cardinality(m.sent) /\ (m.kill => m.sent = {})
      BY <1>0 DEF Sane, Booked
  <2>2. ASSUME NEW i \in Sessions
        PROVE  m.sessions[i].requested = Cardinality({r \in m.sent : r.session = i})
    <3>1. m.sessions[i].requested = Cardinality(InSession(m.sent, i)) + 0
        BY <1>0 DEF Sane, Booked, Sessions
    <3>2. IsFiniteSet(InSession(m.sent, i))
        BY <1>0, FS_Subset DEF Sane, Booked, InSession
    <3>3. Cardinality(InSession(m.sent, i)) \in Nat
        BY <3>2, FS_CardinalityType
    <3>4. m.sessions[i].requested = Cardinality(InSession(m.sent, i))
        BY <3>1, <3>3
    <3> QED  BY <3>4 DEF InSession
  <2> QED  BY <2>1, <2>2 DEF RequestedIsSent
<1>3. SentIsQueued
    BY <1>0 DEF Sane, Reached, InQueue, SentIsQueued
<1> QED
    BY <1>1, <1>2, <1>3 DEF Consistent

LEMMA SoundUncheckedIsAsked ==
    ASSUME Sound
    PROVE  UncheckedIsAsked
<1> SUFFICES ASSUME NEW t \in Tasks, m.unchecked[t] # {}, ~(t \in Loaders /\ stage[t] = "failed")
             PROVE  t \in m.posted \/ \E r \in SentOf(m, t) : r.kind = "hashes" /\ ~r.over
    BY DEF UncheckedIsAsked
<1>1. stage[t] # "failed"
  <2>1. CASE t \in Loaders
      BY <2>1
  <2>2. CASE t \in Files \cup Preloads
    <3>1. stage[t] = "failed" => PartsInHand(m, t) = {}
        BY <2>2 DEF Sound, PlacedAt
    <3>2. PartsInHand(m, t) # {}
        BY DEF PartsInHand
    <3> QED  BY <3>1, <3>2
  <2> QED  BY <2>1, <2>2 DEF Tasks
<1>2. AskedFor(m, t)
    BY <1>1 DEF Sound, Asked
<1> QED
    BY <1>2 DEF AskedFor

LEMMA SoundOneRequestPerPart ==
    ASSUME Sound, NEW t \in Tasks
    PROVE  OneRequestPerPart(t)
<1>1. OneByOne(m)
    BY DEF Sound, Sane
<1>2. \A r, s \in SentOf(m, t) : r.part = s.part => r = s
    BY <1>1 DEF OneByOne, SentOf
<1>3. ASSUME NEW p \in PartsInHand(m, t) PROVE p \notin m.wanted[t]
    BY <1>1 DEF OneByOne, PartsInHand, SentOf
<1> QED
    BY <1>2, <1>3 DEF OneRequestPerPart

LEMMA SoundPartsAreKept ==
    ASSUME Sound
    PROVE  PartsAreKept
<1>1. ASSUME NEW t \in Files \cup Preloads PROVE PlacedAt(m, t, stage[t], fed[t])
    BY DEF Sound
<1>2. ASSUME NEW t \in Files \cup Preloads
      PROVE  /\ stage[t] = "on" => Parts = m.wanted[t] \cup PartsInHand(m, t) \cup fed[t]
             /\ fed[t] \cap PartsInHand(m, t) = {}
    BY <1>1 DEF PlacedAt
<1>3. ASSUME NEW t \in Files, stage[t] = "done" PROVE fed[t] = Parts
    BY <1>1, <1>3 DEF PlacedAt
<1>4. ASSUME NEW t \in Preloads, stage[t] = "done" PROVE Parts \ {NumParts} \subseteq fed[t]
  <2>1. t \notin Files
      BY TasksAssumption
  <2> QED  BY <1>1, <1>4, <2>1 DEF PlacedAt
<1>5. \A t \in Tasks : OneRequestPerPart(t)
    BY SoundOneRequestPerPart
<1> QED
    BY <1>2, <1>3, <1>4, <1>5 DEF PartsAreKept

-----------------------------------------------------------------------------
(* Until a CDN token expires the manager's books are right: per session    *)
(* and in all it counts what tasks have sent, nobody is killed who has a   *)
(* request out, and every task with something at a server is in the queue. *)
(* Changing sessions' amounts, moving requests of a session that is        *)
(* removed and cancelling all rest on it (changeRequestedAmount,           *)
(* removeSession, killSessions).                                           *)
THEOREM BooksAreRight == Spec /\ []NotOverloaded => [](tokens = 0 => Consistent)
<1>1. Safe => (tokens = 0 => Consistent)
    BY SoundIsConsistent DEF Safe
<1> QED
    BY <1>1, AlwaysSafe, PTL

(* Parts that came from a CDN before their hashes have a request for       *)
(* hashes out, which will be answered, or posted, whatever is cancelled,   *)
(* moved to another session or asked for again (requestMoreCdnFileHashes,  *)
(* cancelRequest).  They are also let go when a file or a preload fails;   *)
(* a streaming loader that failed keeps them, and is left out.             *)
THEOREM HashesAreAsked == Spec /\ []NotOverloaded => []UncheckedIsAsked
<1>1. Safe => UncheckedIsAsked
    BY SoundUncheckedIsAsked DEF Safe, UncheckedIsAsked
<1> QED
    BY <1>1, AlwaysSafe, PTL

(* No part of a file is lost, asked for twice at a time or given to it     *)
(* twice, and a file that is finished has them all, however its requests   *)
(* are cancelled, moved and made again (placeSentRequest, takeNextRequest, *)
(* partLoaded).                                                            *)
THEOREM PartsStay == Spec /\ []NotOverloaded => []PartsAreKept
<1>1. Safe => PartsAreKept
  <2>1. CASE tokens = 0
      BY <2>1, SoundPartsAreKept DEF Safe
  <2>2. CASE tokens # 0
      BY <2>2 DEF PartsAreKept
  <2> QED  BY <2>1, <2>2
<1> QED
    BY <1>1, AlwaysSafe, PTL
=============================================================================
