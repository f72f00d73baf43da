------------------------ MODULE ContextMemoryProofs -------------------------
(***************************************************************************)
(* The safety of ContextMemory for any number of messages, steps, calls,   *)
(* undos and ends of the process, when undo and clear come between turns.  *)
(*                                                                         *)
(* The history an agent has and the one its log restores are both sound:   *)
(* every result follows its call, no call and no result is there twice,    *)
(* and what came in is in order.  Both wait for the same results, those    *)
(* the turn still owes.                                                    *)
(***************************************************************************)
EXTENDS ContextMemory, FiniteSetTheorems, SequenceTheorems, WellFoundedInduction, TLAPS

\* The bounds are numbers; undo and clear come between turns.
Calm ==
    /\ MaxMessages \in Nat /\ MaxSteps \in Nat /\ MaxCalls \in Nat
    /\ MaxUndos \in Nat /\ MaxCrashes \in Nat
    /\ ~Rash

Kinds == Incoming \cup {"summary", "step", "result"}

Items == [kind: Kinds, id: Nat, calls: Seq(Nat), text: BOOLEAN]

Contexts == [history: Seq(Items), open: SUBSET Nat, pending: Seq(Nat), deferred: Seq(Items)]

Injective(s) == \A i, j \in DOMAIN s: s[i] = s[j] => i = j

\* Step i of the history made this call; some message is its result.
Makes(h, i, call) == h[i].kind = "step" /\ \E n \in DOMAIN h[i].calls: h[i].calls[n] = call

Answered(h, call) == \E j \in DOMAIN h: h[j].kind = "result" /\ h[j].id = call

\* Only steps have calls or no text.
Shaped(h) == \A i \in DOMAIN h: h[i].kind # "step" => h[i].calls = << >> /\ h[i].text = TRUE

\* At most m messages came in and s steps were begun.
Numbered(h, m, s) ==
    \A i \in DOMAIN h: /\ h[i].kind \in Incoming => h[i].id <= m
                       /\ h[i].kind = "step" => h[i].id <= s

Ordered(h) ==
    \A i, j \in DOMAIN h:
        i < j /\ h[i].kind \in Incoming /\ h[j].kind \in Incoming => h[i].id < h[j].id

\* A step is there once, and its calls are named after it.
StepsApart(h) ==
    /\ \A i, j \in DOMAIN h:
          h[i].kind = "step" /\ h[j].kind = "step" /\ h[i].id = h[j].id => i = j
    /\ \A i \in DOMAIN h: h[i].kind = "step" =>
          /\ Injective(h[i].calls)
          /\ \A n \in DOMAIN h[i].calls:
                \E p \in 1..MaxCalls: h[i].calls[n] = Call(h[i].id, p)

ResultsFollow(h) ==
    /\ \A i, j \in DOMAIN h:
          h[i].kind = "result" /\ h[j].kind = "result" /\ h[i].id = h[j].id => i = j
    /\ \A j \in DOMAIN h: h[j].kind = "result" =>
          \E i \in DOMAIN h: i < j /\ Makes(h, i, h[j].id)

History(h, m, s) ==
    /\ h \in Seq(Items)
    /\ Shaped(h) /\ Numbered(h, m, s) /\ Ordered(h) /\ StepsApart(h) /\ ResultsFollow(h)

\* What is deferred came in after what is in the history, and waits for a result.
Waits(c, m) ==
    /\ \A n \in DOMAIN c.deferred:
          /\ c.deferred[n].kind \in Incoming /\ c.deferred[n].id <= m
          /\ c.deferred[n].calls = << >> /\ c.deferred[n].text = TRUE
          /\ \A i \in DOMAIN c.history:
                c.history[i].kind \in Incoming => c.history[i].id < c.deferred[n].id
    /\ Ordered(c.deferred)
    /\ c.pending = << >> => c.deferred = << >>

\* What is pending was called and has no result.
Unanswered(c) ==
    /\ Injective(c.pending)
    /\ \A n \in DOMAIN c.pending:
          /\ \E i \in DOMAIN c.history: Makes(c.history, i, c.pending[n])
          /\ ~Answered(c.history, c.pending[n])

Sound(c, m, s) ==
    /\ c \in Contexts /\ c.open \subseteq 1..s
    /\ History(c.history, m, s) /\ Waits(c, m) /\ Unanswered(c)

\* Step s is open; none of the calls to come is among those it has.
Opened(c, s, calls) ==
    /\ s \in c.open
    /\ \E i \in DOMAIN c.history: c.history[i].kind = "step" /\ c.history[i].id = s
    /\ \A i \in DOMAIN c.history:
          c.history[i].kind = "step" /\ c.history[i].id = s =>
             \A k \in DOMAIN calls: ~Makes(c.history, i, calls[k])

\* Step s has no calls yet.
Bare(c, s) ==
    \A i \in DOMAIN c.history:
        c.history[i].kind = "step" /\ c.history[i].id = s => c.history[i].calls = << >>

\* A call without a result that nobody waits for has been overtaken by a message.
Settled(c) ==
    \A i \in DOMAIN c.history: \A n \in DOMAIN c.history[i].calls:
        \/ Answered(c.history, c.history[i].calls[n])
        \/ \E k \in DOMAIN c.pending: c.pending[k] = c.history[i].calls[n]
        \/ \E k \in DOMAIN c.history:
              k > i /\ c.history[k].kind \in Incoming \cup {"summary"}

\* Two contexts differ in nothing but the steps that are open.
Alike(c, d) == c.history = d.history /\ c.pending = d.pending /\ c.deferred = d.deferred

Running == turn \in {"streaming", "calling"}

Counted ==
    /\ messages \in 0..MaxMessages /\ steps \in 0..MaxSteps
    /\ undos \in 0..MaxUndos /\ crashes \in 0..MaxCrashes
    /\ unlogged \in BOOLEAN /\ worker \in BOOLEAN
    /\ life \in {"up", "down", "resuming"}

\* Where the turn is, and what it is still to record.
TurnKept ==
    /\ turn \in Phases
    /\ turn = "idle" => step = 0
    /\ turn = "between" => step \in 0..steps
    /\ Running => step = steps /\ steps # 0
    /\ todo \in Seq(Nat) /\ owed \in Seq(Nat)
    /\ turn # "calling" => todo = << >> /\ owed = << >>
    /\ Injective(todo)
    /\ \A k \in DOMAIN todo: \E p \in 1..MaxCalls: todo[k] = Call(step, p)
    /\ Running => Opened(context, step, todo) /\ Opened(log.context, step, todo)
    /\ turn = "streaming" => Bare(context, step) /\ Bare(log.context, step)

\* What the agent and its log agree on.
Agreed ==
    /\ log = [context |-> log.context, throws |-> FALSE]
    /\ life = "up" =>
          /\ context.pending = owed /\ log.context.pending = owed
          /\ ~unlogged => Alike(context, log.context)
    /\ life = "resuming" => context = log.context
    /\ life # "up" => turn = "idle" /\ ~Compacting /\ ~unlogged

\* While a turn runs, what it asks the model next answers every call or shows
\* that it is over.
Overtaken == life = "up" /\ turn # "idle" => Settled(context)

\* The step that runs is not in what is being summarized.
Covered ==
    Compacting =>
        /\ summarized \in Seq(Items)
        /\ \A n \in DOMAIN summarized: summarized[n].kind = "step" =>
              summarized[n].id <= steps /\ (Running => summarized[n].id # step)

IInv ==
    /\ Counted /\ TurnKept /\ Agreed /\ Overtaken /\ Covered
    /\ Sound(context, messages, steps) /\ Sound(log.context, messages, steps)
-----------------------------------------------------------------------------
(* Numbers and sequences *)

LEMMA Least ==
    ASSUME NEW D, D \subseteq Nat, D # {}
    PROVE  \E m \in D: \A n \in D: m <= n
<1>1. PICK m \in D: \A n \in D: << n, m >> \notin OpToRel(<, Nat)
  BY NatLessThanWellFounded, WFMin
<1>2. \A n \in D: ~ (n < m) BY <1>1 DEF OpToRel
<1> QED BY <1>2

\* Calls of two steps differ, and so do two calls of a step.
LEMMA CallsApart ==
    ASSUME MaxCalls \in Nat, NEW s \in Nat, NEW t \in Nat,
           NEW p \in 1..MaxCalls, NEW q \in 1..MaxCalls
    PROVE  Call(s, p) \in Nat /\ (Call(s, p) = Call(t, q) => s = t /\ p = q)
<1>1. ASSUME NEW a \in Nat, NEW b \in Nat, NEW w \in Nat, a < b
      PROVE  a * w + w <= b * w
  <2>1. PICK d \in Nat: b = a + 1 + d
    <3>1. b - a - 1 \in Nat /\ b = a + 1 + (b - a - 1) BY <1>1
    <3> QED BY <3>1
  <2>2. b * w = a * w + w + d * w BY <2>1
  <2>3. d * w \in Nat /\ a * w \in Nat OBVIOUS
  <2> QED BY <2>2, <2>3
<1> DEFINE w == MaxCalls + 1
<1>2. w \in Nat /\ p < w /\ q < w /\ p \in Nat /\ q \in Nat OBVIOUS
<1> HIDE DEF w
<1>3. s * w \in Nat /\ t * w \in Nat BY <1>2
<1>4. Call(s, p) = s * w + p /\ Call(t, q) = t * w + q BY DEF Call, w
<1>5. s < t => s * w + w <= t * w BY <1>1, <1>2
<1>6. t < s => t * w + w <= s * w BY <1>1, <1>2
<1>7. s < t \/ t < s \/ s = t OBVIOUS
<1>8. s = t => s * w = t * w OBVIOUS
<1> QED BY <1>2, <1>3, <1>4, <1>5, <1>6, <1>7, <1>8

LEMMA RemoveHead ==
    ASSUME NEW T, NEW q \in Seq(T), q # << >>
    PROVE  RemoveFirst(q, Head(q)) = Tail(q)
<1>1. 1 \in 1..Len(q) /\ Head(q) = q[1] /\ Len(q) \in Nat OBVIOUS
<1> DEFINE I == {i \in 1..Len(q): q[i] = Head(q)}
<1>2. SelectInSeq(q, LAMBDA v: v = Head(q)) = 1
  <2>1. SelectInSeq(q, LAMBDA v: v = Head(q)) = Min(I)
    BY <1>1 DEF SelectInSeq
  <2>2. 1 \in I /\ \A y \in I: 1 <= y /\ y \in Nat BY <1>1
  <2> HIDE DEF I
  <2>3. Min(I) = 1 BY <2>2 DEF Min
  <2> QED BY <2>1, <2>3
<1>3. RemoveFirst(q, Head(q)) = RemoveAt(q, 1) BY <1>1, <1>2 DEF RemoveFirst
<1>4. SubSeq(q, 1, 0) = << >> OBVIOUS
<1>5. RemoveAt(q, 1) = << >> \o SubSeq(q, 2, Len(q)) BY <1>4 DEF RemoveAt
<1>6. Tail(q) = SubSeq(q, 2, Len(q)) BY TailIsSubSeq
<1>7. Tail(q) \in Seq(T) OBVIOUS
<1> QED BY <1>3, <1>5, <1>6, <1>7, ConcatEmptySeq

\* The positions in a set are numbered in their order.
LEMMA Ranked ==
    ASSUME NEW N \in Nat, NEW S \in SUBSET (1..N)
    PROVE  /\ Cardinality(S) \in Nat
           /\ \A k \in 1..Cardinality(S): Nth(S, k) \in S
           /\ \A k, l \in 1..Cardinality(S): k < l => Nth(S, k) < Nth(S, l)
           /\ \A i \in S: \E k \in 1..Cardinality(S): i = Nth(S, k)
<1> DEFINE upTo(i) == {j \in S: j <= i}
           rank == [i \in S |-> Cardinality(upTo(i))]
           size == Cardinality(S)
<1>1. IsFiniteSet(S) /\ size \in Nat
  <2>1. IsFiniteSet(1..N) BY FS_Interval
  <2>2. IsFiniteSet(S) BY <2>1, FS_Subset
  <2> QED BY <2>2, FS_CardinalityType
<1>2. \A i \in S: IsFiniteSet(upTo(i)) /\ Cardinality(upTo(i)) \in 1..size
  <2> TAKE i \in S
  <2>1. upTo(i) \in SUBSET S OBVIOUS
  <2>2. IsFiniteSet(upTo(i)) /\ Cardinality(upTo(i)) <= size BY <1>1, <2>1, FS_Subset
  <2>3. Cardinality(upTo(i)) \in Nat BY <2>2, FS_CardinalityType
  <2>4. i \in upTo(i) OBVIOUS
  <2>5. Cardinality(upTo(i)) # 0 BY <2>2, <2>4, FS_EmptySet
  <2> HIDE DEF upTo, size
  <2> QED BY <1>1, <2>2, <2>3, <2>5
<1>3. \A i, j \in S: i < j => Cardinality(upTo(i)) < Cardinality(upTo(j))
  <2> TAKE i, j \in S
  <2> HAVE i < j
  <2>0. i \in Nat /\ j \in Nat /\ \A k \in S: k \in Nat OBVIOUS
  <2>1. upTo(i) \in SUBSET upTo(j) /\ j \in upTo(j) /\ j \notin upTo(i)
    <3>1. \A k \in S: k <= i => k <= j BY <2>0
    <3>2. ~(j <= i) /\ j <= j BY <2>0
    <3> QED BY <3>1, <3>2
  <2>2. upTo(i) # upTo(j) BY <2>1
  <2>3. IsFiniteSet(upTo(j)) BY <1>2
  <2>4. /\ Cardinality(upTo(i)) <= Cardinality(upTo(j))
        /\ Cardinality(upTo(j)) # Cardinality(upTo(i))
    <3> HIDE DEF upTo
    <3> QED BY <2>1, <2>2, <2>3, FS_Subset
  <2>5. Cardinality(upTo(i)) \in Nat /\ Cardinality(upTo(j)) \in Nat
    <3> HIDE DEF upTo
    <3> QED BY <1>1, <1>2
  <2> HIDE DEF upTo
  <2> QED BY <2>4, <2>5
<1>4. rank \in [S -> 1..size] /\ \A i, j \in S: i < j => rank[i] < rank[j]
  <2> HIDE DEF upTo
  <2> QED BY <1>2, <1>3
<1>5. rank \in Surjection(S, 1..size)
  <2> HIDE DEF rank
  <2>1. rank \in Injection(S, 1..size)
    <3>1. \A i, j \in S: rank[i] = rank[j] => i = j
      <4> TAKE i, j \in S
      <4>1. i \in Nat /\ j \in Nat /\ (i < j \/ j < i \/ i = j) OBVIOUS
      <4>2. rank[i] \in Nat /\ rank[j] \in Nat BY <1>1, <1>4
      <4> QED BY <1>4, <4>1, <4>2
    <3> QED BY <1>4, <3>1 DEF Injection, IsInjective
  <2>2. IsFiniteSet(1..size) /\ Cardinality(1..size) = size
    <3> HIDE DEF size
    <3> QED BY <1>1, FS_Interval
  <2> QED BY <2>1, <2>2, FS_Injection
<1>6. \A k \in 1..size: \E i \in S: rank[i] = k
  <2> HIDE DEF rank
  <2> QED BY <1>5 DEF Surjection
<1>7. \A k \in 1..size: Nth(S, k) = CHOOSE i \in S: rank[i] = k
  <2> TAKE k \in 1..size
  <2>1. Nth(S, k) = CHOOSE i \in S: Cardinality(upTo(i)) = k BY DEF Nth
  <2>2. \A i \in S: rank[i] = Cardinality(upTo(i)) OBVIOUS
  <2> HIDE DEF rank, upTo
  <2> QED BY <2>1, <2>2
<1> HIDE DEF rank, upTo
<1>8. \A k \in 1..size: Nth(S, k) \in S /\ rank[Nth(S, k)] = k BY <1>6, <1>7
<1>9. \A i, j \in S: i \in Nat /\ j \in Nat /\ rank[i] \in Nat /\ rank[j] \in Nat
  BY <1>1, <1>4
<1>10. \A i, j \in S: rank[i] < rank[j] => i < j
  <2> TAKE i, j \in S
  <2> QED BY <1>4, <1>9
<1>11. \A k, l \in 1..size: k < l => Nth(S, k) < Nth(S, l)
  <2> TAKE k, l \in 1..size
  <2> HAVE k < l
  <2>1. PICK i \in S: i = Nth(S, k) /\ rank[i] = k BY <1>8
  <2>2. PICK j \in S: j = Nth(S, l) /\ rank[j] = l BY <1>8
  <2>3. i < j BY <1>10, <2>1, <2>2
  <2> QED BY <2>1, <2>2, <2>3
<1>12. \A i \in S: i = Nth(S, rank[i]) /\ rank[i] \in 1..size
  <2> TAKE i \in S
  <2>1. rank[i] \in 1..size BY <1>4
  <2>2. Nth(S, rank[i]) \in S /\ rank[Nth(S, rank[i])] = rank[i] BY <1>8, <2>1
  <2>3. PICK j \in S: j = Nth(S, rank[i]) /\ rank[j] = rank[i] BY <2>2
  <2>4. i \in Nat /\ j \in Nat /\ rank[i] \in Nat BY <1>9
  <2>5. (i < j => rank[i] < rank[j]) /\ (j < i => rank[j] < rank[i]) BY <1>4
  <2>6. i = j BY <2>3, <2>4, <2>5
  <2> QED BY <2>1, <2>3, <2>6
<1> QED BY <1>1, <1>8, <1>11, <1>12

\* g is what is left of h at the positions f gives.
Embeds(f, g, h) ==
    /\ f \in [DOMAIN g -> DOMAIN h]
    /\ \A k \in DOMAIN g: g[k] = h[f[k]]
    /\ \A k, l \in DOMAIN g: k < l => f[k] < f[l]

LEMMA ThoseOf ==
    ASSUME NEW T, NEW h \in Seq(T), NEW S \in SUBSET DOMAIN h
    PROVE  /\ Those(h, S) \in Seq(T)
           /\ Cardinality(S) \in Nat /\ Len(Those(h, S)) = Cardinality(S)
           /\ \E f: /\ Embeds(f, Those(h, S), h)
                    /\ \A k \in DOMAIN Those(h, S): f[k] \in S
                    /\ \A i \in S: \E k \in DOMAIN Those(h, S): f[k] = i
<1> DEFINE size == Cardinality(S)
           f == [k \in 1..size |-> Nth(S, k)]
<1>1. Len(h) \in Nat /\ DOMAIN h = 1..Len(h) OBVIOUS
<1>2. /\ size \in Nat
      /\ \A k \in 1..size: Nth(S, k) \in S
      /\ \A k, l \in 1..size: k < l => Nth(S, k) < Nth(S, l)
      /\ \A i \in S: \E k \in 1..size: i = Nth(S, k)
  BY <1>1, Ranked
<1>3. Those(h, S) = [k \in 1..size |-> h[Nth(S, k)]] BY DEF Those
<1>4. \A k \in 1..size: h[Nth(S, k)] \in T BY <1>1, <1>2
<1> HIDE DEF size
<1>5. Those(h, S) \in Seq(T) /\ Len(Those(h, S)) = size BY <1>2, <1>3, <1>4
<1>6. DOMAIN Those(h, S) = 1..size /\ \A k \in 1..size: Those(h, S)[k] = h[Nth(S, k)]
  BY <1>3
<1>7. f \in [1..size -> DOMAIN h] /\ \A k \in 1..size: f[k] = Nth(S, k) BY <1>2
<1> HIDE DEF f
<1>8. Embeds(f, Those(h, S), h) BY <1>2, <1>6, <1>7 DEF Embeds
<1>9. /\ \A k \in DOMAIN Those(h, S): f[k] \in S
      /\ \A i \in S: \E k \in DOMAIN Those(h, S): f[k] = i
  BY <1>2, <1>6, <1>7
<1> QED BY <1>2, <1>5, <1>8, <1>9 DEF size
-----------------------------------------------------------------------------
(* Histories *)

\* What is left of a history is one, if the call of a result that is left is too.
LEMMA HistoryPart ==
    ASSUME NEW h, NEW m \in Nat, NEW s \in Nat, History(h, m, s),
           NEW g \in Seq(Items), NEW f, Embeds(f, g, h),
           \A k \in DOMAIN g: g[k].kind = "result" =>
              \A i \in DOMAIN h: Makes(h, i, g[k].id) => \E l \in DOMAIN g: f[l] = i
    PROVE  History(g, m, s)
<1>1. /\ \A k \in DOMAIN g: f[k] \in DOMAIN h /\ g[k] = h[f[k]]
      /\ \A k, l \in DOMAIN g: k < l => f[k] < f[l]
  BY DEF Embeds
<1>2. \A k \in DOMAIN g: k \in Nat /\ f[k] \in Nat
  <2>1. DOMAIN g = 1..Len(g) /\ Len(g) \in Nat OBVIOUS
  <2>2. h \in Seq(Items) BY DEF History
  <2>3. DOMAIN h = 1..Len(h) /\ Len(h) \in Nat BY <2>2
  <2> QED BY <1>1, <2>1, <2>3
<1>3. \A k, l \in DOMAIN g: (f[k] = f[l] => k = l) /\ (f[k] < f[l] => k < l)
  <2> TAKE k, l \in DOMAIN g
  <2>1. k < l \/ l < k \/ k = l BY <1>2
  <2> QED BY <1>1, <1>2, <2>1
<1>4. Shaped(g) /\ Numbered(g, m, s) BY <1>1 DEF History, Shaped, Numbered
<1>5. Ordered(g) BY <1>1 DEF History, Ordered
<1>6. StepsApart(g)
  <2>1. \A k, l \in DOMAIN g:
           g[k].kind = "step" /\ g[l].kind = "step" /\ g[k].id = g[l].id => k = l
    BY <1>1, <1>3 DEF History, StepsApart
  <2> QED BY <1>1, <2>1 DEF History, StepsApart
<1>7. ResultsFollow(g)
  <2>0. \A i, j \in DOMAIN h:
           h[i].kind = "result" /\ h[j].kind = "result" /\ h[i].id = h[j].id => i = j
    BY DEF History, ResultsFollow
  <2>1. \A k, l \in DOMAIN g:
           g[k].kind = "result" /\ g[l].kind = "result" /\ g[k].id = g[l].id => k = l
    BY <1>1, <1>3, <2>0
  <2>2. ASSUME NEW k \in DOMAIN g, g[k].kind = "result"
        PROVE  \E l \in DOMAIN g: l < k /\ Makes(g, l, g[k].id)
    <3>1. PICK i \in DOMAIN h: i < f[k] /\ Makes(h, i, g[k].id)
      BY <1>1, <2>2 DEF History, ResultsFollow
    <3>2. PICK l \in DOMAIN g: f[l] = i BY <2>2, <3>1
    <3>3. l < k BY <1>3, <2>2, <3>1, <3>2
    <3>4. Makes(g, l, g[k].id) BY <1>1, <3>1, <3>2 DEF Makes
    <3> QED BY <3>3, <3>4
  <2> QED BY <2>1, <2>2 DEF ResultsFollow
<1> QED BY <1>4, <1>5, <1>6, <1>7 DEF History

LEMMA HistoryEmpty == ASSUME NEW m, NEW s PROVE History(<< >>, m, s)
<1>1. << >> \in Seq(Items) /\ DOMAIN << >> = {} OBVIOUS
<1> QED BY <1>1 DEF History, Shaped, Numbered, Ordered, StepsApart, ResultsFollow

LEMMA HistoryLater ==
    ASSUME NEW h, NEW m \in Nat, NEW s \in Nat, History(h, m, s),
           NEW n \in Nat, NEW t \in Nat, m <= n, s <= t
    PROVE  History(h, n, t)
<1>1. h \in Seq(Items) BY DEF History
<1>2. \A i \in DOMAIN h: h[i].id \in Nat
  <2>1. \A i \in DOMAIN h: h[i] \in Items BY <1>1
  <2> QED BY <2>1 DEF Items
<1>3. Numbered(h, n, t) BY <1>2 DEF History, Numbered
<1> QED BY <1>3 DEF History

\* One more message at the end.
LEMMA HistoryPush ==
    ASSUME NEW h, NEW m \in Nat, NEW s \in Nat, History(h, m, s), NEW x \in Items,
           x.kind # "step" => x.calls = << >> /\ x.text = TRUE,
           x.kind \in Incoming =>
              x.id <= m /\ \A i \in DOMAIN h: h[i].kind \in Incoming => h[i].id < x.id,
           x.kind = "step" =>
              x.id <= s /\ x.calls = << >>
              /\ \A i \in DOMAIN h: h[i].kind = "step" => h[i].id # x.id,
           x.kind = "result" => ~Answered(h, x.id) /\ \E i \in DOMAIN h: Makes(h, i, x.id)
    PROVE  History(h \o << x >>, m, s)
<1> DEFINE g == h \o << x >>
           n == Len(h) + 1
<1>1. h \in Seq(Items) BY DEF History
<1>2. /\ g \in Seq(Items) /\ DOMAIN g = DOMAIN h \cup {n} /\ g[n] = x
      /\ \A i \in DOMAIN h: g[i] = h[i] /\ i < n /\ i \in Nat
      /\ n \in Nat
  <2>1. Len(g) = n /\ DOMAIN h = 1..Len(h) /\ Len(h) \in Nat BY <1>1
  <2>2. g \in Seq(Items) BY <1>1
  <2>3. DOMAIN g = 1..n BY <2>1, <2>2
  <2> QED BY <1>1, <2>1, <2>2, <2>3
<1> HIDE DEF g, n
<1>3. Shaped(g) /\ Numbered(g, m, s) BY <1>2 DEF History, Shaped, Numbered, Incoming
<1>4. Ordered(g)
  <2>1. \A i \in DOMAIN g: ~(n < i) /\ (i # n => i \in DOMAIN h) BY <1>2
  <2>2. \A i, j \in DOMAIN h:
           i < j /\ h[i].kind \in Incoming /\ h[j].kind \in Incoming => h[i].id < h[j].id
    BY DEF History, Ordered
  <2> SUFFICES ASSUME NEW i \in DOMAIN g, NEW j \in DOMAIN g, i < j,
                      g[i].kind \in Incoming, g[j].kind \in Incoming
               PROVE  g[i].id < g[j].id
    BY DEF Ordered
  <2>3. i \in DOMAIN h BY <2>1, <1>2
  <2>4. CASE j = n BY <1>2, <2>3, <2>4
  <2>5. CASE j # n BY <1>2, <2>1, <2>2, <2>3, <2>5
  <2> QED BY <2>4, <2>5
<1>5. StepsApart(g)
  <2>1. Injective(<< >>) /\ DOMAIN << >> = {} BY DEF Injective
  <2>2. \A i, j \in DOMAIN g:
           g[i].kind = "step" /\ g[j].kind = "step" /\ g[i].id = g[j].id => i = j
    BY <1>2 DEF History, StepsApart
  <2>3. \A i \in DOMAIN g: g[i].kind = "step" =>
           /\ Injective(g[i].calls)
           /\ \A k \in DOMAIN g[i].calls:
                \E p \in 1..MaxCalls: g[i].calls[k] = Call(g[i].id, p)
    BY <1>2, <2>1 DEF History, StepsApart
  <2> QED BY <2>2, <2>3 DEF StepsApart
<1>6. ResultsFollow(g)
  <2>1. \A i, j \in DOMAIN g:
           g[i].kind = "result" /\ g[j].kind = "result" /\ g[i].id = g[j].id => i = j
    BY <1>2 DEF History, ResultsFollow, Answered
  <2>2. \A i \in DOMAIN h: \A c: Makes(h, i, c) => Makes(g, i, c) BY <1>2 DEF Makes
  <2>3. \A j \in DOMAIN g: g[j].kind = "result" =>
           \E i \in DOMAIN g: i < j /\ Makes(g, i, g[j].id)
    BY <1>2, <2>2 DEF History, ResultsFollow
  <2> QED BY <2>1, <2>3 DEF ResultsFollow
<1> QED BY <1>2, <1>3, <1>4, <1>5, <1>6 DEF History, g

\* What was deferred comes to the end.
LEMMA HistoryFlush ==
    ASSUME NEW h, NEW m \in Nat, NEW s \in Nat, History(h, m, s), NEW d \in Seq(Items),
           Ordered(d),
           \A n \in DOMAIN d:
              /\ d[n].kind \in Incoming /\ d[n].id <= m
              /\ d[n].calls = << >> /\ d[n].text = TRUE
              /\ \A i \in DOMAIN h: h[i].kind \in Incoming => h[i].id < d[n].id
    PROVE  History(h \o d, m, s)
<1> DEFINE g == h \o d
           new == {i \in DOMAIN g: i > Len(h)}
<1>1. h \in Seq(Items) BY DEF History
<1>2. /\ g \in Seq(Items) /\ Len(g) = Len(h) + Len(d)
      /\ \A i \in 1..Len(h) + Len(d): g[i] = IF i <= Len(h) THEN h[i] ELSE d[i - Len(h)]
  BY <1>1, ConcatProperties
<1>3. /\ Len(h) \in Nat /\ Len(d) \in Nat /\ DOMAIN h = 1..Len(h) /\ DOMAIN d = 1..Len(d)
      /\ DOMAIN g = 1..Len(h) + Len(d)
  BY <1>1, <1>2
<1> HIDE DEF g
<1>4. /\ DOMAIN h \subseteq DOMAIN g /\ DOMAIN g = DOMAIN h \cup new
      /\ \A i \in DOMAIN h: g[i] = h[i] /\ i \notin new
      /\ \A i \in new: /\ i - Len(h) \in DOMAIN d /\ g[i] = d[i - Len(h)]
                       /\ \A j \in DOMAIN h: j < i
      /\ \A i \in DOMAIN g: i \in Nat
  BY <1>2, <1>3
<1>5. \A i \in new: \A j \in new: i < j => i - Len(h) < j - Len(h) BY <1>3, <1>4
<1>6. \A i \in new: ~(g[i].kind \in {"step", "result"}) /\ g[i].kind \in Incoming
  BY <1>4 DEF Incoming
<1> HIDE DEF new
<1>7. Shaped(g) /\ Numbered(g, m, s) BY <1>4, <1>6 DEF History, Shaped, Numbered
<1>8. Ordered(g)
  <2> SUFFICES ASSUME NEW i \in DOMAIN g, NEW j \in DOMAIN g, i < j,
                      g[i].kind \in Incoming, g[j].kind \in Incoming
               PROVE  g[i].id < g[j].id
    BY DEF Ordered
  <2>1. CASE i \in DOMAIN h /\ j \in DOMAIN h BY <1>4, <2>1 DEF History, Ordered
  <2>2. CASE i \in DOMAIN h /\ j \in new BY <1>4, <2>2
  <2>3. CASE i \in new /\ j \in new
    <3>1. i - Len(h) < j - Len(h) BY <1>5, <2>3
    <3> QED BY <1>4, <2>3, <3>1 DEF Ordered
  <2>4. ~(i \in new /\ j \in DOMAIN h) BY <1>4
  <2> QED BY <1>4, <2>1, <2>2, <2>3, <2>4
<1>9. StepsApart(g) BY <1>4, <1>6, SMTT(30) DEF History, StepsApart
<1>10. ResultsFollow(g)
  <2>1. \A i, j \in DOMAIN g:
           g[i].kind = "result" /\ g[j].kind = "result" /\ g[i].id = g[j].id => i = j
    BY <1>4, <1>6 DEF History, ResultsFollow
  <2>2. \A i \in DOMAIN h: \A c: Makes(h, i, c) => Makes(g, i, c) BY <1>4 DEF Makes
  <2>3. \A j \in DOMAIN g: g[j].kind = "result" =>
           \E i \in DOMAIN g: i < j /\ Makes(g, i, g[j].id)
    BY <1>4, <1>6, <2>2 DEF History, ResultsFollow
  <2> QED BY <2>1, <2>3 DEF ResultsFollow
<1> QED BY <1>2, <1>7, <1>8, <1>9, <1>10 DEF History, g
\* A step may get more calls, or text.
LEMMA HistoryGrow ==
    ASSUME NEW h, NEW m \in Nat, NEW s \in Nat, History(h, m, s), NEW g \in Seq(Items),
           DOMAIN g = DOMAIN h,
           \A i \in DOMAIN h:
              /\ g[i].kind = h[i].kind /\ g[i].id = h[i].id
              /\ h[i].kind # "step" => g[i] = h[i]
              /\ h[i].kind = "step" =>
                    /\ Injective(g[i].calls)
                    /\ \A n \in DOMAIN g[i].calls:
                          \E p \in 1..MaxCalls: g[i].calls[n] = Call(h[i].id, p)
                    /\ \A n \in DOMAIN h[i].calls:
                          \E k \in DOMAIN g[i].calls: g[i].calls[k] = h[i].calls[n]
    PROVE  /\ History(g, m, s)
           /\ \A i \in DOMAIN h: \A c: Makes(h, i, c) => Makes(g, i, c)
           /\ \A c: Answered(g, c) <=> Answered(h, c)
<1>1. \A i \in DOMAIN h: \A c: Makes(h, i, c) => Makes(g, i, c) BY DEF Makes
<1>2. Shaped(g) /\ Numbered(g, m, s) /\ Ordered(g)
  BY DEF History, Shaped, Numbered, Ordered
<1>3. StepsApart(g) BY DEF History, StepsApart
<1>4. ResultsFollow(g)
  <2>1. \A i, j \in DOMAIN g:
           g[i].kind = "result" /\ g[j].kind = "result" /\ g[i].id = g[j].id => i = j
    BY DEF History, ResultsFollow
  <2>2. \A j \in DOMAIN g: g[j].kind = "result" =>
           \E i \in DOMAIN g: i < j /\ Makes(g, i, g[j].id)
    BY <1>1 DEF History, ResultsFollow
  <2> QED BY <2>1, <2>2 DEF ResultsFollow
<1>5. \A c: Answered(g, c) <=> Answered(h, c) BY DEF Answered
<1> QED BY <1>1, <1>2, <1>3, <1>4, <1>5 DEF History
-----------------------------------------------------------------------------
(* Contexts *)

LEMMA ContextIs ==
    ASSUME NEW c \in Contexts
    PROVE  /\ c.history \in Seq(Items) /\ c.open \in SUBSET Nat
           /\ c.pending \in Seq(Nat) /\ c.deferred \in Seq(Items)
           /\ c = [history |-> c.history, open |-> c.open,
                   pending |-> c.pending, deferred |-> c.deferred]
BY DEF Contexts

LEMMA ItemIs ==
    ASSUME NEW x \in Items
    PROVE  x.kind \in Kinds /\ x.id \in Nat /\ x.calls \in Seq(Nat) /\ x.text \in BOOLEAN
BY DEF Items

LEMMA ItemsMade ==
    /\ \A k \in Incoming: \A n \in Nat: Message(k, n) \in Items
    /\ \A n \in Nat: StepMessage(n) \in Items /\ ResultOf(n) \in Items
    /\ Summary \in Items
<1>1. << >> \in Seq(Nat) OBVIOUS
<1>2. \A k \in Kinds: \A n \in Nat: \A t \in BOOLEAN:
         [kind |-> k, id |-> n, calls |-> << >>, text |-> t] \in Items
  BY <1>1 DEF Items
<1>3. Incoming \subseteq Kinds /\ {"step", "result", "summary"} \subseteq Kinds /\ 0 \in Nat
  BY DEF Kinds
<1> QED BY <1>2, <1>3 DEF Message, StepMessage, ResultOf, Summary

LEMMA SoundEmpty == ASSUME NEW m, NEW s PROVE Sound(Empty, m, s) /\ Empty.pending = << >>
<1>1. Empty \in Contexts
  <2>1. << >> \in Seq(Items) /\ << >> \in Seq(Nat) /\ {} \in SUBSET Nat OBVIOUS
  <2> QED BY <2>1 DEF Contexts, Empty
<1>2. /\ Empty.history = << >> /\ Empty.deferred = << >> /\ Empty.pending = << >>
      /\ Empty.open = {} /\ DOMAIN << >> = {}
  BY DEF Empty
<1>3. Waits(Empty, m) /\ Unanswered(Empty)
  BY <1>2 DEF Waits, Unanswered, Ordered, Injective
<1> QED BY <1>1, <1>2, <1>3, HistoryEmpty DEF Sound

LEMMA SoundLater ==
    ASSUME NEW c, NEW m \in Nat, NEW s \in Nat, Sound(c, m, s),
           NEW n \in Nat, NEW t \in Nat, m <= n, s <= t
    PROVE  Sound(c, n, t)
<1>1. c \in Contexts /\ History(c.history, m, s) /\ Waits(c, m) /\ Unanswered(c)
      /\ c.open \subseteq 1..s
  BY DEF Sound
<1>2. History(c.history, n, t) BY <1>1, HistoryLater
<1>3. Waits(c, n)
  <2>1. \A k \in DOMAIN c.deferred: c.deferred[k].id \in Nat BY <1>1, ContextIs, ItemIs
  <2>2. \A k \in DOMAIN c.deferred: c.deferred[k].id <= n BY <1>1, <2>1 DEF Waits
  <2> QED BY <1>1, <2>2 DEF Waits
<1>4. c.open \subseteq 1..t
  <2>1. 1..s \subseteq 1..t OBVIOUS
  <2> QED BY <1>1, <2>1
<1> QED BY <1>1, <1>2, <1>3, <1>4 DEF Sound

\* What a context without an open exchange is.
LEMMA SoundClosed ==
    ASSUME NEW c, NEW m, NEW s, Sound(c, m, s), c.pending = << >>
    PROVE  /\ c.deferred = << >> /\ Flush(c) = c
           /\ \A x \in Nat: EndStep(c, x) = [c EXCEPT !.open = @ \ {x}]
<1>1. c \in Contexts /\ c.deferred = << >> BY DEF Sound, Waits
<1>2. c.history \o << >> = c.history BY <1>1, ContextIs, ConcatEmptySeq
<1>3. PICK h, o: h = c.history /\ o = c.open OBVIOUS
<1>4. c = [history |-> h, open |-> o, pending |-> << >>, deferred |-> << >>]
  BY <1>1, <1>3, ContextIs
<1>5. h \o << >> = h BY <1>2, <1>3
<1>6. \A p: Flush([history |-> h, open |-> p, pending |-> << >>, deferred |-> << >>])
            = [history |-> h, open |-> p, pending |-> << >>, deferred |-> << >>]
  BY <1>5 DEF Flush, Push
<1>7. Flush(c) = c BY <1>4, <1>6
<1>8. \A x \in Nat: [c EXCEPT !.open = @ \ {x}]
            = [history |-> h, open |-> o \ {x}, pending |-> << >>, deferred |-> << >>]
  <2> TAKE x \in Nat
  <2>1. PICK p: p = o \ {x} OBVIOUS
  <2>2. [c EXCEPT !.open = @ \ {x}] = [c EXCEPT !.open = p] BY <1>3, <2>1
  <2>3. [c EXCEPT !.open = p]
           = [history |-> h, open |-> p, pending |-> << >>, deferred |-> << >>]
    BY <1>4
  <2> QED BY <2>1, <2>2, <2>3
<1>9. \A x \in Nat: EndStep(c, x) = [c EXCEPT !.open = @ \ {x}]
  BY <1>6, <1>8 DEF EndStep
<1> QED BY <1>1, <1>7, <1>9

\* Only which steps are open is different.
LEMMA SoundOpen ==
    ASSUME NEW c, NEW m, NEW s \in Nat, Sound(c, m, s), NEW o \in SUBSET (1..s)
    PROVE  Sound([c EXCEPT !.open = o], m, s)
<1>1. PICK d: d = [c EXCEPT !.open = o] OBVIOUS
<1>2. c \in Contexts BY DEF Sound
<1>3. d = [history |-> c.history, open |-> o, pending |-> c.pending, deferred |-> c.deferred]
  BY <1>1, <1>2, ContextIs
<1>4. o \in SUBSET Nat OBVIOUS
<1>5. d \in Contexts BY <1>2, <1>3, <1>4, ContextIs DEF Contexts
<1>6. d.history = c.history /\ d.pending = c.pending /\ d.deferred = c.deferred /\ d.open = o
  BY <1>3
<1>7. Waits(d, m) /\ Unanswered(d) BY <1>6 DEF Sound, Waits, Unanswered
<1> QED BY <1>1, <1>5, <1>6, <1>7 DEF Sound
\* A message of the user or of the harness comes in.
LEMMA SoundIncoming ==
    ASSUME NEW c, NEW m \in Nat, NEW s \in Nat, Sound(c, m, s), NEW k \in Incoming
    PROVE  LET d == AppendMessage(c, Message(k, m + 1))
           IN  /\ Sound(d, m + 1, s)
               /\ d.pending = c.pending /\ d.open = c.open
               /\ c.pending = << >> => d.history = c.history \o << Message(k, m + 1) >>
               /\ c.pending # << >> => d.history = c.history
<1> DEFINE n == m + 1
           x == Message(k, n)
<1>1. PICK d: d = AppendMessage(c, x) OBVIOUS
<1>2. /\ x \in Items /\ x.kind = k /\ x.id = n /\ x.calls = << >> /\ x.text = TRUE
      /\ n \in Nat /\ ~(n <= m) /\ n <= n /\ m <= n
  BY ItemsMade DEF Message
<1>3. k \notin {"step", "result"} BY DEF Incoming
<1> HIDE DEF x, n
<1>4. Sound(c, n, s) BY <1>2, SoundLater
<1>5. /\ c \in Contexts /\ History(c.history, n, s) /\ Waits(c, n) /\ Unanswered(c)
      /\ c.open \subseteq 1..s
  BY <1>4 DEF Sound
<1>6. /\ c.history \in Seq(Items) /\ c.deferred \in Seq(Items) /\ c.pending \in Seq(Nat)
      /\ c.open \in SUBSET Nat
  BY <1>5, ContextIs
<1>7. \A i \in DOMAIN c.history: c.history[i].kind \in Incoming => c.history[i].id < n
  <2>1. Numbered(c.history, m, s) BY DEF Sound, History
  <2>2. \A i \in DOMAIN c.history: c.history[i].id \in Nat BY <1>6, ItemIs
  <2> QED BY <2>1, <2>2 DEF Numbered, n
<1>8. CASE c.pending = << >>
  <2>1. PICK h: h = c.history \o << x >> OBVIOUS
  <2>2. d = [c EXCEPT !.history = h] BY <1>1, <1>8, <2>1 DEF AppendMessage, Push
  <2>3. d = [history |-> h, open |-> c.open, pending |-> c.pending, deferred |-> c.deferred]
    BY <1>5, <2>2, ContextIs
  <2>4. /\ d.history = h /\ d.open = c.open /\ d.pending = c.pending
        /\ d.deferred = c.deferred /\ c.deferred = << >>
    BY <1>5, <1>8, <2>3 DEF Waits
  <2>5. History(h, n, s)
    <3>1. \A i \in DOMAIN c.history: c.history[i].kind \in Incoming => c.history[i].id < x.id
      BY <1>2, <1>7
    <3> QED BY <1>2, <1>3, <1>5, <2>1, <3>1, HistoryPush
  <2>6. h \in Seq(Items) BY <2>5 DEF History
  <2>7. d \in Contexts BY <1>6, <2>3, <2>6 DEF Contexts
  <2>8. Waits(d, n) /\ Unanswered(d)
    <3>1. DOMAIN << >> = {} OBVIOUS
    <3> QED BY <1>8, <2>4, <3>1 DEF Waits, Unanswered, Ordered, Injective
  <2> QED BY <1>1, <1>5, <1>8, <2>1, <2>4, <2>5, <2>7, <2>8 DEF Sound, x, n
<1>9. CASE c.pending # << >>
  <2>1. PICK e: e = Append(c.deferred, x) OBVIOUS
  <2>2. d = [c EXCEPT !.deferred = e] BY <1>1, <1>9, <2>1 DEF AppendMessage
  <2>3. d = [history |-> c.history, open |-> c.open, pending |-> c.pending, deferred |-> e]
    BY <1>5, <2>2, ContextIs
  <2>4. /\ d.history = c.history /\ d.open = c.open /\ d.pending = c.pending
        /\ d.deferred = e
    BY <2>3
  <2>5. /\ e \in Seq(Items) /\ DOMAIN e = DOMAIN c.deferred \cup {Len(c.deferred) + 1}
        /\ e[Len(c.deferred) + 1] = x
        /\ \A i \in DOMAIN c.deferred: /\ e[i] = c.deferred[i]
                                       /\ i < Len(c.deferred) + 1
    <3>1. /\ e \in Seq(Items) /\ Len(e) = Len(c.deferred) + 1
          /\ DOMAIN c.deferred = 1..Len(c.deferred) /\ Len(c.deferred) \in Nat
      BY <1>2, <1>6, <2>1
    <3>2. DOMAIN e = 1..Len(e) BY <3>1
    <3> QED BY <1>2, <1>6, <2>1, <3>1, <3>2
  <2>6. d \in Contexts BY <1>6, <2>3, <2>5 DEF Contexts
  <2>7. \A i \in DOMAIN c.deferred: c.deferred[i].id < n /\ c.deferred[i].kind \in Incoming
    <3>1. \A i \in DOMAIN c.deferred: c.deferred[i].id \in Nat BY <1>6, ItemIs
    <3>2. Waits(c, m) BY DEF Sound
    <3> QED BY <3>1, <3>2 DEF Waits, n
  <2>8. Ordered(e)
    <3> SUFFICES ASSUME NEW i \in DOMAIN e, NEW j \in DOMAIN e, i < j,
                        e[i].kind \in Incoming, e[j].kind \in Incoming
                 PROVE  e[i].id < e[j].id
      BY DEF Ordered
    <3>1. Len(c.deferred) + 1 \in Nat /\ \A l \in DOMAIN e: l \in Nat BY <1>6, <2>5
    <3>2. i \in DOMAIN c.deferred BY <2>5, <3>1
    <3>3. CASE j = Len(c.deferred) + 1 BY <1>2, <2>5, <2>7, <3>2, <3>3
    <3>4. CASE j \in DOMAIN c.deferred BY <1>5, <2>5, <3>2, <3>4 DEF Waits, Ordered
    <3> QED BY <2>5, <3>3, <3>4
  <2>9. Waits(d, n)
    <3>1. \A l \in DOMAIN e:
             /\ e[l].kind \in Incoming /\ e[l].id <= n
             /\ e[l].calls = << >> /\ e[l].text = TRUE
             /\ \A i \in DOMAIN c.history:
                   c.history[i].kind \in Incoming => c.history[i].id < e[l].id
      BY <1>2, <1>5, <1>7, <2>5 DEF Waits
    <3> QED BY <1>9, <2>4, <2>8, <3>1 DEF Waits
  <2>10. Unanswered(d) BY <1>5, <2>4 DEF Unanswered
  <2> QED BY <1>1, <1>5, <1>9, <2>4, <2>6, <2>9, <2>10 DEF Sound, x, n
<1> QED BY <1>8, <1>9
\* A step begins, when no result is awaited.
LEMMA SoundBegin ==
    ASSUME NEW c, NEW m \in Nat, NEW s \in Nat, Sound(c, m, s), c.pending = << >>
    PROVE  LET d == BeginStep(c, s + 1)
           IN  /\ Sound(d, m, s + 1) /\ d.pending = << >>
               /\ d.history = c.history \o << StepMessage(s + 1) >>
               /\ d.open = c.open \cup {s + 1}
<1>1. PICK t \in Nat: t = s + 1 /\ s <= t /\ ~(t <= s) /\ t \in 1..t OBVIOUS
<1>2. ClosePending(c) = c
  <2> DEFINE closed == CHOOSE f: f = [n \in 0..Len(c.pending) |->
                 IF n = 0 THEN c ELSE AppendResult(f[n - 1], c.pending[n])]
  <2>1. ClosePending(c) = closed[Len(c.pending)] BY DEF ClosePending
  <2>2. Len(c.pending) = 0 OBVIOUS
  <2>3. \E f: f = [n \in 0..Len(c.pending) |->
                 IF n = 0 THEN c ELSE AppendResult(f[n - 1], c.pending[n])]
    <3>1. PICK f: f = [n \in {0} |-> c] OBVIOUS
    <3>2. 0..Len(c.pending) = {0} BY <2>2
    <3>3. f = [n \in {0} |-> IF n = 0 THEN c ELSE AppendResult(f[n - 1], c.pending[n])]
      BY <3>1
    <3> QED BY <3>2, <3>3
  <2>4. closed = [n \in 0..Len(c.pending) |->
                 IF n = 0 THEN c ELSE AppendResult(closed[n - 1], c.pending[n])]
    BY <2>3
  <2> HIDE DEF closed
  <2>5. closed[0] = c BY <2>2, <2>4
  <2> QED BY <2>1, <2>2, <2>5
<1>3. Sound(c, m, t) BY <1>1, SoundLater
<1>4. /\ c \in Contexts /\ History(c.history, m, t) /\ Waits(c, m) /\ Unanswered(c)
      /\ c.open \subseteq 1..s
  BY <1>3 DEF Sound
<1>5. /\ c.history \in Seq(Items) /\ c.deferred \in Seq(Items) /\ c.pending \in Seq(Nat)
      /\ c.deferred = << >>
  BY <1>4, ContextIs DEF Waits
<1>6. PICK x: x = StepMessage(t) OBVIOUS
<1>7. /\ x \in Items /\ x.kind = "step" /\ x.id = t /\ x.calls = << >>
      /\ x.kind \notin Incoming
  BY <1>6, ItemsMade DEF StepMessage, Incoming
<1>8. PICK h: h = c.history \o << x >> OBVIOUS
<1>9. History(h, m, t)
  <2>1. \A i \in DOMAIN c.history: c.history[i].kind = "step" => c.history[i].id # t
    <3>1. Numbered(c.history, m, s) BY DEF Sound, History
    <3> QED BY <1>1, <3>1 DEF Numbered
  <2>2. x.kind # "result" /\ x.id <= t BY <1>1, <1>7
  <2>3. History(c.history, m, t) BY <1>4
  <2> HIDE DEF History
  <2>4. History(c.history \o << x >>, m, t)
    BY <1>1, <1>7, <2>1, <2>2, <2>3, HistoryPush
  <2> QED BY <1>8, <2>4
<1>10. PICK d: d = BeginStep(c, t) OBVIOUS
<1>11. d = [[c EXCEPT !.history = h] EXCEPT !.open = @ \cup {t}]
  BY <1>2, <1>6, <1>8, <1>10 DEF BeginStep, Push
<1>12. PICK o: o = c.open \cup {t} OBVIOUS
<1>13. d = [history |-> h, open |-> o, pending |-> c.pending, deferred |-> c.deferred]
  <2>1. [c EXCEPT !.history = h]
           = [history |-> h, open |-> c.open, pending |-> c.pending, deferred |-> c.deferred]
    BY <1>4, ContextIs
  <2> QED BY <1>11, <1>12, <2>1
<1>14. d.history = h /\ d.open = o /\ d.pending = << >> /\ d.deferred = << >>
  BY <1>5, <1>13
<1>15. o \subseteq 1..t BY <1>1, <1>4, <1>12
<1>16. d \in Contexts
  <2>1. o \in SUBSET Nat /\ h \in Seq(Items) BY <1>9, <1>15 DEF History
  <2> QED BY <1>5, <1>13, <2>1 DEF Contexts
<1>17. Waits(d, m) /\ Unanswered(d)
  <2>1. DOMAIN << >> = {} OBVIOUS
  <2> QED BY <1>14, <2>1 DEF Waits, Unanswered, Ordered, Injective
<1>18. Sound(d, m, t) BY <1>9, <1>14, <1>15, <1>16, <1>17 DEF Sound
<1> QED BY <1>1, <1>6, <1>8, <1>10, <1>12, <1>14, <1>18

\* A step gets text.
LEMMA SoundPart ==
    ASSUME NEW c, NEW m \in Nat, NEW s \in Nat, Sound(c, m, s), NEW t
    PROVE  LET d == AppendPart(c, t)
           IN  /\ Sound(d, m, s) /\ d.pending = c.pending /\ d.open = c.open
               /\ DOMAIN d.history = DOMAIN c.history
               /\ \A i \in DOMAIN c.history:
                     /\ d.history[i].kind = c.history[i].kind
                     /\ d.history[i].id = c.history[i].id
                     /\ d.history[i].calls = c.history[i].calls
<1>1. /\ c \in Contexts /\ History(c.history, m, s) /\ Waits(c, m) /\ Unanswered(c)
      /\ c.open \subseteq 1..s
  BY DEF Sound
<1>2. /\ c.history \in Seq(Items) /\ c.deferred \in Seq(Items) /\ c.pending \in Seq(Nat)
      /\ c.open \in SUBSET Nat
  BY <1>1, ContextIs
<1>3. PICK h: h = c.history OBVIOUS
<1>4. PICK g: g = [n \in DOMAIN h |-> IF n \in StepAt(c, t) THEN [h[n] EXCEPT !.text = TRUE]
                                                           ELSE h[n]]
  OBVIOUS
<1>5. \A n \in DOMAIN h: h[n] \in Items BY <1>2, <1>3
<1>6. \A x \in Items: /\ [x EXCEPT !.text = TRUE] \in Items
                      /\ [x EXCEPT !.text = TRUE].kind = x.kind
                      /\ [x EXCEPT !.text = TRUE].id = x.id
                      /\ [x EXCEPT !.text = TRUE].calls = x.calls
  BY DEF Items
<1>7. \A n \in DOMAIN h: /\ g[n] \in Items /\ g[n].kind = h[n].kind /\ g[n].id = h[n].id
                         /\ g[n].calls = h[n].calls
                         /\ h[n].kind # "step" => g[n] = h[n]
  BY <1>3, <1>4, <1>5, <1>6 DEF StepAt
<1>8. DOMAIN g = DOMAIN h /\ g \in Seq(Items)
  <2>1. DOMAIN h = 1..Len(h) /\ Len(h) \in Nat BY <1>2, <1>3
  <2> QED BY <1>4, <1>7, <2>1
<1>9. PICK d: d = AppendPart(c, t) OBVIOUS
<1>10. d = [c EXCEPT !.history = g] BY <1>3, <1>4, <1>9 DEF AppendPart
<1>11. d = [history |-> g, open |-> c.open, pending |-> c.pending, deferred |-> c.deferred]
  BY <1>1, <1>10, ContextIs
<1>12. /\ d.history = g /\ d.open = c.open /\ d.pending = c.pending
       /\ d.deferred = c.deferred
  BY <1>11
<1>13. /\ History(g, m, s)
       /\ \A i \in DOMAIN h: \A x: Makes(h, i, x) => Makes(g, i, x)
       /\ \A x: Answered(g, x) <=> Answered(h, x)
  <2>1. \A i \in DOMAIN h: h[i].kind = "step" =>
                    /\ Injective(g[i].calls)
                    /\ \A n \in DOMAIN g[i].calls:
                          \E p \in 1..MaxCalls: g[i].calls[n] = Call(h[i].id, p)
    BY <1>1, <1>3, <1>7 DEF History, StepsApart
  <2>2. \A i \in DOMAIN h: \A n \in DOMAIN h[i].calls:
           \E k \in DOMAIN g[i].calls: g[i].calls[k] = h[i].calls[n]
    BY <1>7
  <2>3. History(h, m, s) BY <1>1, <1>3
  <2>4. \A i \in DOMAIN h:
           /\ g[i].kind = h[i].kind /\ g[i].id = h[i].id
           /\ h[i].kind # "step" => g[i] = h[i]
    BY <1>7
  <2> QED BY <1>8, <2>1, <2>2, <2>3, <2>4, HistoryGrow, ZenonT(60)
<1>14. d \in Contexts BY <1>2, <1>8, <1>11 DEF Contexts
<1>15. Waits(d, m) BY <1>1, <1>3, <1>7, <1>8, <1>12 DEF Waits
<1>16. Unanswered(d) BY <1>1, <1>3, <1>8, <1>12, <1>13 DEF Unanswered
<1> QED BY <1>1, <1>3, <1>7, <1>8, <1>9, <1>12, <1>13, <1>14, <1>15, <1>16 DEF Sound
\* A step gets a call none of them has.
Gets(c, d, t, call) ==
    /\ d.pending = Append(c.pending, call) /\ d.open = c.open
    /\ DOMAIN d.history = DOMAIN c.history
    /\ \A x: Answered(d.history, x) <=> Answered(c.history, x)
    /\ \A i \in DOMAIN c.history:
          /\ d.history[i].kind = c.history[i].kind
          /\ d.history[i].id = c.history[i].id
          /\ d.history[i].calls =
                IF c.history[i].kind = "step" /\ c.history[i].id = t
                THEN Append(c.history[i].calls, call) ELSE c.history[i].calls

LEMMA SoundCall ==
    ASSUME MaxCalls \in Nat,
           NEW c, NEW m \in Nat, NEW s \in Nat, Sound(c, m, s), NEW t \in Nat,
           NEW p \in 1..MaxCalls,
           NEW call, call = Call(t, p),
           NEW w, Opened(c, t, w), 1 \in DOMAIN w, w[1] = call,
           NEW d, d = AppendCall(c, t, call)
    PROVE  Sound(d, m, s) /\ Gets(c, d, t, call)
<1>1. /\ c \in Contexts /\ History(c.history, m, s) /\ Waits(c, m) /\ Unanswered(c)
      /\ c.open \subseteq 1..s
  BY DEF Sound
<1>2. /\ c.history \in Seq(Items) /\ c.deferred \in Seq(Items) /\ c.pending \in Seq(Nat)
      /\ c.open \in SUBSET Nat
  BY <1>1, ContextIs
<1>3. PICK h: h = c.history OBVIOUS
<1>4. call = Call(t, p) /\ call \in Nat BY CallsApart
<1> DEFINE At(n) == h[n].kind = "step" /\ h[n].id = t
<1>5. PICK g: g = [n \in DOMAIN h |-> IF At(n) THEN [h[n] EXCEPT !.calls = Append(@, call)]
                                              ELSE h[n]]
  OBVIOUS
<1>6. \A n \in DOMAIN h: h[n] \in Items BY <1>2, <1>3
<1>7. \A x \in Items: /\ [x EXCEPT !.calls = Append(@, call)] \in Items
                      /\ [x EXCEPT !.calls = Append(@, call)].kind = x.kind
                      /\ [x EXCEPT !.calls = Append(@, call)].id = x.id
                      /\ [x EXCEPT !.calls = Append(@, call)].calls = Append(x.calls, call)
  <2> TAKE x \in Items
  <2>1. PICK a: a = Append(x.calls, call) OBVIOUS
  <2>2. x.calls \in Seq(Nat) BY ItemIs
  <2>3. a \in Seq(Nat) BY <1>4, <2>1, <2>2
  <2>4. [x EXCEPT !.calls = Append(@, call)] = [x EXCEPT !.calls = a] BY <2>1
  <2>5. /\ [x EXCEPT !.calls = a] \in Items
        /\ [x EXCEPT !.calls = a].kind = x.kind /\ [x EXCEPT !.calls = a].id = x.id
        /\ [x EXCEPT !.calls = a].calls = a
    BY <2>3 DEF Items
  <2> QED BY <2>1, <2>4, <2>5
<1>8. \A n \in DOMAIN h: /\ g[n] \in Items /\ g[n].kind = h[n].kind /\ g[n].id = h[n].id
                         /\ g[n].calls = IF At(n) THEN Append(h[n].calls, call) ELSE h[n].calls
                         /\ ~At(n) => g[n] = h[n]
  <2> TAKE n \in DOMAIN h
  <2>1. PICK x \in Items: x = h[n] BY <1>6
  <2>2. CASE At(n)
    <3>1. g[n] = [x EXCEPT !.calls = Append(@, call)] BY <1>5, <2>1, <2>2
    <3> QED BY <1>7, <2>1, <2>2, <3>1
  <2>3. CASE ~At(n) BY <1>5, <2>1, <2>3
  <2> QED BY <2>2, <2>3
<1>9. DOMAIN g = DOMAIN h /\ g \in Seq(Items)
  <2>1. DOMAIN h = 1..Len(h) /\ Len(h) \in Nat BY <1>2, <1>3
  <2>2. DOMAIN g = DOMAIN h /\ g = [n \in DOMAIN h |-> g[n]] BY <1>5
  <2>3. g \in [1..Len(h) -> Items] BY <1>8, <2>1, <2>2
  <2> QED BY <2>1, <2>2, <2>3
<1>10. \A i \in DOMAIN h: ~Makes(h, i, call)
  <2> SUFFICES ASSUME NEW i \in DOMAIN h, Makes(h, i, call) PROVE FALSE OBVIOUS
  <2>1. PICK q \in 1..MaxCalls: call = Call(h[i].id, q)
    BY <1>1, <1>3 DEF Makes, History, StepsApart
  <2>2. PICK j \in Nat: j = h[i].id BY <1>6, ItemIs
  <2>3. Call(j, q) = Call(t, p) BY <1>4, <2>1, <2>2
  <2>4. j = t BY <2>3, CallsApart
  <2> QED BY <1>3, <1>4, <2>2, <2>4 DEF Makes, Opened
<1>11. ~Answered(h, call)
  BY <1>1, <1>3, <1>10 DEF Answered, History, ResultsFollow
<1>12. \A k \in DOMAIN c.pending: c.pending[k] # call
  BY <1>1, <1>3, <1>10 DEF Unanswered
<1>13. \A n \in DOMAIN h: h[n].kind = "step" =>
          /\ Injective(g[n].calls)
          /\ \A k \in DOMAIN g[n].calls: \E q \in 1..MaxCalls: g[n].calls[k] = Call(h[n].id, q)
          /\ \A k \in DOMAIN h[n].calls: \E l \in DOMAIN g[n].calls: g[n].calls[l] = h[n].calls[k]
  <2> SUFFICES ASSUME NEW n \in DOMAIN h, h[n].kind = "step"
               PROVE  /\ Injective(g[n].calls)
                      /\ \A k \in DOMAIN g[n].calls:
                            \E q \in 1..MaxCalls: g[n].calls[k] = Call(h[n].id, q)
                      /\ \A k \in DOMAIN h[n].calls:
                            \E l \in DOMAIN g[n].calls: g[n].calls[l] = h[n].calls[k]
    OBVIOUS
  <2>1. /\ Injective(h[n].calls)
        /\ \A k \in DOMAIN h[n].calls: \E q \in 1..MaxCalls: h[n].calls[k] = Call(h[n].id, q)
    BY <1>1, <1>3 DEF History, StepsApart
  <2>2. CASE ~At(n) BY <1>8, <2>1, <2>2
  <2>3. CASE At(n)
    <3>1. PICK q: q = h[n].calls OBVIOUS
    <3>2. PICK a: a = Append(q, call) OBVIOUS
    <3>3. q \in Seq(Nat) BY <1>6, <3>1, ItemIs
    <3>4. /\ DOMAIN a = DOMAIN q \cup {Len(q) + 1} /\ a[Len(q) + 1] = call
          /\ \A k \in DOMAIN q: a[k] = q[k] /\ k # Len(q) + 1
      <4>1. Len(a) = Len(q) + 1 /\ DOMAIN q = 1..Len(q) /\ Len(q) \in Nat /\ DOMAIN a = 1..Len(a)
        BY <1>4, <3>2, <3>3
      <4> QED BY <3>2, <3>3, <4>1
    <3>5. \A k \in DOMAIN q: q[k] # call
      <4>1. ~Makes(h, n, call) BY <1>10
      <4> QED BY <2>3, <3>1, <4>1 DEF Makes
    <3>6. Injective(a) BY <2>1, <3>1, <3>4, <3>5 DEF Injective
    <3>7. \A k \in DOMAIN a: \E r \in 1..MaxCalls: a[k] = Call(h[n].id, r)
      BY <1>4, <2>1, <2>3, <3>1, <3>4
    <3>8. g[n].calls = a BY <1>8, <2>3, <3>1, <3>2
    <3> QED BY <3>1, <3>4, <3>6, <3>7, <3>8
  <2> QED BY <2>2, <2>3
<1>14. /\ History(g, m, s)
       /\ \A i \in DOMAIN h: \A x: Makes(h, i, x) => Makes(g, i, x)
       /\ \A x: Answered(g, x) <=> Answered(h, x)
  <2>1. History(h, m, s) BY <1>1, <1>3
  <2>2. \A n \in DOMAIN h:
           /\ g[n].kind = h[n].kind /\ g[n].id = h[n].id
           /\ h[n].kind # "step" => g[n] = h[n]
    BY <1>8
  <2> HIDE DEF At
  <2> QED BY <1>9, <1>13, <2>1, <2>2, HistoryGrow, ZenonT(60)
<1>15. d = AppendCall(c, t, call) OBVIOUS
<1>16. PICK a: a = Append(c.pending, call) OBVIOUS
<1>17. d = [history |-> g, open |-> c.open, pending |-> a, deferred |-> c.deferred]
  <2>1. \A n \in DOMAIN h: At(n) <=> n \in StepAt(c, t) BY <1>3 DEF StepAt
  <2>2. g = [n \in DOMAIN h |-> IF n \in StepAt(c, t)
                                THEN [h[n] EXCEPT !.calls = Append(@, call)] ELSE h[n]]
    BY <1>5, <2>1
  <2>3. d = [c EXCEPT !.pending = a, !.history = g] BY <1>3, <1>15, <1>16, <2>2 DEF AppendCall
  <2>4. PICK e: e = [c EXCEPT !.pending = a] OBVIOUS
  <2>5. e = [history |-> c.history, open |-> c.open, pending |-> a, deferred |-> c.deferred]
    BY <1>1, <2>4, ContextIs
  <2>6. d = [e EXCEPT !.history = g] BY <2>3, <2>4
  <2> QED BY <2>5, <2>6
<1>18. /\ d.history = g /\ d.open = c.open /\ d.pending = a
       /\ d.deferred = c.deferred
  BY <1>17
<1>19. /\ a \in Seq(Nat) /\ DOMAIN a = DOMAIN c.pending \cup {Len(c.pending) + 1}
       /\ a[Len(c.pending) + 1] = call
       /\ \A k \in DOMAIN c.pending: a[k] = c.pending[k]
  <2>1. /\ Len(a) = Len(c.pending) + 1 /\ a \in Seq(Nat)
        /\ DOMAIN c.pending = 1..Len(c.pending) /\ Len(c.pending) \in Nat
    BY <1>2, <1>4, <1>16
  <2>2. DOMAIN a = 1..Len(a) BY <2>1
  <2> QED BY <1>2, <1>4, <1>16, <2>1, <2>2
<1>20. d \in Contexts BY <1>2, <1>9, <1>17, <1>19 DEF Contexts
<1>21. Waits(d, m)
  <2>1. c.pending = << >> => c.deferred = << >> BY <1>1 DEF Waits
  <2>2. d.pending # << >> BY <1>2, <1>16, <1>18
  <2> QED BY <1>1, <1>3, <1>8, <1>9, <1>18, <2>2 DEF Waits
<1>22. Unanswered(d)
  <2>1. Injective(a) BY <1>1, <1>12, <1>19 DEF Unanswered, Injective
  <2>2. PICK i \in DOMAIN h: At(i) BY <1>3 DEF Opened
  <2>3. Makes(g, i, call)
    <3>1. PICK q: q = h[i].calls OBVIOUS
    <3>2. q \in Seq(Nat) BY <1>6, <3>1, ItemIs
    <3>3. g[i].calls = Append(q, call) /\ g[i].kind = "step" BY <1>8, <2>2, <3>1
    <3>4. Len(q) + 1 \in DOMAIN Append(q, call) /\ Append(q, call)[Len(q) + 1] = call
      BY <1>4, <3>2
    <3> QED BY <3>3, <3>4 DEF Makes
  <2>4. \A k \in DOMAIN c.pending:
           /\ \E n \in DOMAIN h: Makes(h, n, c.pending[k])
           /\ ~Answered(h, c.pending[k])
    BY <1>1, <1>3 DEF Unanswered
  <2> HIDE DEF At
  <2>5. \A k \in DOMAIN a: (\E n \in DOMAIN g: Makes(g, n, a[k])) /\ ~Answered(g, a[k])
    BY <1>9, <1>11, <1>14, <1>19, <2>2, <2>3, <2>4
  <2> QED BY <1>18, <2>1, <2>5 DEF Unanswered
<1>23. Sound(d, m, s) BY <1>1, <1>14, <1>18, <1>20, <1>21, <1>22 DEF Sound
<1> QED BY <1>3, <1>4, <1>8, <1>9, <1>14, <1>15, <1>16, <1>18, <1>23 DEF Gets

\* The first of the results that are awaited arrives.
LEMMA SoundResult ==
    ASSUME NEW c, NEW m \in Nat, NEW s \in Nat, Sound(c, m, s), c.pending # << >>
    PROVE  LET d == AppendResult(c, Head(c.pending))
           IN  /\ Sound(d, m, s) /\ d.pending = Tail(c.pending) /\ d.open = c.open
               /\ \A i \in DOMAIN c.history:
                     i \in DOMAIN d.history /\ d.history[i] = c.history[i]
               /\ \A x: Answered(d.history, x)
                           <=> Answered(c.history, x) \/ x = Head(c.pending)
               /\ \A i \in DOMAIN d.history:
                     i \in DOMAIN c.history \/ d.history[i].calls = << >>
<1>1. /\ c \in Contexts /\ History(c.history, m, s) /\ Waits(c, m) /\ Unanswered(c)
      /\ c.open \subseteq 1..s
  BY DEF Sound
<1>2. /\ c.history \in Seq(Items) /\ c.deferred \in Seq(Items) /\ c.pending \in Seq(Nat)
      /\ c.open \in SUBSET Nat
  BY <1>1, ContextIs
<1>3. PICK h, o, q, w: h = c.history /\ o = c.open /\ q = c.pending /\ w = c.deferred OBVIOUS
<1>4. PICK call, r: call = Head(q) /\ r = Tail(q) OBVIOUS
<1>5. /\ call \in Nat /\ r \in Seq(Nat) /\ Len(q) \in Nat /\ Len(q) # 0
      /\ DOMAIN q = 1..Len(q) /\ DOMAIN r = 1..Len(q) - 1
      /\ 1 \in DOMAIN q /\ q[1] = call
      /\ \A k \in DOMAIN r: k + 1 \in DOMAIN q /\ r[k] = q[k + 1] /\ k \in Nat
  <2>1. q \in Seq(Nat) /\ q # << >> BY <1>2, <1>3
  <2>2. /\ call \in Nat /\ r \in Seq(Nat) /\ Len(r) = Len(q) - 1
        /\ \A i \in 1..Len(r): r[i] = q[i + 1]
    BY <1>4, <2>1, HeadTailProperties
  <2>3. Len(q) \in Nat /\ DOMAIN q = 1..Len(q) /\ Len(q) # 0 BY <2>1
  <2>4. DOMAIN r = 1..Len(r) BY <2>2
  <2>5. call = q[1] BY <1>4, <2>1
  <2> QED BY <2>2, <2>3, <2>4, <2>5
<1>6. PICK x: x = ResultOf(call) OBVIOUS
<1>7. /\ x \in Items /\ x.kind = "result" /\ x.id = call /\ x.calls = << >> /\ x.text = TRUE
      /\ x.kind \notin Incoming /\ x.kind # "step"
  BY <1>5, <1>6, ItemsMade DEF ResultOf, Incoming
<1>8. PICK g: g = h \o << x >> OBVIOUS
<1>9. /\ g \in Seq(Items) /\ DOMAIN g = DOMAIN h \cup {Len(h) + 1} /\ g[Len(h) + 1] = x
      /\ \A i \in DOMAIN h: g[i] = h[i]
  <2>1. h \in Seq(Items) BY <1>2, <1>3
  <2>2. g \in Seq(Items) /\ Len(g) = Len(h) + 1 /\ Len(h) \in Nat BY <1>7, <1>8, <2>1
  <2>3. DOMAIN g = 1..Len(g) /\ DOMAIN h = 1..Len(h) BY <2>1, <2>2
  <2> QED BY <1>7, <1>8, <2>1, <2>2, <2>3
<1>10. (\E i \in DOMAIN h: Makes(h, i, call)) /\ ~Answered(h, call)
  BY <1>1, <1>3, <1>5 DEF Unanswered
<1>11. History(g, m, s)
  <2>1. History(h, m, s) BY <1>1, <1>3
  <2>2. ~Answered(h, x.id) /\ \E i \in DOMAIN h: Makes(h, i, x.id) BY <1>7, <1>10
  <2> QED BY <1>7, <1>8, <2>1, <2>2, HistoryPush
<1>12. PICK f: f = (IF r = << >> THEN g \o w ELSE g) OBVIOUS
<1>13. PICK v: v = (IF r = << >> THEN << >> ELSE w) OBVIOUS
<1>14. PICK d: d = AppendResult(c, call) OBVIOUS
<1>15. d = [history |-> f, open |-> o, pending |-> r, deferred |-> v]
  <2>1. c = [history |-> h, open |-> o, pending |-> q, deferred |-> w] BY <1>1, <1>3, ContextIs
  <2>2. RemoveFirst(q, call) = r
    <3>1. q \in Seq(Nat) /\ q # << >> BY <1>2, <1>3
    <3> QED BY <1>4, <3>1, RemoveHead
  <2>3. PICK e: e = [history |-> g, open |-> o, pending |-> r, deferred |-> w] OBVIOUS
  <2>4. [Push(c, << x >>) EXCEPT !.pending = RemoveFirst(@, call)] = e
    <3>1. Push(c, << x >>) = [history |-> g, open |-> o, pending |-> q, deferred |-> w]
      <4>1. Push(c, << x >>) = [c EXCEPT !.history = g] BY <1>3, <1>8 DEF Push
      <4> QED BY <2>1, <4>1
    <3> QED BY <2>2, <2>3, <3>1
  <2>5. \E n \in DOMAIN c.pending: c.pending[n] = call BY <1>3, <1>5
  <2>6. d = Flush(e) BY <1>6, <1>14, <2>4, <2>5 DEF AppendResult
  <2>7. CASE r = << >>
    <3>1. Push(e, e.deferred) = [history |-> f, open |-> o, pending |-> r, deferred |-> w]
      <4>1. e.history = g /\ e.deferred = w /\ f = g \o w BY <1>12, <2>3, <2>7
      <4>2. Push(e, e.deferred) = [e EXCEPT !.history = f] BY <4>1 DEF Push
      <4> QED BY <2>3, <4>2
    <3>2. d = [Push(e, e.deferred) EXCEPT !.deferred = << >>]
      BY <2>3, <2>6, <2>7 DEF Flush
    <3> QED BY <1>13, <2>7, <3>1, <3>2
  <2>8. CASE r # << >>
    <3>1. d = e BY <2>3, <2>6, <2>8 DEF Flush
    <3> QED BY <1>12, <1>13, <2>3, <2>8, <3>1
  <2> QED BY <2>7, <2>8
<1>16. d.history = f /\ d.open = o /\ d.pending = r /\ d.deferred = v BY <1>15
<1>17. w \in Seq(Items) BY <1>2, <1>3
<1>18. /\ Ordered(w)
       /\ \A n \in DOMAIN w:
             /\ w[n].kind \in Incoming /\ w[n].id <= m /\ w[n].kind # "result"
             /\ w[n].calls = << >> /\ w[n].text = TRUE
             /\ \A i \in DOMAIN g: g[i].kind \in Incoming => g[i].id < w[n].id
  BY <1>1, <1>3, <1>7, <1>9 DEF Waits, Incoming
<1>19. History(f, m, s)
  <2>1. History(g \o w, m, s) BY <1>11, <1>17, <1>18, HistoryFlush
  <2> QED BY <1>11, <1>12, <2>1
<1>20. /\ f \in Seq(Items)
       /\ \A i \in DOMAIN g: i \in DOMAIN f /\ f[i] = g[i]
       /\ \A i \in DOMAIN f:
             i \in DOMAIN g \/ (f[i].kind # "result" /\ f[i].calls = << >>)
  <2>1. CASE r = << >>
    <3>1. /\ f \in Seq(Items) /\ Len(f) = Len(g) + Len(w)
          /\ \A i \in 1..Len(g) + Len(w): f[i] = IF i <= Len(g) THEN g[i] ELSE w[i - Len(g)]
      <4>1. f = g \o w BY <1>12, <2>1
      <4>2. g \in Seq(Items) BY <1>9
      <4> QED BY <1>17, <4>1, <4>2, ConcatProperties
    <3>2. /\ Len(g) \in Nat /\ Len(w) \in Nat /\ DOMAIN g = 1..Len(g) /\ DOMAIN w = 1..Len(w)
          /\ DOMAIN f = 1..Len(g) + Len(w)
      <4>1. g \in Seq(Items) BY <1>9
      <4>2. DOMAIN g = 1..Len(g) /\ Len(g) \in Nat BY <4>1
      <4>3. DOMAIN w = 1..Len(w) /\ Len(w) \in Nat BY <1>17
      <4>4. DOMAIN f = 1..Len(f) BY <3>1
      <4> QED BY <3>1, <4>2, <4>3, <4>4
    <3>3. \A i \in DOMAIN f: i \in DOMAIN g \/ (i - Len(g) \in DOMAIN w /\ f[i] = w[i - Len(g)])
      BY <3>1, <3>2
    <3>4. \A i \in DOMAIN g: i \in DOMAIN f /\ f[i] = g[i] BY <3>1, <3>2
    <3> QED BY <1>18, <3>1, <3>3, <3>4
  <2>2. CASE r # << >> BY <1>9, <1>12, <2>2
  <2> QED BY <2>1, <2>2
<1>21. \A i \in DOMAIN h: i \in DOMAIN f /\ f[i] = h[i] BY <1>9, <1>20
<1>22. \A y: Answered(f, y) <=> Answered(h, y) \/ y = call
  <2>1. \A y: Answered(f, y) => Answered(h, y) \/ y = call
    BY <1>7, <1>9, <1>20 DEF Answered
  <2>2. \A y: Answered(h, y) => Answered(f, y) BY <1>21 DEF Answered
  <2>3. Answered(f, call) BY <1>7, <1>9, <1>20 DEF Answered
  <2> QED BY <2>1, <2>2, <2>3
<1>23. d \in Contexts
  <2>1. v \in Seq(Items) BY <1>13, <1>17
  <2>2. o \in SUBSET Nat BY <1>2, <1>3
  <2> QED BY <1>5, <1>15, <1>20, <2>1, <2>2 DEF Contexts
<1>24. Waits(d, m)
  <2>1. CASE r = << >>
    <3>1. v = << >> /\ DOMAIN << >> = {} BY <1>13, <2>1
    <3> QED BY <1>16, <3>1 DEF Waits, Ordered
  <2>2. CASE r # << >>
    <3>1. v = w /\ f = g BY <1>12, <1>13, <2>2
    <3> QED BY <1>16, <1>18, <2>2, <3>1 DEF Waits
  <2> QED BY <2>1, <2>2
<1>25. Unanswered(d)
  <2>1. Injective(q) /\ \A n \in DOMAIN q: (\E i \in DOMAIN h: Makes(h, i, q[n])) /\ ~Answered(h, q[n])
    BY <1>1, <1>3 DEF Unanswered
  <2>2. \A i, j \in DOMAIN r: r[i] = r[j] => i = j
    <3> SUFFICES ASSUME NEW i \in DOMAIN r, NEW j \in DOMAIN r, r[i] = r[j] PROVE i = j OBVIOUS
    <3>1. i + 1 = j + 1 BY <1>5, <2>1 DEF Injective
    <3> QED BY <1>5, <3>1
  <2>3. \A k \in DOMAIN r: r[k] # call
    <3> SUFFICES ASSUME NEW k \in DOMAIN r, r[k] = call PROVE FALSE OBVIOUS
    <3>1. k + 1 = 1 BY <1>5, <2>1 DEF Injective
    <3>2. k \in Nat /\ k # 0 BY <1>5
    <3> QED BY <3>1, <3>2
  <2>4. \A i \in DOMAIN h: \A y: Makes(h, i, y) => Makes(f, i, y) BY <1>21 DEF Makes
  <2>5. \A k \in DOMAIN r: (\E i \in DOMAIN f: Makes(f, i, r[k])) /\ ~Answered(f, r[k])
    <3> TAKE k \in DOMAIN r
    <3>1. PICK n \in DOMAIN q: r[k] = q[n] BY <1>5
    <3>2. PICK i \in DOMAIN h: Makes(h, i, r[k]) BY <2>1, <3>1
    <3>3. ~Answered(h, r[k]) BY <2>1, <3>1
    <3> QED BY <1>21, <1>22, <2>3, <2>4, <3>2, <3>3
  <2> QED BY <1>16, <2>2, <2>5 DEF Unanswered, Injective
<1>26. Sound(d, m, s) BY <1>1, <1>3, <1>16, <1>19, <1>23, <1>24, <1>25 DEF Sound
<1>27. \A i \in DOMAIN f: i \in DOMAIN h \/ f[i].calls = << >>
  BY <1>7, <1>9, <1>20
<1> QED BY <1>3, <1>4, <1>14, <1>16, <1>21, <1>22, <1>26, <1>27
\* A call is made by one step only, which its result follows.
LEMMA OneMaker ==
    ASSUME NEW h, NEW m, NEW s, History(h, m, s), MaxCalls \in Nat,
           NEW i \in DOMAIN h, NEW j \in DOMAIN h, NEW c, Makes(h, i, c), Makes(h, j, c)
    PROVE  i = j
<1>1. h[i] \in Items /\ h[j] \in Items BY DEF History
<1>2. PICK x \in Nat, y \in Nat: x = h[i].id /\ y = h[j].id BY <1>1, ItemIs
<1>3. PICK p \in 1..MaxCalls: c = Call(x, p) BY <1>2 DEF Makes, History, StepsApart
<1>4. PICK q \in 1..MaxCalls: c = Call(y, q) BY <1>2 DEF Makes, History, StepsApart
<1>5. x = y BY <1>3, <1>4, CallsApart, ZenonT(60)
<1> QED BY <1>2, <1>5 DEF Makes, History, StepsApart

LEMMA ResultAfter ==
    ASSUME NEW h, NEW m, NEW s, History(h, m, s), MaxCalls \in Nat,
           NEW i \in DOMAIN h, NEW j \in DOMAIN h, h[j].kind = "result", Makes(h, i, h[j].id)
    PROVE  i < j
<1>1. PICK k \in DOMAIN h: k < j /\ Makes(h, k, h[j].id) BY DEF History, ResultsFollow
<1>2. k = i BY <1>1, OneMaker
<1> QED BY <1>1, <1>2

\* A context without an open exchange.
LEMMA SoundOf ==
    ASSUME NEW g, NEW m, NEW s, History(g, m, s), NEW o \in SUBSET (1..s), s \in Nat
    PROVE  Sound([history |-> g, open |-> o, pending |-> << >>, deferred |-> << >>], m, s)
<1>1. PICK d: d = [history |-> g, open |-> o, pending |-> << >>, deferred |-> << >>] OBVIOUS
<1>2. d.history = g /\ d.open = o /\ d.pending = << >> /\ d.deferred = << >> BY <1>1
<1>3. d \in Contexts
  <2>1. /\ << >> \in Seq(Items) /\ << >> \in Seq(Nat) /\ o \in SUBSET Nat OBVIOUS
  <2>2. g \in Seq(Items) BY DEF History
  <2> QED BY <1>1, <2>1, <2>2 DEF Contexts
<1>4. DOMAIN << >> = {} OBVIOUS
<1>5. Waits(d, m) /\ Unanswered(d) BY <1>2, <1>4 DEF Waits, Unanswered, Ordered, Injective
<1> QED BY <1>1, <1>2, <1>3, <1>5 DEF Sound

\* The last position of a set is one of it.
LEMMA LastOf ==
    ASSUME NEW N \in Nat, NEW I \in SUBSET (1..N), I # {}
    PROVE  Max(I) \in I /\ \A i \in I: i <= Max(I)
<1> DEFINE D == {n \in Nat: \E i \in I: n = N - i}
<1>1. \A i \in I: N - i \in D BY DEF D
<1>2. D \subseteq Nat /\ D # {} BY <1>1
<1>3. PICK n \in D: \A k \in D: n <= k
  <2> HIDE DEF D
  <2> QED BY <1>2, Least
<1>4. PICK i \in I: n = N - i OBVIOUS
<1>5. \A k \in I: k <= i
  <2> TAKE k \in I
  <2>1. n <= N - k BY <1>1, <1>3
  <2> QED BY <1>4, <2>1
<1>6. \A k \in I: i >= k BY <1>5
<1>7. Max(I) \in I /\ \A k \in I: Max(I) >= k BY <1>6 DEF Max
<1> QED BY <1>7

LEMMA SoundUndo ==
    ASSUME MaxCalls \in Nat,
           NEW c, NEW m \in Nat, NEW s \in Nat, Sound(c, m, s), NEW n
    PROVE  Sound(Undo(c, n), m, s) /\ Undo(c, n).pending = << >>
<1>1. c \in Contexts /\ History(c.history, m, s) BY DEF Sound
<1>2. PICK h: h = c.history OBVIOUS
<1>3. h \in Seq(Items) /\ DOMAIN h = 1..Len(h) /\ Len(h) \in Nat BY <1>1, <1>2, ContextIs
<1> DEFINE boundary == SelectLastInSeq(h, LAMBDA x: x.kind = "summary")
           users == {i \in boundary + 1..Len(h): h[i].kind = "user"}
           reached == {i \in users: Cardinality({j \in users: j >= i}) = n}
           first == IF reached = {} THEN boundary + 1 ELSE CHOOSE i \in reached: TRUE
<1>4. boundary \in Nat
  <2> DEFINE I == {i \in 1..Len(h): h[i].kind = "summary"}
  <2>1. boundary = IF I # {} THEN Max(I) ELSE 0 BY DEF SelectLastInSeq
  <2>2. I # {} => Max(I) \in I
    <3>1. I \in SUBSET (1..Len(h)) OBVIOUS
    <3> HIDE DEF I
    <3> QED BY <1>3, <3>1, LastOf
  <2>3. I \subseteq Nat OBVIOUS
  <2> HIDE DEF boundary, I
  <2> QED BY <2>1, <2>2, <2>3
<1>5. first \in Nat
  <2> HIDE DEF boundary
  <2>1. users \subseteq Nat BY <1>3, <1>4
  <2>2. reached \subseteq users OBVIOUS
  <2>3. (CHOOSE i \in reached: TRUE) \in reached \/ reached = {}
    <3> HIDE DEF reached
    <3> QED OBVIOUS
  <2>4. boundary + 1 \in Nat BY <1>4
  <2> HIDE DEF users, reached
  <2>5. CASE reached = {} BY <2>4, <2>5
  <2>6. CASE reached # {} BY <2>1, <2>2, <2>3, <2>6
  <2> QED BY <2>5, <2>6
<1>6. PICK b \in Nat: b = first BY <1>5
<1>7. PICK S: S = {i \in DOMAIN h: i < b \/ h[i].kind = "reminder"} OBVIOUS
<1>8. PICK g: g = Those(h, S) OBVIOUS
<1>9. Undo(c, n) = [Empty EXCEPT !.history = g]
  BY <1>2, <1>6, <1>7, <1>8 DEF Undo
<1>10. Undo(c, n) = [history |-> g, open |-> {}, pending |-> << >>, deferred |-> << >>]
  BY <1>9 DEF Empty
<1>11. S \in SUBSET DOMAIN h BY <1>7
<1>12. g \in Seq(Items) BY <1>3, <1>8, <1>11, ThoseOf
<1>13. PICK f: /\ Embeds(f, g, h)
               /\ \A k \in DOMAIN g: f[k] \in S
               /\ \A i \in S: \E k \in DOMAIN g: f[k] = i
  BY <1>3, <1>8, <1>11, ThoseOf
<1>14. \A k \in DOMAIN g: g[k].kind = "result" =>
          \A i \in DOMAIN h: Makes(h, i, g[k].id) => \E l \in DOMAIN g: f[l] = i
  <2> SUFFICES ASSUME NEW k \in DOMAIN g, g[k].kind = "result",
                      NEW i \in DOMAIN h, Makes(h, i, g[k].id)
               PROVE  i \in S
    BY <1>13
  <2>1. PICK j: j = f[k] OBVIOUS
  <2>2. j \in DOMAIN h /\ h[j] = g[k] /\ j \in S BY <1>13, <2>1 DEF Embeds
  <2>3. j < b
    <3>1. h[j].kind # "reminder" BY <2>2
    <3> QED BY <1>7, <2>2, <3>1
  <2>4. i < j BY <1>1, <1>2, <2>2, ResultAfter
  <2>5. i < b BY <1>3, <1>6, <2>2, <2>3, <2>4, SMTT(30)
  <2> QED BY <1>7, <2>5
<1>15. History(g, m, s) BY <1>1, <1>2, <1>12, <1>13, <1>14, HistoryPart
<1>16. Sound(Undo(c, n), m, s) BY <1>10, <1>15, SoundOf
<1> QED BY <1>10, <1>16

LEMMA SoundCompact ==
    ASSUME NEW c, NEW m \in Nat, NEW s \in Nat, Sound(c, m, s), NEW n
    PROVE  /\ Sound(Compact(c, n), m, s) /\ Compact(c, n).pending = << >>
           /\ \A i \in DOMAIN Compact(c, n).history: Compact(c, n).history[i].calls = << >>
<1>1. c \in Contexts /\ History(c.history, m, s) BY DEF Sound
<1>2. PICK h: h = c.history OBVIOUS
<1>3. h \in Seq(Items) /\ DOMAIN h = 1..Len(h) /\ Len(h) \in Nat BY <1>1, <1>2, ContextIs
<1>4. PICK S: S = {i \in Users(h): Cardinality({j \in Users(h): j >= i}) <= n} OBVIOUS
<1>5. S \in SUBSET DOMAIN h /\ \A i \in S: h[i].kind = "user" BY <1>4 DEF Users
<1>6. PICK g: g = Those(h, S) OBVIOUS
<1>7. g \in Seq(Items) BY <1>3, <1>5, <1>6, ThoseOf
<1>8. PICK f: Embeds(f, g, h) /\ \A k \in DOMAIN g: f[k] \in S
  BY <1>3, <1>5, <1>6, ThoseOf
<1>9. \A k \in DOMAIN g: g[k].kind = "user" /\ g[k].kind # "result"
  BY <1>5, <1>8 DEF Embeds
<1>10. History(g, m, s) BY <1>1, <1>2, <1>7, <1>8, <1>9, HistoryPart
<1>11. PICK x: x = Summary OBVIOUS
<1>12. /\ x \in Items /\ x.kind = "summary" /\ x.calls = << >> /\ x.text = TRUE
       /\ x.kind \notin Incoming /\ x.kind # "step" /\ x.kind # "result"
  BY <1>11, ItemsMade DEF Summary, Message, Incoming
<1>13. PICK a: a = Append(g, x) OBVIOUS
<1>14. a = g \o << x >> BY <1>7, <1>12, <1>13
<1>15. History(a, m, s) BY <1>10, <1>12, <1>14, HistoryPush
<1>16. Compact(c, n) = [Empty EXCEPT !.history = a]
  BY <1>2, <1>4, <1>6, <1>11, <1>13 DEF Compact
<1>17. Compact(c, n) = [history |-> a, open |-> {}, pending |-> << >>, deferred |-> << >>]
  BY <1>16 DEF Empty
<1>18. Sound(Compact(c, n), m, s) BY <1>15, <1>17, SoundOf
<1>19. \A i \in DOMAIN a: a[i].calls = << >>
  <2>1. Shaped(g) BY <1>10 DEF History
  <2>2. \A i \in DOMAIN g: g[i].calls = << >>
    <3>1. \A i \in DOMAIN g: g[i].kind # "step" BY <1>9
    <3> QED BY <2>1, <3>1 DEF Shaped
  <2>3. \A i \in DOMAIN a: (i \in DOMAIN g /\ a[i] = g[i]) \/ a[i] = x
    <3>1. Len(a) = Len(g) + 1 /\ Len(g) \in Nat /\ DOMAIN g = 1..Len(g) /\ DOMAIN a = 1..Len(a)
      BY <1>7, <1>12, <1>13
    <3>2. \A i \in 1..Len(g): a[i] = g[i] BY <1>7, <1>12, <1>13
    <3>3. a[Len(g) + 1] = x BY <1>7, <1>12, <1>13
    <3> QED BY <3>1, <3>2, <3>3
  <2> QED BY <1>12, <2>2, <2>3
<1> QED BY <1>17, <1>18, <1>19

\* The last message is taken back.
LEMMA SoundPop ==
    ASSUME MaxCalls \in Nat,
           NEW c, NEW m \in Nat, NEW s \in Nat, Sound(c, m, s), c.pending = << >>,
           c.history # << >>
    PROVE  Sound([c EXCEPT !.history = Front(@)], m, s)
<1>1. c \in Contexts /\ History(c.history, m, s) /\ c.open \subseteq 1..s BY DEF Sound
<1>2. PICK h: h = c.history OBVIOUS
<1>3. h \in Seq(Items) /\ DOMAIN h = 1..Len(h) /\ Len(h) \in Nat /\ Len(h) # 0
  BY <1>1, <1>2, ContextIs
<1>4. PICK g: g = Front(h) OBVIOUS
<1>5. /\ g \in Seq(Items) /\ DOMAIN g = 1..Len(h) - 1
      /\ \A i \in DOMAIN g: g[i] = h[i] /\ i \in DOMAIN h
  <2>1. PICK n \in Nat: n = Len(h) - 1
    <3>1. Len(h) - 1 \in Nat BY <1>3
    <3> QED BY <3>1
  <2>2. g = SubSeq(h, 1, n) BY <1>4, <2>1 DEF Front
  <2>3. \A i \in 1..n: h[i] \in Items /\ i \in DOMAIN h BY <1>3, <2>1
  <2>4. n - 1 + 1 = n /\ \A i \in 1..n: 1 + i - 1 = i OBVIOUS
  <2>5. /\ g \in Seq(Items)
        /\ Len(g) = IF 1 <= n THEN n - 1 + 1 ELSE 0
        /\ \A i \in 1..n - 1 + 1: g[i] = h[1 + i - 1]
    <3>1. 1 \in Int /\ n \in Int OBVIOUS
    <3> QED BY <2>2, <2>3, <3>1, SubSeqProperties
  <2>6. Len(g) = n BY <2>1, <2>5
  <2>7. DOMAIN g = 1..n BY <2>5, <2>6
  <2>8. \A i \in 1..n: g[i] = h[i]
    <3> TAKE i \in 1..n
    <3>1. i \in 1..n - 1 + 1 /\ 1 + i - 1 = i BY <2>4
    <3> QED BY <2>5, <3>1
  <2> QED BY <2>1, <2>3, <2>5, <2>7, <2>8
<1>6. PICK f: f = [i \in DOMAIN g |-> i] OBVIOUS
<1>7. Embeds(f, g, h) BY <1>5, <1>6 DEF Embeds
<1>8. \A k \in DOMAIN g: g[k].kind = "result" =>
          \A i \in DOMAIN h: Makes(h, i, g[k].id) => \E l \in DOMAIN g: f[l] = i
  <2> SUFFICES ASSUME NEW k \in DOMAIN g, g[k].kind = "result",
                      NEW i \in DOMAIN h, Makes(h, i, g[k].id)
               PROVE  i \in DOMAIN g
    BY <1>6
  <2>1. k \in DOMAIN h /\ h[k] = g[k] BY <1>5
  <2>2. i < k BY <1>1, <1>2, <2>1, ResultAfter
  <2> QED BY <1>3, <1>5, <2>2
<1>9. History(g, m, s) BY <1>1, <1>2, <1>5, <1>7, <1>8, HistoryPart
<1>10. c.deferred = << >> BY SoundClosed
<1>11. [c EXCEPT !.history = Front(@)]
          = [history |-> g, open |-> c.open, pending |-> << >>, deferred |-> << >>]
  <2>1. PICK o: o = c.open OBVIOUS
  <2>2. c = [history |-> h, open |-> o, pending |-> << >>, deferred |-> << >>]
    BY <1>1, <1>2, <1>10, <2>1, ContextIs
  <2>3. [c EXCEPT !.history = Front(@)] = [c EXCEPT !.history = g] BY <1>2, <1>4
  <2> QED BY <2>1, <2>2, <2>3
<1> QED BY <1>1, <1>9, <1>11, SoundOf
\* What a record does, by its type.
LEMMA Applied ==
    ASSUME NEW c, NEW x, NEW y
    PROVE  /\ Apply(c, Record("result", x, y)) = AppendResult(c, y)
           /\ ~Throws(c, Record("result", x, y))
           /\ Apply(c, Record("begin", x, y)) = BeginStep(c, x)
           /\ ~Throws(c, Record("begin", x, y))
           /\ Apply(c, Record("end", x, y)) = EndStep(c, x)
           /\ ~Throws(c, Record("end", x, y))
           /\ Apply(c, Record("undo", x, y)) = Undo(c, x)
           /\ ~Throws(c, Record("undo", x, y))
           /\ Apply(c, Record("clear", x, y)) = Empty
           /\ ~Throws(c, Record("clear", x, y))
           /\ Apply(c, Record("compact", x, y)) = Compact(c, x)
           /\ ~Throws(c, Record("compact", x, y))
           /\ \A k \in Incoming: /\ Apply(c, Record(k, x, y)) = AppendMessage(c, Message(k, x))
                                  /\ ~Throws(c, Record(k, x, y))
           /\ x \in c.open =>
                 /\ Apply(c, Record("part", x, y)) = AppendPart(c, x)
                 /\ ~Throws(c, Record("part", x, y))
                 /\ Apply(c, Record("call", x, y)) = AppendCall(c, x, y)
                 /\ ~Throws(c, Record("call", x, y))
<1>1. \A k: Record(k, x, y).type = k /\ Record(k, x, y).id = x /\ Record(k, x, y).call = y
  BY DEF Record
<1>2. ~Throws(c, Record("result", x, y)) /\ Apply(c, Record("result", x, y)) = AppendResult(c, y)
  <2> DEFINE r == Record("result", x, y)
  <2>1. r.type = "result" /\ r.id = x /\ r.call = y BY <1>1
  <2> HIDE DEF r
  <2>2. ~Throws(c, r) BY <2>1 DEF Throws
  <2> QED BY <2>1, <2>2 DEF Apply, Incoming, r
<1>3. ~Throws(c, Record("begin", x, y)) /\ Apply(c, Record("begin", x, y)) = BeginStep(c, x)
  <2> DEFINE r == Record("begin", x, y)
  <2>1. r.type = "begin" /\ r.id = x /\ r.call = y BY <1>1
  <2> HIDE DEF r
  <2>2. ~Throws(c, r) BY <2>1 DEF Throws
  <2> QED BY <2>1, <2>2 DEF Apply, Incoming, r
<1>4. ~Throws(c, Record("end", x, y)) /\ Apply(c, Record("end", x, y)) = EndStep(c, x)
  <2> DEFINE r == Record("end", x, y)
  <2>1. r.type = "end" /\ r.id = x /\ r.call = y BY <1>1
  <2> HIDE DEF r
  <2>2. ~Throws(c, r) BY <2>1 DEF Throws
  <2> QED BY <2>1, <2>2 DEF Apply, Incoming, r
<1>5. ~Throws(c, Record("undo", x, y)) /\ Apply(c, Record("undo", x, y)) = Undo(c, x)
  <2> DEFINE r == Record("undo", x, y)
  <2>1. r.type = "undo" /\ r.id = x /\ r.call = y BY <1>1
  <2> HIDE DEF r
  <2>2. ~Throws(c, r) BY <2>1 DEF Throws
  <2> QED BY <2>1, <2>2 DEF Apply, Incoming, r
<1>6. ~Throws(c, Record("clear", x, y)) /\ Apply(c, Record("clear", x, y)) = Empty
  <2> DEFINE r == Record("clear", x, y)
  <2>1. r.type = "clear" /\ r.id = x /\ r.call = y BY <1>1
  <2> HIDE DEF r
  <2>2. ~Throws(c, r) BY <2>1 DEF Throws
  <2> QED BY <2>1, <2>2 DEF Apply, Incoming, r
<1>7. ~Throws(c, Record("compact", x, y)) /\ Apply(c, Record("compact", x, y)) = Compact(c, x)
  <2> DEFINE r == Record("compact", x, y)
  <2>1. r.type = "compact" /\ r.id = x /\ r.call = y BY <1>1
  <2> HIDE DEF r
  <2>2. ~Throws(c, r) BY <2>1 DEF Throws
  <2> QED BY <2>1, <2>2 DEF Apply, Incoming, r
<1>8. ASSUME NEW k \in Incoming
      PROVE  ~Throws(c, Record(k, x, y)) /\ Apply(c, Record(k, x, y)) = AppendMessage(c, Message(k, x))
  <2> DEFINE r == Record(k, x, y)
  <2>1. r.type = k /\ r.id = x BY <1>1
  <2> HIDE DEF r
  <2>2. ~Throws(c, r) BY <2>1 DEF Throws, Incoming
  <2> QED BY <2>1, <2>2 DEF Apply, Incoming, r
<1>9. ASSUME x \in c.open
      PROVE  ~Throws(c, Record("part", x, y)) /\ Apply(c, Record("part", x, y)) = AppendPart(c, x)
  <2> DEFINE r == Record("part", x, y)
  <2>1. r.type = "part" /\ r.id = x /\ r.call = y BY <1>1
  <2> HIDE DEF r
  <2>2. ~Throws(c, r) BY <1>9, <2>1 DEF Throws
  <2> QED BY <1>9, <2>1, <2>2 DEF Apply, Incoming, r
<1>10. ASSUME x \in c.open
      PROVE  ~Throws(c, Record("call", x, y)) /\ Apply(c, Record("call", x, y)) = AppendCall(c, x, y)
  <2> DEFINE r == Record("call", x, y)
  <2>1. r.type = "call" /\ r.id = x /\ r.call = y BY <1>1
  <2> HIDE DEF r
  <2>2. ~Throws(c, r) BY <1>10, <2>1 DEF Throws
  <2> QED BY <1>10, <2>1, <2>2 DEF Apply, Incoming, r
<1> QED BY <1>2, <1>3, <1>4, <1>5, <1>6, <1>7, <1>8, <1>9, <1>10

\* The log o with the results that c awaits.
ClosedLog(c, o) ==
    LET logged[n \in 0..Len(c.pending)] ==
            IF n = 0 THEN o ELSE Logged(logged[n - 1], Record("result", 0, c.pending[n]))
    IN  logged[Len(c.pending)]

\* The results that were cut off are made up one by one, and each is logged.
LEMMA SoundClose ==
    ASSUME NEW c, NEW m \in Nat, NEW s \in Nat, Sound(c, m, s),
           NEW o, o = [context |-> c, throws |-> FALSE]
    PROVE  /\ Sound(ClosePending(c), m, s)
           /\ ClosePending(c).pending = << >> /\ ClosePending(c).open = c.open
           /\ ClosedLog(c, o) = [context |-> ClosePending(c), throws |-> FALSE]
<1> DEFINE step1(f, n) == IF n = 0 THEN c ELSE AppendResult(f[n - 1], c.pending[n])
           step2(f, n) == IF n = 0 THEN o
                          ELSE Logged(f[n - 1], Record("result", 0, c.pending[n]))
           upTo1(k) == \E f: f = [n \in 0..k |-> step1(f, n)]
           upTo2(k) == \E f: f = [n \in 0..k |-> step2(f, n)]
           closed == CHOOSE f: f = [n \in 0..Len(c.pending) |-> step1(f, n)]
           logged == CHOOSE f: f = [n \in 0..Len(c.pending) |-> step2(f, n)]
<1>1. PICK q: q = c.pending OBVIOUS
<1>2. q \in Seq(Nat) BY <1>1, ContextIs DEF Sound
<1>3. PICK N \in Nat: N = Len(q) BY <1>2
<1>4. upTo1(N)
  <2> DEFINE D == {l \in Nat: ~upTo1(l)}
  <2> SUFFICES ASSUME D # {} PROVE FALSE OBVIOUS
  <2>1. PICK l \in D: \A n \in D: l <= n
    <3> D \subseteq Nat OBVIOUS
    <3> HIDE DEF D
    <3> QED BY Least
  <2>2. l # 0
    <3>1. upTo1(0)
      <4>1. PICK f: f = [n \in {0} |-> step1(<< >>, 0)] OBVIOUS
      <4>2. \A g: step1(g, 0) = step1(<< >>, 0) OBVIOUS
      <4>3. f = [n \in {0} |-> step1(f, n)]
        <5> HIDE DEF step1
        <5> QED BY <4>1, <4>2
      <4>4. 0..0 = {0} OBVIOUS
      <4>5. f = [n \in 0..0 |-> step1(f, n)]
        <5> HIDE DEF step1
        <5> QED BY <4>3, <4>4
      <4> HIDE DEF step1
      <4> QED BY <4>5
    <3> QED BY <3>1
  <2>3. l - 1 \in Nat /\ l \in Nat BY <2>2
  <2>4. upTo1(l - 1)
    <3>1. l - 1 \notin D
      <4> HIDE DEF D
      <4> QED BY <2>1, <2>3
    <3> HIDE DEF upTo1
    <3> QED BY <2>3, <3>1
  <2>5. PICK f: f = [n \in 0..(l - 1) |-> step1(f, n)]
    <3> HIDE DEF step1
    <3> QED BY <2>4
  <2>6. PICK g: g = [n \in 0..l |-> IF n = l THEN step1(f, l) ELSE f[n]] OBVIOUS
  <2>7. \A e, k: step1(e, k) = step1(g, k) \/ (k # 0 /\ e[k - 1] # g[k - 1]) OBVIOUS
  <2>8. \A n \in 0..l: g[n] = step1(g, n)
    <3> HIDE DEF step1
    <3> TAKE n \in 0..l
    <3>1. CASE n = l
      <4>1. g[l] = step1(f, l) /\ g[l - 1] = f[l - 1] BY <2>3, <2>6
      <4> QED BY <2>7, <3>1, <4>1
    <3>2. CASE n # l
      <4>1. n \in 0..(l - 1) /\ (n # 0 => n - 1 \in 0..l /\ n - 1 # l) BY <2>3, <3>2
      <4>2. g[n] = f[n] /\ f[n] = step1(f, n) BY <2>5, <2>6, <3>2, <4>1
      <4>3. n # 0 => g[n - 1] = f[n - 1] BY <2>6, <4>1
      <4> QED BY <2>7, <4>2, <4>3
    <3> QED BY <3>1, <3>2
  <2>9. g = [n \in 0..l |-> step1(g, n)]
    <3> HIDE DEF step1
    <3> QED BY <2>6, <2>8
  <2>10. upTo1(l)
    <3> HIDE DEF step1
    <3> QED BY <2>9
  <2> QED BY <2>10
<1>5. upTo2(N)
  <2> DEFINE D == {l \in Nat: ~upTo2(l)}
  <2> SUFFICES ASSUME D # {} PROVE FALSE OBVIOUS
  <2>1. PICK l \in D: \A n \in D: l <= n
    <3> D \subseteq Nat OBVIOUS
    <3> HIDE DEF D
    <3> QED BY Least
  <2>2. l # 0
    <3>1. upTo2(0)
      <4>1. PICK f: f = [n \in {0} |-> step2(<< >>, 0)] OBVIOUS
      <4>2. \A g: step2(g, 0) = step2(<< >>, 0) OBVIOUS
      <4>3. f = [n \in {0} |-> step2(f, n)]
        <5> HIDE DEF step2
        <5> QED BY <4>1, <4>2
      <4>4. 0..0 = {0} OBVIOUS
      <4>5. f = [n \in 0..0 |-> step2(f, n)]
        <5> HIDE DEF step2
        <5> QED BY <4>3, <4>4
      <4> HIDE DEF step2
      <4> QED BY <4>5
    <3> QED BY <3>1
  <2>3. l - 1 \in Nat /\ l \in Nat BY <2>2
  <2>4. upTo2(l - 1)
    <3>1. l - 1 \notin D
      <4> HIDE DEF D
      <4> QED BY <2>1, <2>3
    <3> HIDE DEF upTo2
    <3> QED BY <2>3, <3>1
  <2>5. PICK f: f = [n \in 0..(l - 1) |-> step2(f, n)]
    <3> HIDE DEF step2
    <3> QED BY <2>4
  <2>6. PICK g: g = [n \in 0..l |-> IF n = l THEN step2(f, l) ELSE f[n]] OBVIOUS
  <2>7. \A e, k: step2(e, k) = step2(g, k) \/ (k # 0 /\ e[k - 1] # g[k - 1]) OBVIOUS
  <2>8. \A n \in 0..l: g[n] = step2(g, n)
    <3> HIDE DEF step2
    <3> TAKE n \in 0..l
    <3>1. CASE n = l
      <4>1. g[l] = step2(f, l) /\ g[l - 1] = f[l - 1] BY <2>3, <2>6
      <4> QED BY <2>7, <3>1, <4>1
    <3>2. CASE n # l
      <4>1. n \in 0..(l - 1) /\ (n # 0 => n - 1 \in 0..l /\ n - 1 # l) BY <2>3, <3>2
      <4>2. g[n] = f[n] /\ f[n] = step2(f, n) BY <2>5, <2>6, <3>2, <4>1
      <4>3. n # 0 => g[n - 1] = f[n - 1] BY <2>6, <4>1
      <4> QED BY <2>7, <4>2, <4>3
    <3> QED BY <3>1, <3>2
  <2>9. g = [n \in 0..l |-> step2(g, n)]
    <3> HIDE DEF step2
    <3> QED BY <2>6, <2>8
  <2>10. upTo2(l)
    <3> HIDE DEF step2
    <3> QED BY <2>9
  <2> QED BY <2>10
<1>6. PICK f: f = closed /\ f = [n \in 0..N |-> step1(f, n)]
  <2>1. upTo1(Len(c.pending)) BY <1>1, <1>3, <1>4
  <2>2. closed = [n \in 0..Len(c.pending) |-> step1(closed, n)]
    <3> HIDE DEF step1
    <3> QED BY <2>1
  <2> HIDE DEF closed, step1
  <2> QED BY <1>1, <1>3, <2>2
<1>7. PICK g: g = logged /\ g = [n \in 0..N |-> step2(g, n)]
  <2>1. upTo2(Len(c.pending)) BY <1>1, <1>3, <1>5
  <2>2. logged = [n \in 0..Len(c.pending) |-> step2(logged, n)]
    <3> HIDE DEF step2
    <3> QED BY <2>1
  <2> HIDE DEF logged, step2
  <2> QED BY <1>1, <1>3, <2>2
<1>8. ClosePending(c) = f[N] BY <1>1, <1>3, <1>6 DEF ClosePending
<1> HIDE DEF closed, logged, upTo1, upTo2
<1>9. /\ f[0] = c /\ g[0] = o
      /\ \A n \in 1..N: /\ f[n] = AppendResult(f[n - 1], q[n])
                         /\ g[n] = Logged(g[n - 1], Record("result", 0, q[n]))
  <2>1. \A n \in 0..N: f[n] = step1(f, n) /\ g[n] = step2(g, n)
    <3> HIDE DEF step1, step2
    <3>1. \A n \in 0..N: f[n] = step1(f, n) BY <1>6, Zenon
    <3>2. \A n \in 0..N: g[n] = step2(g, n) BY <1>7, Zenon
    <3> QED BY <3>1, <3>2
  <2>2. 0 \in 0..N /\ \A n \in 1..N: n \in 0..N /\ n # 0 OBVIOUS
  <2> QED BY <1>1, <2>1, <2>2
<1> HIDE DEF step1, step2
<1> DEFINE good(n) == /\ Sound(f[n], m, s) /\ f[n].open = c.open
                      /\ Len(f[n].pending) = N - n
                      /\ \A k \in 1..N - n: f[n].pending[k] = q[k + n]
                      /\ g[n] = [context |-> f[n], throws |-> FALSE]
           bad == {n \in 0..N: ~good(n)}
<1>10. good(0)
  <2>1. \A k \in 1..N - 0: k + 0 = k OBVIOUS
  <2>2. N - 0 = N OBVIOUS
  <2> QED BY <1>1, <1>3, <1>9, <2>1, <2>2
<1>11. ASSUME NEW n \in 1..N, good(n - 1) PROVE good(n)
  <2>1. PICK i \in Nat: i = n - 1 /\ n = i + 1 /\ N - i = N - n + 1 /\ N - n \in Nat /\ N - i \in Nat
    <3>1. n - 1 \in Nat /\ n = (n - 1) + 1 /\ N - n \in Nat /\ N - (n - 1) \in Nat
          /\ N - (n - 1) = N - n + 1
      OBVIOUS
    <3> QED BY <3>1
  <2>2. PICK d: d = f[i] OBVIOUS
  <2>3. /\ Sound(d, m, s) /\ d.open = c.open
        /\ Len(d.pending) = N - i /\ \A k \in 1..N - i: d.pending[k] = q[k + i]
        /\ g[i] = [context |-> d, throws |-> FALSE]
    BY <1>11, <2>1, <2>2
  <2>4. PICK p: p = d.pending OBVIOUS
  <2>5. p \in Seq(Nat) BY <2>3, <2>4, ContextIs DEF Sound
  <2>6. Len(p) = N - i /\ p # << >> /\ Head(p) = q[n]
    <3>1. Len(p) = N - i /\ 1 \in 1..N - i BY <2>1, <2>3, <2>4
    <3>2. p[1] = q[1 + i] /\ 1 + i = n BY <2>1, <2>3, <2>4, <3>1
    <3> QED BY <2>5, <3>1, <3>2
  <2>7. PICK e: e = AppendResult(d, Head(p)) OBVIOUS
  <2>8. Sound(e, m, s) /\ e.pending = Tail(p) /\ e.open = c.open
    BY <2>3, <2>4, <2>6, <2>7, SoundResult
  <2>9. f[n] = e BY <1>9, <2>1, <2>2, <2>6, <2>7
  <2>10. Len(Tail(p)) = N - n /\ \A k \in 1..N - n: Tail(p)[k] = q[k + n]
    <3>1. /\ Len(Tail(p)) = Len(p) - 1
          /\ \A k \in 1..Len(Tail(p)): Tail(p)[k] = p[k + 1]
      BY <2>5, <2>6, HeadTailProperties
    <3>2. Len(Tail(p)) = N - n BY <2>1, <2>6, <3>1
    <3>3. \A k \in 1..N - n: k + 1 \in 1..N - i /\ (k + 1) + i = k + n BY <2>1
    <3>4. \A k \in 1..N - i: p[k] = q[k + i] BY <2>3, <2>4
    <3>5. \A k \in 1..N - n: Tail(p)[k] = q[k + n]
      <4> TAKE k \in 1..N - n
      <4>1. PICK j \in 1..N - i: j = k + 1 /\ j + i = k + n BY <3>3
      <4> QED BY <3>1, <3>2, <3>4, <4>1
    <3> QED BY <3>2, <3>5
  <2>11. g[n] = [context |-> e, throws |-> FALSE]
    <3>1. PICK r: r = Record("result", 0, Head(p)) OBVIOUS
    <3>2. Apply(d, r) = e /\ ~Throws(d, r) BY <2>7, <3>1, Applied
    <3>3. g[n] = Logged([context |-> d, throws |-> FALSE], r)
      BY <1>9, <2>1, <2>3, <2>6, <3>1
    <3> QED BY <3>2, <3>3 DEF Logged
  <2> QED BY <2>8, <2>9, <2>10, <2>11
<1>12. good(N)
  <2> SUFFICES ASSUME ~good(N) PROVE FALSE OBVIOUS
  <2>1. PICK n \in bad: \A k \in bad: n <= k
    <3>1. N \in bad /\ bad \subseteq Nat OBVIOUS
    <3> HIDE DEF bad
    <3> QED BY <3>1, Least
  <2>2. n \in 0..N /\ ~good(n)
    <3> HIDE DEF good
    <3> QED BY <2>1
  <2> HIDE DEF good
  <2>3. n # 0 BY <1>10, <2>2
  <2>4. n \in 1..N /\ n - 1 \in 0..N /\ ~(n <= n - 1) BY <2>2, <2>3
  <2>5. good(n - 1) BY <2>1, <2>4
  <2> QED BY <1>11, <2>2, <2>4, <2>5
<1>13. /\ Sound(f[N], m, s) /\ f[N].open = c.open /\ Len(f[N].pending) = N - N
       /\ g[N] = [context |-> f[N], throws |-> FALSE]
  BY <1>12
<1> HIDE DEF good, bad
<1>14. f[N].pending = << >>
  <2>1. PICK p: p = f[N].pending OBVIOUS
  <2>2. p \in Seq(Nat) BY <1>13, <2>1, ContextIs DEF Sound
  <2>3. Len(p) = 0 BY <1>13, <2>1
  <2> QED BY <2>1, <2>2, <2>3
<1>15. logged[Len(c.pending)] = [context |-> ClosePending(c), throws |-> FALSE]
  BY <1>1, <1>3, <1>7, <1>8, <1>13
<1>16. ClosedLog(c, o) = logged[Len(c.pending)] BY DEF ClosedLog, logged, step2
<1> HIDE DEF logged
<1> QED BY <1>8, <1>13, <1>14, <1>15, <1>16
-----------------------------------------------------------------------------
(* What a change leaves as it was *)

\* The messages that were there stay, those that come have no calls.
Extends(d, c) ==
    /\ c.open \subseteq d.open
    /\ \A i \in DOMAIN c.history:
          /\ i \in DOMAIN d.history
          /\ d.history[i].kind = c.history[i].kind /\ d.history[i].id = c.history[i].id
          /\ d.history[i].calls = c.history[i].calls
    /\ \A i \in DOMAIN d.history: i \in DOMAIN c.history \/ d.history[i].calls = << >>

LEMMA ExtendsKeeps ==
    ASSUME NEW c, NEW d, Extends(d, c)
    PROVE  /\ \A s, calls: Opened(c, s, calls) => Opened(d, s, calls)
           /\ \A s: Bare(c, s) => Bare(d, s)
           /\ \A x: Answered(c.history, x) => Answered(d.history, x)
           /\ Settled(c) /\ (\A k \in DOMAIN c.pending:
                                \/ Answered(d.history, c.pending[k])
                                \/ \E l \in DOMAIN d.pending: d.pending[l] = c.pending[k])
              => Settled(d)
<1>1. \A i \in DOMAIN c.history:
         /\ i \in DOMAIN d.history
         /\ d.history[i].kind = c.history[i].kind /\ d.history[i].id = c.history[i].id
         /\ d.history[i].calls = c.history[i].calls
  BY DEF Extends
<1>2. \A i \in DOMAIN d.history: i \in DOMAIN c.history \/ DOMAIN d.history[i].calls = {}
  <2>1. DOMAIN << >> = {} OBVIOUS
  <2> QED BY <2>1 DEF Extends
<1>3. ASSUME NEW s, NEW calls, Opened(c, s, calls) PROVE Opened(d, s, calls)
  <2>1. s \in d.open BY <1>3 DEF Opened, Extends
  <2>2. \E i \in DOMAIN d.history: d.history[i].kind = "step" /\ d.history[i].id = s
    BY <1>1, <1>3 DEF Opened
  <2>3. ASSUME NEW i \in DOMAIN d.history, d.history[i].kind = "step", d.history[i].id = s,
               NEW k \in DOMAIN calls
        PROVE  ~Makes(d.history, i, calls[k])
    <3>1. CASE i \in DOMAIN c.history
      <4>1. ~Makes(c.history, i, calls[k]) BY <1>1, <1>3, <2>3, <3>1 DEF Opened
      <4> QED BY <1>1, <3>1, <4>1 DEF Makes
    <3>2. CASE i \notin DOMAIN c.history BY <1>2, <3>2 DEF Makes
    <3> QED BY <3>1, <3>2
  <2> QED BY <2>1, <2>2, <2>3 DEF Opened
<1>4. ASSUME NEW s, Bare(c, s) PROVE Bare(d, s) BY <1>1, <1>4 DEF Bare, Extends
<1>5. \A x: Answered(c.history, x) => Answered(d.history, x) BY <1>1 DEF Answered
<1>6. ASSUME Settled(c),
             \A k \in DOMAIN c.pending:
                \/ Answered(d.history, c.pending[k])
                \/ \E l \in DOMAIN d.pending: d.pending[l] = c.pending[k]
      PROVE  Settled(d)
  <2> SUFFICES ASSUME NEW i \in DOMAIN d.history, NEW n \in DOMAIN d.history[i].calls
               PROVE  \/ Answered(d.history, d.history[i].calls[n])
                      \/ \E k \in DOMAIN d.pending: d.pending[k] = d.history[i].calls[n]
                      \/ \E k \in DOMAIN d.history:
                            k > i /\ d.history[k].kind \in Incoming \cup {"summary"}
    BY DEF Settled
  <2>1. i \in DOMAIN c.history BY <1>2
  <2>2. PICK x: x = c.history[i].calls[n] OBVIOUS
  <2>3. d.history[i].calls[n] = x /\ n \in DOMAIN c.history[i].calls BY <1>1, <2>1, <2>2
  <2>4. \/ Answered(c.history, x)
        \/ \E k \in DOMAIN c.pending: c.pending[k] = x
        \/ \E k \in DOMAIN c.history: k > i /\ c.history[k].kind \in Incoming \cup {"summary"}
    BY <1>6, <2>1, <2>2, <2>3 DEF Settled
  <2> QED BY <1>1, <1>5, <1>6, <2>3, <2>4
<1> QED BY <1>3, <1>4, <1>5, <1>6

\* Contexts that are alike stay alike.
LEMMA AlikeStays ==
    ASSUME NEW c \in Contexts, NEW d \in Contexts, Alike(c, d)
    PROVE  /\ \A x: Alike(AppendMessage(c, x), AppendMessage(d, x))
           /\ \A t: Alike(AppendPart(c, t), AppendPart(d, t))
           /\ \A t, x: Alike(AppendCall(c, t, x), AppendCall(d, t, x))
           /\ \A x: Alike(AppendResult(c, x), AppendResult(d, x))
           /\ \A n: Undo(c, n) = Undo(d, n) /\ Compact(c, n) = Compact(d, n)
<1>1. PICK h, q, w, o, p: /\ h = c.history /\ q = c.pending /\ w = c.deferred
                          /\ o = c.open /\ p = d.open
  OBVIOUS
<1>2. /\ c = [history |-> h, open |-> o, pending |-> q, deferred |-> w]
      /\ d = [history |-> h, open |-> p, pending |-> q, deferred |-> w]
  BY <1>1, ContextIs DEF Alike
<1>3. d.history = h /\ d.pending = q /\ d.deferred = w BY <1>2
<1>5. ASSUME NEW x PROVE Alike(AppendMessage(c, x), AppendMessage(d, x))
  <2>1. CASE q = << >>
    <3>1. PICK y: y = << x >> OBVIOUS
    <3>2. AppendMessage(c, x) = Push(c, y) /\ AppendMessage(d, x) = Push(d, y)
      BY <1>1, <1>3, <2>1, <3>1 DEF AppendMessage
    <3>3. PICK g: g = h \o y OBVIOUS
    <3>4. Push(c, y) = [c EXCEPT !.history = g] BY <1>1, <3>3 DEF Push
    <3>5. Push(d, y) = [d EXCEPT !.history = g] BY <1>3, <3>3 DEF Push
    <3> QED BY <1>2, <3>2, <3>4, <3>5 DEF Alike
  <2>2. CASE q # << >>
    <3>1. PICK a: a = Append(w, x) OBVIOUS
    <3>2. /\ AppendMessage(c, x) = [c EXCEPT !.deferred = a]
          /\ AppendMessage(d, x) = [d EXCEPT !.deferred = a]
      BY <1>1, <1>3, <2>2, <3>1 DEF AppendMessage
    <3> QED BY <1>2, <3>2 DEF Alike
  <2> QED BY <2>1, <2>2
<1>6. ASSUME NEW t PROVE Alike(AppendPart(c, t), AppendPart(d, t))
  <2>1. StepAt(c, t) = StepAt(d, t) BY <1>1, <1>3 DEF StepAt
  <2>2. PICK g: g = [n \in DOMAIN h |->
                        IF n \in StepAt(c, t) THEN [h[n] EXCEPT !.text = TRUE] ELSE h[n]]
    OBVIOUS
  <2>3. AppendPart(c, t) = [c EXCEPT !.history = g] BY <1>1, <2>2 DEF AppendPart
  <2>4. AppendPart(d, t) = [d EXCEPT !.history = g] BY <1>3, <2>1, <2>2 DEF AppendPart
  <2> QED BY <1>2, <2>3, <2>4 DEF Alike
<1>7. ASSUME NEW t, NEW x PROVE Alike(AppendCall(c, t, x), AppendCall(d, t, x))
  <2>1. StepAt(c, t) = StepAt(d, t) BY <1>1, <1>3 DEF StepAt
  <2>2. PICK g: g = [n \in DOMAIN h |->
                        IF n \in StepAt(c, t) THEN [h[n] EXCEPT !.calls = Append(@, x)] ELSE h[n]]
    OBVIOUS
  <2>3. PICK a: a = Append(q, x) OBVIOUS
  <2>4. AppendCall(c, t, x) = [c EXCEPT !.pending = a, !.history = g]
    BY <1>1, <2>2, <2>3 DEF AppendCall
  <2>5. AppendCall(d, t, x) = [d EXCEPT !.pending = a, !.history = g]
    BY <1>3, <2>1, <2>2, <2>3 DEF AppendCall
  <2> QED BY <1>2, <2>4, <2>5, ZenonT(60) DEF Alike
<1>8. ASSUME NEW x PROVE Alike(AppendResult(c, x), AppendResult(d, x))
  <2>1. CASE \E n \in DOMAIN q: q[n] = x
    <3>1. PICK g, r: g = h \o << ResultOf(x) >> /\ r = RemoveFirst(q, x) OBVIOUS
    <3>2. PICK cc: cc = [history |-> g, open |-> o, pending |-> r, deferred |-> w] OBVIOUS
    <3>3. PICK dd: dd = [history |-> g, open |-> p, pending |-> r, deferred |-> w] OBVIOUS
    <3>4. [Push(c, << ResultOf(x) >>) EXCEPT !.pending = RemoveFirst(@, x)] = cc
      <4>1. PICK y: y = << ResultOf(x) >> OBVIOUS
      <4>2. Push(c, y) = [c EXCEPT !.history = g] BY <1>1, <3>1, <4>1 DEF Push
      <4>3. PICK e: e = Push(c, y) OBVIOUS
      <4>4. e = [history |-> g, open |-> o, pending |-> q, deferred |-> w]
        BY <1>2, <4>2, <4>3
      <4>5. e.pending = q BY <4>4
      <4>6. [e EXCEPT !.pending = RemoveFirst(@, x)] = [e EXCEPT !.pending = r]
        BY <3>1, <4>5
      <4>7. [e EXCEPT !.pending = r] = cc BY <3>2, <4>4
      <4> QED BY <4>1, <4>3, <4>6, <4>7
    <3>5. [Push(d, << ResultOf(x) >>) EXCEPT !.pending = RemoveFirst(@, x)] = dd
      <4>1. PICK y: y = << ResultOf(x) >> OBVIOUS
      <4>2. Push(d, y) = [d EXCEPT !.history = g] BY <1>3, <3>1, <4>1 DEF Push
      <4>3. PICK e: e = Push(d, y) OBVIOUS
      <4>4. e = [history |-> g, open |-> p, pending |-> q, deferred |-> w]
        BY <1>2, <4>2, <4>3
      <4>5. e.pending = q BY <4>4
      <4>6. [e EXCEPT !.pending = RemoveFirst(@, x)] = [e EXCEPT !.pending = r]
        BY <3>1, <4>5
      <4>7. [e EXCEPT !.pending = r] = dd BY <3>3, <4>4
      <4> QED BY <4>1, <4>3, <4>6, <4>7
    <3>6. AppendResult(c, x) = Flush(cc) BY <1>1, <2>1, <3>4 DEF AppendResult
    <3>7. AppendResult(d, x) = Flush(dd) BY <1>3, <2>1, <3>5 DEF AppendResult
    <3>8. Alike(Flush(cc), Flush(dd))
      <4>1. CASE r # << >>
        <5>1. Flush(cc) = cc /\ Flush(dd) = dd BY <3>2, <3>3, <4>1 DEF Flush
        <5> QED BY <3>2, <3>3, <5>1 DEF Alike
      <4>2. CASE r = << >>
        <5>1. PICK f: f = g \o w OBVIOUS
        <5>2. Push(cc, cc.deferred) = [cc EXCEPT !.history = f] BY <3>2, <5>1 DEF Push
        <5>3. Push(dd, dd.deferred) = [dd EXCEPT !.history = f] BY <3>3, <5>1 DEF Push
        <5>4. Flush(cc) = [[cc EXCEPT !.history = f] EXCEPT !.deferred = << >>]
          BY <3>2, <4>2, <5>2 DEF Flush
        <5>5. Flush(dd) = [[dd EXCEPT !.history = f] EXCEPT !.deferred = << >>]
          BY <3>3, <4>2, <5>3 DEF Flush
        <5> QED BY <3>2, <3>3, <5>4, <5>5 DEF Alike
      <4> QED BY <4>1, <4>2
    <3> QED BY <3>6, <3>7, <3>8
  <2>2. CASE ~ \E n \in DOMAIN q: q[n] = x
    BY <1>1, <1>3, <2>2 DEF AppendResult, Alike
  <2> QED BY <2>1, <2>2
<1>9. \A n: Undo(c, n) = Undo(d, n) BY <1>1, <1>3 DEF Undo
<1>10. \A n: Compact(c, n) = Compact(d, n) BY <1>1, <1>3 DEF Compact
<1> QED BY <1>5, <1>6, <1>7, <1>8, <1>9, <1>10
LEMMA Recorded ==
    ASSUME Agreed, NEW r, Do(r), ~Throws(log.context, r)
    PROVE  /\ context' = Apply(context, r) /\ log'.context = Apply(log.context, r)
           /\ log' = [context |-> log'.context, throws |-> FALSE]
<1>1. PICK c: c = log.context OBVIOUS
<1>2. log = [context |-> c, throws |-> FALSE] BY <1>1 DEF Agreed
<1>3. log' = Logged(log, r) /\ context' = Apply(context, r) BY DEF Do
<1>4. Logged(log, r) = [context |-> Apply(c, r), throws |-> FALSE]
  <2>1. log.context = c /\ log.throws = FALSE BY <1>1, <1>2
  <2>2. (log.throws \/ Throws(log.context, r)) = FALSE BY <2>1, Zenon
  <2>3. Logged(log, r) = [context |-> Apply(log.context, r),
                          throws |-> log.throws \/ Throws(log.context, r)]
    BY DEF Logged
  <2> QED BY <2>1, <2>2, <2>3, Zenon
<1> QED BY <1>1, <1>3, <1>4

\* A message came in.
LEMMA Received ==
    ASSUME Calm, IInv, NEW k \in Incoming, Receive(k)
    PROVE  /\ messages' = messages + 1 /\ messages' \in 0..MaxMessages
           /\ Sound(context', messages', steps) /\ Sound(log'.context, messages', steps)
           /\ context'.pending = context.pending /\ log'.context.pending = log.context.pending
           /\ Extends(context', context) /\ Extends(log'.context, log.context)
           /\ log' = [context |-> log'.context, throws |-> FALSE]
           /\ Alike(context, log.context) => Alike(context', log'.context)
           /\ context = log.context => context' = log'.context
           /\ Settled(context) => Settled(context')
           /\ context.pending = << >> => Settled(context')
<1>1. messages \in 0..MaxMessages /\ MaxMessages \in Nat /\ steps \in Nat
  BY DEF Calm, IInv, Counted
<1>2. PICK m \in Nat: m = messages BY <1>1
<1>3. PICK s \in Nat: s = steps BY <1>1
<1>4. messages' = m + 1 /\ m + 1 \in 0..MaxMessages /\ Do(Record(k, m + 1, 0))
  BY <1>1, <1>2 DEF Receive
<1>5. PICK n \in Nat: n = m + 1 OBVIOUS
<1>6. PICK x: x = Message(k, n) OBVIOUS
<1>7. /\ context' = AppendMessage(context, x) /\ log'.context = AppendMessage(log.context, x)
      /\ log' = [context |-> log'.context, throws |-> FALSE]
  <2>1. PICK r: r = Record(k, n, 0) OBVIOUS
  <2>2. /\ ~Throws(log.context, r) /\ Apply(context, r) = AppendMessage(context, x)
        /\ Apply(log.context, r) = AppendMessage(log.context, x)
    BY <1>6, <2>1, Applied
  <2>3. Do(r) /\ Agreed BY <1>4, <1>5, <2>1 DEF IInv
  <2> QED BY <2>2, <2>3, Recorded
<1>8. Sound(context, m, s) /\ Sound(log.context, m, s) BY <1>2, <1>3 DEF IInv
<1>9. ASSUME NEW c, Sound(c, m, s), NEW d, d = AppendMessage(c, x)
      PROVE  /\ Sound(d, n, s) /\ d.pending = c.pending /\ Extends(d, c)
             /\ Settled(c) => Settled(d)
             /\ c.pending = << >> => Settled(d)
  <2>1. /\ Sound(d, n, s) /\ d.pending = c.pending /\ d.open = c.open
        /\ c.pending = << >> => d.history = c.history \o << x >>
        /\ c.pending # << >> => d.history = c.history
    BY <1>5, <1>6, <1>9, SoundIncoming, SMTT(30)
  <2>2. PICK h: h = c.history OBVIOUS
  <2>3. h \in Seq(Items) /\ x \in Items /\ x.calls = << >> /\ x.kind = k
    BY <1>6, <1>9, <2>2, ContextIs, ItemsMade DEF Sound, Message
  <2>4. PICK g: g = d.history OBVIOUS
  <2>5. CASE c.pending = << >>
    <3>1. /\ DOMAIN g = DOMAIN h \cup {Len(h) + 1} /\ g[Len(h) + 1] = x
          /\ \A i \in DOMAIN h: g[i] = h[i] /\ i < Len(h) + 1
      <4>1. g = h \o << x >> BY <2>1, <2>2, <2>4, <2>5
      <4>2. g \in Seq(Items) /\ Len(g) = Len(h) + 1 /\ Len(h) \in Nat BY <2>3, <4>1
      <4>3. DOMAIN g = 1..Len(g) /\ DOMAIN h = 1..Len(h) BY <2>3, <4>2
      <4> QED BY <2>3, <4>1, <4>2, <4>3
    <3>2. Extends(d, c) BY <2>1, <2>2, <2>3, <2>4, <3>1 DEF Extends
    <3>3. Settled(d)
      <4> SUFFICES ASSUME NEW i \in DOMAIN g, NEW j \in DOMAIN g[i].calls
                   PROVE  \E l \in DOMAIN g: l > i /\ g[l].kind \in Incoming \cup {"summary"}
        BY <2>4 DEF Settled
      <4>1. DOMAIN << >> = {} OBVIOUS
      <4>2. i \in DOMAIN h BY <2>3, <3>1, <4>1
      <4>3. Len(h) + 1 > i
        <5>1. Len(h) \in Nat /\ DOMAIN h = 1..Len(h) BY <2>3
        <5> QED BY <4>2, <5>1
      <4> QED BY <2>3, <3>1, <4>3
    <3> QED BY <2>1, <3>2, <3>3
  <2>6. CASE c.pending # << >>
    <3>1. Extends(d, c) BY <2>1, <2>6 DEF Extends
    <3>2. Settled(c) => Settled(d) BY <2>1, <3>1, ExtendsKeeps
    <3> QED BY <2>1, <2>6, <3>1, <3>2
  <2>7. Settled(c) => Settled(d)
    <3>1. Extends(d, c) BY <2>5, <2>6
    <3> QED BY <2>1, <3>1, ExtendsKeeps
  <2> QED BY <2>1, <2>5, <2>6, <2>7
<1>10. Alike(context, log.context) => Alike(context', log'.context)
  <2>1. context \in Contexts /\ log.context \in Contexts BY <1>8 DEF Sound
  <2> QED BY <1>7, <2>1, AlikeStays
<1>11. /\ Sound(context', n, s) /\ context'.pending = context.pending
       /\ Extends(context', context) /\ (Settled(context) => Settled(context'))
       /\ (context.pending = << >> => Settled(context'))
  BY <1>7, <1>8, <1>9
<1>12. /\ Sound(log'.context, n, s) /\ log'.context.pending = log.context.pending
       /\ Extends(log'.context, log.context)
  BY <1>7, <1>8, <1>9
<1> QED BY <1>2, <1>3, <1>4, <1>5, <1>7, <1>10, <1>11, <1>12

\* The turn stays where it is, and the contexts only grow.
LEMMA TurnStays ==
    ASSUME TurnKept, UNCHANGED loop, steps' = steps,
           Extends(context', context), Extends(log'.context, log.context)
    PROVE  TurnKept'
<1>1. /\ turn' = turn /\ step' = step /\ todo' = todo /\ owed' = owed BY DEF loop
<1>2. Running => Opened(context', step, todo) /\ Opened(log'.context, step, todo)
  BY ExtendsKeeps DEF TurnKept
<1>3. turn = "streaming" => Bare(context', step) /\ Bare(log'.context, step)
  BY ExtendsKeeps DEF TurnKept
<1>4. /\ turn \in Phases
      /\ turn = "idle" => step = 0
      /\ turn = "between" => step \in 0..steps
      /\ Running => step = steps /\ steps # 0
      /\ todo \in Seq(Nat) /\ owed \in Seq(Nat)
      /\ turn # "calling" => todo = << >> /\ owed = << >>
      /\ Injective(todo)
      /\ \A k \in DOMAIN todo: \E p \in 1..MaxCalls: todo[k] = Call(step, p)
  BY DEF TurnKept
<1> QED BY <1>1, <1>2, <1>3, <1>4 DEF TurnKept, Running

\* The turn is over or between two steps.
LEMMA TurnRests ==
    ASSUME Counted, turn' \in {"idle", "between"}, steps' = steps,
           turn' = "idle" => step' = 0, turn' = "between" => step' \in 0..steps,
           todo' = << >>, owed' = << >>
    PROVE  TurnKept' /\ ~Running'
<1>1. << >> \in Seq(Nat) /\ DOMAIN << >> = {} OBVIOUS
<1>2. turn' \in Phases /\ ~Running' /\ turn' # "calling" /\ turn' # "streaming"
  BY DEF Phases, Running
<1> QED BY <1>1, <1>2 DEF TurnKept, Injective

LEMMA CoveredStays ==
    ASSUME Covered, UNCHANGED << summarized, steps >>, Running' => Running /\ step' = step
    PROVE  Covered'
BY DEF Covered, Compacting
-----------------------------------------------------------------------------
(* The invariant *)

LEMMA Initially == ASSUME Calm, Init PROVE IInv
<1>1. /\ context = Empty /\ log = [context |-> Empty, throws |-> FALSE] /\ log.context = Empty
      /\ life = "up" /\ turn = "idle" /\ step = 0 /\ todo = << >> /\ owed = << >>
      /\ summarized = NoSnapshot /\ worker = FALSE /\ unlogged = FALSE
      /\ messages = 0 /\ steps = 0 /\ undos = 0 /\ crashes = 0
  BY DEF Init
<1>2. Counted
  <2>1. \A n \in Nat: 0 \in 0..n OBVIOUS
  <2>2. /\ messages \in 0..MaxMessages /\ steps \in 0..MaxSteps
        /\ undos \in 0..MaxUndos /\ crashes \in 0..MaxCrashes
    BY <1>1, <2>1 DEF Calm
  <2> QED BY <1>1, <2>2 DEF Counted
<1>3. Sound(context, messages, steps) /\ Sound(log.context, messages, steps)
      /\ Empty.pending = << >>
  BY <1>1, SoundEmpty
<1>4. TurnKept
  <2>1. << >> \in Seq(Nat) /\ DOMAIN << >> = {} OBVIOUS
  <2> QED BY <1>1, <2>1 DEF TurnKept, Running, Phases, Injective
<1>5. Agreed BY <1>1, <1>3 DEF Agreed, Alike, Compacting
<1>6. Overtaken /\ Covered BY <1>1 DEF Overtaken, Covered, Compacting
<1> QED BY <1>2, <1>3, <1>4, <1>5, <1>6 DEF IInv

\* What a message that comes in leaves to be shown: where the turn is.
LEMMA Incomes ==
    ASSUME Calm, IInv, NEW k \in Incoming, Receive(k), life # "down",
           UNCHANGED << life, compaction, unlogged, steps, undos, crashes >>,
           \/ UNCHANGED loop
           \/ /\ life = "up" /\ turn = "idle"
              /\ turn' = "between" /\ UNCHANGED << step, todo, owed >>
    PROVE  IInv'
<1>1. /\ messages' = messages + 1 /\ messages' \in 0..MaxMessages
      /\ Sound(context', messages', steps) /\ Sound(log'.context, messages', steps)
      /\ context'.pending = context.pending /\ log'.context.pending = log.context.pending
      /\ Extends(context', context) /\ Extends(log'.context, log.context)
      /\ log' = [context |-> log'.context, throws |-> FALSE]
      /\ Alike(context, log.context) => Alike(context', log'.context)
      /\ context = log.context => context' = log'.context
      /\ Settled(context) => Settled(context')
      /\ context.pending = << >> => Settled(context')
  BY Received
<1>2. /\ life' = life /\ summarized' = summarized /\ worker' = worker /\ unlogged' = unlogged
      /\ steps' = steps /\ undos' = undos /\ crashes' = crashes /\ owed' = owed
      /\ Counted /\ TurnKept /\ Agreed /\ Overtaken /\ Covered
  BY DEF compaction, loop, IInv
<1>3. Counted' BY <1>1, <1>2 DEF Counted
<1>4. TurnKept'
  <2>1. CASE UNCHANGED loop BY <1>1, <1>2, <2>1, TurnStays
  <2>2. CASE turn = "idle" /\ turn' = "between" /\ UNCHANGED << step, todo, owed >>
    <3>1. step' = 0 /\ todo' = << >> /\ owed' = << >> /\ 0 \in 0..steps
      BY <1>2, <2>2 DEF TurnKept, Counted, Calm
    <3> QED BY <1>2, <2>2, <3>1, TurnRests
  <2> QED BY <2>1, <2>2
<1>5. Agreed'
  <2>1. life # "up" => life' # "up" /\ turn' = "idle" /\ ~Compacting' /\ ~unlogged'
    BY <1>2 DEF Agreed, Compacting, loop
  <2>2. life = "up" => context'.pending = owed' /\ log'.context.pending = owed'
    BY <1>1, <1>2 DEF Agreed
  <2>3. life = "up" /\ ~unlogged => Alike(context', log'.context) BY <1>1, <1>2 DEF Agreed
  <2>4. life = "resuming" => context' = log'.context BY <1>1, <1>2 DEF Agreed
  <2> QED BY <1>1, <1>2, <2>1, <2>2, <2>3, <2>4 DEF Agreed
<1>6. Overtaken'
  <2>1. CASE UNCHANGED loop BY <1>1, <1>2, <2>1 DEF Overtaken, loop
  <2>2. CASE life = "up" /\ turn = "idle"
    <3>1. context.pending = << >> BY <1>2, <2>2 DEF Agreed, TurnKept
    <3> QED BY <1>1, <3>1 DEF Overtaken
  <2> QED BY <2>1, <2>2
<1>7. Covered'
  <2>1. Running' => Running /\ step' = step BY DEF Running, loop
  <2> QED BY <1>2, <2>1, CoveredStays
<1> QED BY <1>1, <1>2, <1>3, <1>4, <1>5, <1>6, <1>7 DEF IInv
\* No exchange is open, in the context and in what the log restores.
LEMMA NothingOpen ==
    ASSUME IInv, life = "up", owed = << >>
    PROVE  /\ context.pending = << >> /\ log.context.pending = << >>
           /\ context.deferred = << >> /\ log.context.deferred = << >>
<1>1. context.pending = << >> /\ log.context.pending = << >> BY DEF IInv, Agreed
<1> QED BY <1>1, SoundClosed DEF IInv

\* The counters are numbers, and what is sound is sound for them.
LEMMA Parts ==
    ASSUME Calm, IInv
    PROVE  /\ Counted /\ TurnKept /\ Agreed /\ Overtaken /\ Covered
           /\ messages \in Nat /\ steps \in Nat /\ MaxSteps \in Nat /\ MaxCalls \in Nat
           /\ Sound(context, messages, steps) /\ Sound(log.context, messages, steps)
           /\ context \in Contexts /\ log.context \in Contexts
           /\ History(context.history, messages, steps)
           /\ log = [context |-> log.context, throws |-> FALSE]
           /\ step \in Nat
<1>1. /\ Counted /\ TurnKept /\ Agreed /\ Overtaken /\ Covered
      /\ Sound(context, messages, steps) /\ Sound(log.context, messages, steps)
  BY DEF IInv
<1>2. messages \in Nat /\ steps \in Nat /\ MaxSteps \in Nat /\ MaxCalls \in Nat
  BY <1>1 DEF Counted, Calm
<1>3. step \in Nat
  <2>1. turn \in {"idle", "between"} \/ Running BY <1>1 DEF TurnKept, Phases, Running
  <2> QED BY <1>1, <1>2, <2>1 DEF TurnKept
<1> QED BY <1>1, <1>2, <1>3 DEF Sound, Agreed

LEMMA ActBegin == ASSUME Calm, IInv, Begin PROVE IInv'
<1>1. /\ Counted /\ TurnKept /\ Agreed /\ Overtaken /\ Covered
      /\ messages \in Nat /\ steps \in Nat /\ MaxSteps \in Nat
      /\ Sound(context, messages, steps) /\ Sound(log.context, messages, steps)
  BY Parts
<1>2. PICK m \in Nat: m = messages BY <1>1
<1>3. PICK s \in Nat: s = steps BY <1>1
<1>4. PICK t \in Nat: t = s + 1 /\ ~(t <= s) /\ s <= t /\ t # 0 OBVIOUS
<1>5. /\ life = "up" /\ turn = "between" /\ s < MaxSteps /\ steps' = t /\ step' = t
      /\ Do(Record("begin", t, 0)) /\ turn' = "streaming"
      /\ life' = life /\ todo' = todo /\ owed' = owed /\ summarized' = summarized
      /\ worker' = worker /\ unlogged' = unlogged /\ messages' = messages
      /\ undos' = undos /\ crashes' = crashes
  BY <1>3, <1>4 DEF Begin, compaction
<1>6. todo = << >> /\ owed = << >> BY <1>1, <1>5 DEF TurnKept
<1>7. /\ context.pending = << >> /\ log.context.pending = << >>
      /\ context.deferred = << >> /\ log.context.deferred = << >>
  BY <1>5, <1>6, NothingOpen
<1>8. /\ context' = BeginStep(context, t) /\ log'.context = BeginStep(log.context, t)
      /\ log' = [context |-> log'.context, throws |-> FALSE]
  <2>1. PICK r: r = Record("begin", t, 0) OBVIOUS
  <2>2. /\ ~Throws(log.context, r) /\ Apply(context, r) = BeginStep(context, t)
        /\ Apply(log.context, r) = BeginStep(log.context, t)
    BY <2>1, Applied
  <2> QED BY <1>1, <1>5, <2>1, <2>2, Recorded
<1>9. ASSUME NEW c, Sound(c, m, s), c.pending = << >>, NEW d, d = BeginStep(c, t)
      PROVE  /\ Sound(d, m, t) /\ d.pending = << >> /\ d.deferred = << >>
             /\ d.history = c.history \o << StepMessage(t) >>
             /\ Opened(d, t, << >>) /\ Bare(d, t)
             /\ Settled(c) => Settled(d)
  <2>1. /\ Sound(d, m, t) /\ d.pending = << >>
        /\ d.history = c.history \o << StepMessage(t) >> /\ d.open = c.open \cup {t}
    <3>1. d = BeginStep(c, s + 1) /\ t = s + 1 BY <1>4, <1>9
    <3>2. Sound(c, m, s) /\ c.pending = << >> BY <1>9
    <3>3. LET e == BeginStep(c, s + 1)
          IN  /\ Sound(e, m, s + 1) /\ e.pending = << >>
              /\ e.history = c.history \o << StepMessage(s + 1) >>
              /\ e.open = c.open \cup {s + 1}
      BY <3>2, SoundBegin, Zenon
    <3> QED BY <3>1, <3>3, Zenon
  <2>2. d.deferred = << >> BY <2>1, SoundClosed
  <2>3. PICK h, g: h = c.history /\ g = d.history OBVIOUS
  <2>4. PICK x: x = StepMessage(t) OBVIOUS
  <2>5. /\ h \in Seq(Items) /\ History(h, m, s)
        /\ x \in Items /\ x.kind = "step" /\ x.id = t /\ x.calls = << >>
    BY <1>9, <2>3, <2>4, ContextIs, ItemsMade DEF Sound, StepMessage
  <2>6. /\ DOMAIN g = DOMAIN h \cup {Len(h) + 1} /\ g[Len(h) + 1] = x
        /\ \A i \in DOMAIN h: g[i] = h[i]
    <3>1. g = h \o << x >> BY <2>1, <2>3, <2>4
    <3>2. g \in Seq(Items) /\ Len(g) = Len(h) + 1 /\ Len(h) \in Nat BY <2>5, <3>1
    <3>3. DOMAIN g = 1..Len(g) /\ DOMAIN h = 1..Len(h) BY <2>5, <3>2
    <3> QED BY <2>5, <3>1, <3>2, <3>3
  <2>7. \A i \in DOMAIN h: h[i].kind = "step" => h[i].id # t
    <3>1. Numbered(h, m, s) BY <2>5 DEF History
    <3> QED BY <1>4, <3>1 DEF Numbered
  <2>8. DOMAIN << >> = {} OBVIOUS
  <2>9. Opened(d, t, << >>) BY <2>1, <2>3, <2>5, <2>6, <2>8 DEF Opened
  <2>10. Bare(d, t) BY <2>3, <2>5, <2>6, <2>7 DEF Bare
  <2>11. Extends(d, c) BY <2>1, <2>3, <2>5, <2>6 DEF Extends
  <2>12. Settled(c) => Settled(d) BY <1>9, <2>8, <2>11, ExtendsKeeps
  <2> QED BY <2>1, <2>2, <2>9, <2>10, <2>12
<1>10. /\ Sound(context', m, t) /\ context'.pending = << >> /\ context'.deferred = << >>
       /\ context'.history = context.history \o << StepMessage(t) >>
       /\ Opened(context', t, << >>) /\ Bare(context', t)
       /\ Settled(context) => Settled(context')
  BY <1>1, <1>2, <1>3, <1>7, <1>8, <1>9
<1>11. /\ Sound(log'.context, m, t) /\ log'.context.pending = << >>
       /\ log'.context.deferred = << >>
       /\ log'.context.history = log.context.history \o << StepMessage(t) >>
       /\ Opened(log'.context, t, << >>) /\ Bare(log'.context, t)
  BY <1>1, <1>2, <1>3, <1>7, <1>8, <1>9
<1>12. Counted'
  <2>1. t \in 0..MaxSteps BY <1>1, <1>4, <1>5
  <2> QED BY <1>1, <1>5, <2>1 DEF Counted
<1>13. TurnKept'
  <2>1. << >> \in Seq(Nat) /\ DOMAIN << >> = {} OBVIOUS
  <2>2. turn' \in Phases /\ turn' # "idle" /\ turn' # "between" /\ turn' # "calling"
    BY <1>5 DEF Phases
  <2> QED BY <1>4, <1>5, <1>6, <1>10, <1>11, <2>1, <2>2 DEF TurnKept, Injective
<1>14. Agreed'
  <2>1. ~unlogged' => Alike(context', log'.context)
    BY <1>1, <1>5, <1>10, <1>11 DEF Agreed, Alike
  <2>2. life' = "up" BY <1>5
  <2> QED BY <1>5, <1>6, <1>8, <1>10, <1>11, <2>1, <2>2 DEF Agreed
<1>15. Overtaken' BY <1>1, <1>5, <1>10 DEF Overtaken
<1>16. Covered'
  <2>1. Compacting' => summarized \in Seq(Items) BY <1>1, <1>5 DEF Covered, Compacting
  <2>2. ASSUME Compacting', NEW n \in DOMAIN summarized, summarized[n].kind = "step"
        PROVE  summarized[n].id <= t /\ summarized[n].id # t
    <3>1. summarized[n].id <= s BY <1>1, <1>3, <1>5, <2>2 DEF Covered, Compacting
    <3>2. summarized[n] \in Items BY <2>1, <2>2
    <3>3. PICK j \in Nat: j = summarized[n].id BY <3>2, ItemIs
    <3> QED BY <1>4, <3>1, <3>3
  <2> QED BY <1>5, <2>1, <2>2 DEF Covered
<1> QED BY <1>2, <1>5, <1>10, <1>11, <1>12, <1>13, <1>14, <1>15, <1>16 DEF IInv

LEMMA ActPart == ASSUME Calm, IInv, Part PROVE IInv'
<1>1. /\ Counted /\ TurnKept /\ Agreed /\ Overtaken /\ Covered
      /\ messages \in Nat /\ steps \in Nat /\ step \in Nat
      /\ Sound(context, messages, steps) /\ Sound(log.context, messages, steps)
      /\ context \in Contexts /\ log.context \in Contexts
  BY Parts
<1>2. PICK m \in Nat: m = messages BY <1>1
<1>3. PICK s \in Nat: s = steps BY <1>1
<1>4. PICK t \in Nat: t = step BY <1>1
<1>5. PICK r: r = Record("part", t, 0) OBVIOUS
<1>6. /\ life = "up" /\ turn = "streaming" /\ Do(r)
      /\ IF Throws(context, r) THEN EndTurn ELSE UNCHANGED loop
      /\ life' = life /\ summarized' = summarized /\ worker' = worker
      /\ unlogged' = unlogged /\ messages' = messages /\ steps' = steps
      /\ undos' = undos /\ crashes' = crashes
  BY <1>4, <1>5 DEF Part, compaction, counters
<1>7. t \in context.open /\ t \in log.context.open
  BY <1>1, <1>4, <1>6 DEF TurnKept, Running, Opened
<1>8. /\ ~Throws(context, r) /\ ~Throws(log.context, r)
      /\ Apply(context, r) = AppendPart(context, t)
      /\ Apply(log.context, r) = AppendPart(log.context, t)
  BY <1>5, <1>7, Applied
<1>9. /\ context' = AppendPart(context, t) /\ log'.context = AppendPart(log.context, t)
      /\ log' = [context |-> log'.context, throws |-> FALSE]
  BY <1>1, <1>6, <1>8, Recorded
<1>10. /\ UNCHANGED loop /\ turn' = turn /\ step' = step /\ todo' = todo /\ owed' = owed
  BY <1>6, <1>8 DEF loop
<1>11. ASSUME NEW c, Sound(c, m, s), NEW d, d = AppendPart(c, t)
       PROVE  Sound(d, m, s) /\ d.pending = c.pending /\ Extends(d, c)
  <2>1. /\ Sound(d, m, s) /\ d.pending = c.pending /\ d.open = c.open
        /\ DOMAIN d.history = DOMAIN c.history
        /\ \A i \in DOMAIN c.history:
              /\ d.history[i].kind = c.history[i].kind
              /\ d.history[i].id = c.history[i].id
              /\ d.history[i].calls = c.history[i].calls
    BY <1>11, SoundPart
  <2> QED BY <2>1 DEF Extends
<1>12. /\ Sound(context', m, s) /\ context'.pending = context.pending
       /\ Extends(context', context)
  BY <1>1, <1>2, <1>3, <1>9, <1>11
<1>13. /\ Sound(log'.context, m, s) /\ log'.context.pending = log.context.pending
       /\ Extends(log'.context, log.context)
  BY <1>1, <1>2, <1>3, <1>9, <1>11
<1>14. Counted' BY <1>1, <1>6 DEF Counted
<1>15. TurnKept' BY <1>1, <1>6, <1>10, <1>12, <1>13, TurnStays
<1>16. Agreed'
  <2>1. ~unlogged' => Alike(context', log'.context)
    BY <1>1, <1>6, <1>9, AlikeStays DEF Agreed
  <2>2. life' = "up" BY <1>6
  <2> QED BY <1>1, <1>6, <1>9, <1>10, <1>12, <1>13, <2>1, <2>2 DEF Agreed
<1>17. Overtaken'
  <2>1. Settled(context) BY <1>1, <1>6 DEF Overtaken
  <2>2. Settled(context') BY <1>12, <2>1, ExtendsKeeps
  <2> QED BY <2>2 DEF Overtaken
<1>18. Covered'
  <2>1. Running' => Running /\ step' = step BY <1>10 DEF Running
  <2> QED BY <1>1, <1>6, <2>1, CoveredStays
<1> QED BY <1>2, <1>3, <1>6, <1>12, <1>13, <1>14, <1>15, <1>16, <1>17, <1>18 DEF IInv
LEMMA ActRespond == ASSUME Calm, IInv, Respond PROVE IInv'
<1>1. /\ Counted /\ TurnKept /\ Agreed /\ Overtaken /\ Covered
      /\ step \in Nat /\ MaxCalls \in Nat
      /\ Sound(context, messages, steps) /\ Sound(log.context, messages, steps)
  BY Parts
<1>2. PICK t \in Nat: t = step BY <1>1
<1>3. PICK n \in 0..MaxCalls: todo' = [k \in 1..n |-> Call(t, k)] BY <1>2 DEF Respond
<1>4. PICK q: q = todo' OBVIOUS
<1>5. /\ life = "up" /\ turn = "streaming" /\ turn' = "calling"
      /\ context' = context /\ log' = log /\ life' = life /\ step' = step /\ owed' = owed
      /\ summarized' = summarized /\ worker' = worker /\ unlogged' = unlogged
      /\ messages' = messages /\ steps' = steps /\ undos' = undos /\ crashes' = crashes
  BY DEF Respond, compaction, counters
<1>6. /\ DOMAIN q = 1..n /\ n \in Nat /\ \A k \in 1..n: q[k] = Call(t, k) /\ k \in 1..MaxCalls
  BY <1>1, <1>3, <1>4
<1>7. /\ q \in Seq(Nat) /\ Injective(q)
      /\ \A k \in DOMAIN q: \E p \in 1..MaxCalls: q[k] = Call(t, p)
  <2>1. \A k \in 1..n: q[k] \in Nat
    <3> TAKE k \in 1..n
    <3>1. k \in 1..MaxCalls /\ q[k] = Call(t, k) BY <1>6
    <3> QED BY <1>1, <3>1, CallsApart
  <2>2. q \in Seq(Nat)
    <3>1. q = [k \in 1..n |-> q[k]] BY <1>3, <1>4, <1>6
    <3>2. q \in [1..n -> Nat] BY <2>1, <3>1
    <3> QED BY <1>6, <3>2
  <2>3. \A i, j \in 1..n: q[i] = q[j] => i = j
    <3> SUFFICES ASSUME NEW i \in 1..n, NEW j \in 1..n, q[i] = q[j] PROVE i = j OBVIOUS
    <3>1. i \in 1..MaxCalls /\ j \in 1..MaxCalls /\ Call(t, i) = Call(t, j) BY <1>6
    <3> QED BY <1>1, <3>1, CallsApart
  <2> QED BY <1>6, <2>2, <2>3 DEF Injective
<1>8. ASSUME NEW c, Opened(c, t, todo), Bare(c, t) PROVE Opened(c, t, q)
  <2>1. DOMAIN << >> = {} OBVIOUS
  <2>2. \A i \in DOMAIN c.history:
           c.history[i].kind = "step" /\ c.history[i].id = t =>
              \A k \in DOMAIN q: ~Makes(c.history, i, q[k])
    BY <1>8, <2>1 DEF Bare, Makes
  <2> QED BY <1>8, <2>2 DEF Opened
<1>9. Counted' BY <1>1, <1>5 DEF Counted
<1>10. TurnKept'
  <2>1. Opened(context, t, q) /\ Opened(log.context, t, q)
    BY <1>1, <1>2, <1>5, <1>8 DEF TurnKept, Running
  <2>2. step = steps /\ steps # 0 /\ owed \in Seq(Nat)
    BY <1>1, <1>5 DEF TurnKept, Running
  <2>3. turn' \in Phases BY <1>5 DEF Phases
  <2> QED BY <1>2, <1>4, <1>5, <1>7, <2>1, <2>2, <2>3 DEF TurnKept
<1>11. Agreed' BY <1>1, <1>5 DEF Agreed
<1>12. Overtaken' BY <1>1, <1>5 DEF Overtaken
<1>13. Covered'
  <2>1. Running' => Running /\ step' = step BY <1>5 DEF Running
  <2> QED BY <1>1, <1>5, <2>1, CoveredStays
<1> QED BY <1>1, <1>5, <1>9, <1>10, <1>11, <1>12, <1>13 DEF IInv

\* A turn that owes nothing ends, or gets between two steps; some steps that
\* were open no longer are.
LEMMA Rests ==
    ASSUME Calm, IInv, life = "up", turn # "idle", owed = << >>,
           UNCHANGED << life, compaction, unlogged, counters >>,
           \/ turn' = "idle" /\ step' = 0
           \/ turn' = "between" /\ step' = step,
           todo' = << >>, owed' = << >>,
           log' = [context |-> log'.context, throws |-> FALSE],
           Sound(context', messages, steps), Sound(log'.context, messages, steps),
           context'.pending = << >>, log'.context.pending = << >>,
           ~unlogged => Alike(context', log'.context),
           context'.history = context.history \/ turn' = "idle"
    PROVE  IInv'
<1>1. /\ Counted /\ TurnKept /\ Agreed /\ Overtaken /\ Covered
      /\ messages \in Nat /\ steps \in Nat
  BY Parts
<1>2. /\ life' = life /\ summarized' = summarized /\ worker' = worker
      /\ unlogged' = unlogged /\ messages' = messages /\ steps' = steps
      /\ undos' = undos /\ crashes' = crashes
  BY DEF compaction, counters
<1>3. Counted' BY <1>1, <1>2 DEF Counted
<1>4. TurnKept' /\ ~Running'
  <2>1. step \in 0..steps \/ turn' = "idle"
    <3>1. turn = "between" \/ Running BY <1>1 DEF TurnKept, Phases, Running
    <3> QED BY <1>1, <3>1 DEF TurnKept
  <2> QED BY <1>1, <1>2, <2>1, TurnRests
<1>5. Agreed' BY <1>2 DEF Agreed
<1>6. Overtaken'
  <2>1. CASE turn' = "idle" BY <2>1 DEF Overtaken
  <2>2. CASE context'.history = context.history
    <3>1. Settled(context) BY <1>1 DEF Overtaken
    <3>2. context.pending = << >> /\ DOMAIN << >> = {} BY NothingOpen
    <3>3. Settled(context') BY <2>2, <3>1, <3>2 DEF Settled
    <3> QED BY <3>3 DEF Overtaken
  <2> QED BY <2>1, <2>2
<1>7. Covered' BY <1>1, <1>2, <1>4, CoveredStays
<1> QED BY <1>2, <1>3, <1>4, <1>5, <1>6, <1>7 DEF IInv

LEMMA ActStepFails == ASSUME Calm, IInv, StepFails PROVE IInv'
<1>1. /\ Counted /\ TurnKept /\ Agreed
      /\ Sound(context, messages, steps) /\ Sound(log.context, messages, steps)
  BY Parts
<1>2. /\ life = "up" /\ turn = "streaming" /\ turn' = "idle" /\ step' = 0
      /\ todo' = << >> /\ owed' = << >> /\ context' = context /\ log' = log
      /\ UNCHANGED << life, compaction, unlogged, counters >>
  BY DEF StepFails, EndTurn
<1>3. turn # "idle" /\ turn # "calling" BY <1>2
<1>4. owed = << >> BY <1>1, <1>3 DEF TurnKept
<1>5. context.pending = << >> /\ log.context.pending = << >> BY <1>2, <1>4, NothingOpen
<1>6. ~unlogged => Alike(context, log.context) BY <1>1, <1>2 DEF Agreed
<1>7. log = [context |-> log.context, throws |-> FALSE] BY <1>1 DEF Agreed
<1> QED BY <1>1, <1>2, <1>3, <1>4, <1>5, <1>6, <1>7, Rests

LEMMA ActFinish == ASSUME Calm, IInv, Finish PROVE IInv'
<1>1. /\ Counted /\ TurnKept /\ Agreed /\ step \in Nat /\ steps \in Nat
      /\ Sound(context, messages, steps) /\ Sound(log.context, messages, steps)
  BY Parts
<1>2. /\ life = "up" /\ turn = "calling" /\ todo = << >> /\ owed = << >>
      /\ UNCHANGED << life, compaction, unlogged, counters >> /\ turn # "idle"
  BY DEF Finish
<1>3. context.pending = << >> /\ log.context.pending = << >> BY <1>2, NothingOpen
<1>4. ~unlogged => Alike(context, log.context) BY <1>1, <1>2 DEF Agreed
<1>5. log = [context |-> log.context, throws |-> FALSE] BY <1>1 DEF Agreed
<1>6. CASE EndTurn /\ UNCHANGED << context, log >>
  <2>1. /\ turn' = "idle" /\ step' = 0 /\ todo' = << >> /\ owed' = << >>
        /\ context' = context /\ log' = log
    BY <1>6 DEF EndTurn
  <2> QED BY <1>1, <1>2, <1>3, <1>4, <1>5, <2>1, Rests
<1>7. CASE /\ Do(Record("end", step, 0))
           /\ \/ turn' = "between" /\ UNCHANGED << step, todo, owed >>
              \/ EndTurn
  <2>1. PICK t \in Nat: t = step BY <1>1
  <2>2. PICK r: r = Record("end", t, 0) OBVIOUS
  <2>3. /\ ~Throws(log.context, r) /\ Apply(context, r) = EndStep(context, t)
        /\ Apply(log.context, r) = EndStep(log.context, t)
    BY <2>2, Applied
  <2>4. /\ context' = EndStep(context, t) /\ log'.context = EndStep(log.context, t)
        /\ log' = [context |-> log'.context, throws |-> FALSE]
    BY <1>1, <1>7, <2>1, <2>2, <2>3, Recorded
  <2>5. ASSUME NEW c, Sound(c, messages, steps), c.pending = << >>, NEW d, d = EndStep(c, t)
        PROVE  /\ Sound(d, messages, steps) /\ d.pending = << >>
               /\ d.history = c.history /\ d.deferred = << >>
    <3>1. PICK o: o = c.open \ {t} OBVIOUS
    <3>2. c \in Contexts /\ c.open \subseteq 1..steps BY <2>5 DEF Sound
    <3>3. d = [c EXCEPT !.open = @ \ {t}] /\ c.deferred = << >> BY <2>5, SoundClosed
    <3>4. d = [c EXCEPT !.open = o] BY <3>1, <3>3
    <3>5. o \in SUBSET (1..steps) BY <3>1, <3>2
    <3>6. Sound(d, messages, steps) BY <1>1, <2>5, <3>4, <3>5, SoundOpen, SMTT(30)
    <3>7. PICK h, q, w, p: h = c.history /\ q = c.pending /\ w = c.deferred /\ p = c.open OBVIOUS
    <3>8. c = [history |-> h, open |-> p, pending |-> q, deferred |-> w]
      BY <3>2, <3>7, ContextIs
    <3>9. d = [history |-> h, open |-> o, pending |-> q, deferred |-> w] BY <3>4, <3>8
    <3> QED BY <2>5, <3>3, <3>6, <3>7, <3>9
  <2>6. /\ Sound(context', messages, steps) /\ context'.pending = << >>
        /\ context'.history = context.history /\ context'.deferred = << >>
    BY <1>1, <1>3, <2>4, <2>5
  <2>7. /\ Sound(log'.context, messages, steps) /\ log'.context.pending = << >>
        /\ log'.context.history = log.context.history /\ log'.context.deferred = << >>
    BY <1>1, <1>3, <2>4, <2>5
  <2>8. ~unlogged => Alike(context', log'.context) BY <1>4, <2>6, <2>7 DEF Alike
  <2>9. /\ (turn' = "idle" /\ step' = 0) \/ (turn' = "between" /\ step' = step)
        /\ todo' = << >> /\ owed' = << >>
    BY <1>2, <1>7 DEF EndTurn
  <2> QED BY <1>2, <2>4, <2>6, <2>7, <2>8, <2>9, Rests
<1> QED BY <1>6, <1>7 DEF Finish
LEMMA ActRecordCall == ASSUME Calm, IInv, RecordCall PROVE IInv'
<1>1. /\ Counted /\ TurnKept /\ Agreed /\ Overtaken /\ Covered
      /\ messages \in Nat /\ steps \in Nat /\ step \in Nat /\ MaxCalls \in Nat
      /\ Sound(context, messages, steps) /\ Sound(log.context, messages, steps)
      /\ context \in Contexts /\ log.context \in Contexts
  BY Parts
<1>2. PICK m \in Nat: m = messages BY <1>1
<1>3. PICK s \in Nat: s = steps BY <1>1
<1>4. PICK t \in Nat: t = step BY <1>1
<1>5. PICK q: q = todo OBVIOUS
<1>6. PICK b: b = owed OBVIOUS
<1>7. PICK call: call = Head(q) OBVIOUS
<1>8. PICK r: r = Record("call", t, call) OBVIOUS
<1>9. /\ life = "up" /\ turn = "calling" /\ q # << >> /\ Do(r)
      /\ IF Throws(context, r) THEN EndTurn
         ELSE /\ todo' = Tail(q) /\ owed' = Append(b, call)
              /\ turn' = turn /\ step' = step
      /\ life' = life /\ summarized' = summarized /\ worker' = worker
      /\ unlogged' = unlogged /\ messages' = messages /\ steps' = steps
      /\ undos' = undos /\ crashes' = crashes
  BY <1>4, <1>5, <1>6, <1>7, <1>8 DEF RecordCall, compaction, counters
<1>10. /\ q \in Seq(Nat) /\ b \in Seq(Nat) /\ Injective(q)
       /\ \A k \in DOMAIN q: \E p \in 1..MaxCalls: q[k] = Call(t, p)
       /\ Opened(context, t, q) /\ Opened(log.context, t, q)
       /\ step = steps /\ steps # 0
  BY <1>1, <1>4, <1>5, <1>6, <1>9 DEF TurnKept, Running
<1>11. /\ 1 \in DOMAIN q /\ q[1] = call /\ Tail(q) \in Seq(Nat) /\ call \in Nat
       /\ \A k \in DOMAIN Tail(q): k + 1 \in DOMAIN q /\ Tail(q)[k] = q[k + 1] /\ k + 1 # 1
                                   /\ k \in Nat
  <2>1. /\ Tail(q) \in Seq(Nat) /\ Len(Tail(q)) = Len(q) - 1 /\ call \in Nat
        /\ \A i \in 1..Len(Tail(q)): Tail(q)[i] = q[i + 1]
    BY <1>7, <1>9, <1>10, HeadTailProperties
  <2>2. Len(q) \in Nat /\ Len(q) # 0 /\ DOMAIN q = 1..Len(q) BY <1>9, <1>10
  <2>3. DOMAIN Tail(q) = 1..Len(Tail(q)) BY <2>1
  <2>4. call = q[1] BY <1>7, <1>9, <1>10
  <2> QED BY <2>1, <2>2, <2>3, <2>4
<1>12. PICK p \in 1..MaxCalls: call = Call(t, p) BY <1>10, <1>11
<1>13. /\ ~Throws(context, r) /\ ~Throws(log.context, r)
       /\ Apply(context, r) = AppendCall(context, t, call)
       /\ Apply(log.context, r) = AppendCall(log.context, t, call)
  <2>1. t \in context.open /\ t \in log.context.open BY <1>10 DEF Opened
  <2> QED BY <1>8, <2>1, Applied
<1>14. /\ context' = AppendCall(context, t, call) /\ log'.context = AppendCall(log.context, t, call)
       /\ log' = [context |-> log'.context, throws |-> FALSE]
  BY <1>1, <1>9, <1>13, Recorded
<1>15. todo' = Tail(q) /\ owed' = Append(b, call) /\ turn' = turn /\ step' = step
  BY <1>9, <1>13
<1>16. ASSUME NEW c, Sound(c, m, s), Opened(c, t, q), NEW d, d = AppendCall(c, t, call)
       PROVE  /\ Sound(d, m, s) /\ d.pending = Append(c.pending, call)
              /\ Opened(d, t, Tail(q))
              /\ Settled(c) => Settled(d)
  <2>3. /\ Sound(d, m, s) /\ d.pending = Append(c.pending, call) /\ d.open = c.open
        /\ DOMAIN d.history = DOMAIN c.history
        /\ \A x: Answered(d.history, x) <=> Answered(c.history, x)
        /\ \A i \in DOMAIN c.history:
              /\ d.history[i].kind = c.history[i].kind
              /\ d.history[i].id = c.history[i].id
              /\ d.history[i].calls =
                    IF c.history[i].kind = "step" /\ c.history[i].id = t
                    THEN Append(c.history[i].calls, call) ELSE c.history[i].calls
    <3>1. Sound(c, m, s) /\ MaxCalls \in Nat /\ call = Call(t, p) /\ p \in 1..MaxCalls
      BY <1>1, <1>12, <1>16
    <3>2. 1 \in DOMAIN q /\ q[1] = call BY <1>11
    <3>3. Opened(c, t, q) /\ d = AppendCall(c, t, call) BY <1>16
    <3>4. Sound(d, m, s) /\ Gets(c, d, t, call) BY <1>2, <1>3, <1>4, <3>1, <3>2, <3>3, SoundCall
    <3> QED BY <3>4 DEF Gets
  <2>4. c.pending \in Seq(Nat) /\ c.history \in Seq(Items)
    BY <1>16, ContextIs DEF Sound
  <2>5. \A i \in DOMAIN c.history: \A n \in DOMAIN d.history[i].calls:
           d.history[i].calls[n] = call
           \/ (n \in DOMAIN c.history[i].calls
               /\ d.history[i].calls[n] = c.history[i].calls[n])
    <3> TAKE i \in DOMAIN c.history
    <3> TAKE n \in DOMAIN d.history[i].calls
    <3>1. PICK w: w = c.history[i].calls OBVIOUS
    <3>2. PICK v: v = d.history[i].calls OBVIOUS
    <3>3. c.history[i] \in Items BY <2>4
    <3>4. w \in Seq(Nat) BY <3>1, <3>3, ItemIs
    <3>5. v = w \/ v = Append(w, call) BY <2>3, <3>1, <3>2
    <3>6. CASE v = w BY <3>1, <3>2, <3>6
    <3>7. CASE v = Append(w, call)
      <4>1. /\ Len(v) = Len(w) + 1 /\ Len(w) \in Nat /\ DOMAIN w = 1..Len(w)
            /\ \A j \in 1..Len(w): v[j] = w[j]
        BY <1>11, <3>4, <3>7
      <4>2. v[Len(w) + 1] = call BY <1>11, <3>4, <3>7
      <4>3. v \in Seq(Nat) BY <1>11, <3>4, <3>7
      <4>4. DOMAIN v = 1..Len(v) BY <4>3
      <4>5. n \in 1..Len(w) \/ n = Len(w) + 1 BY <3>2, <4>1, <4>4
      <4> QED BY <3>1, <3>2, <4>1, <4>2, <4>5
    <3> QED BY <3>5, <3>6, <3>7
  <2>6. Opened(d, t, Tail(q))
    <3>1. \A k \in DOMAIN Tail(q): Tail(q)[k] # call
      BY <1>10, <1>11 DEF Injective
    <3>2. ASSUME NEW i \in DOMAIN d.history, d.history[i].kind = "step", d.history[i].id = t,
                 NEW k \in DOMAIN Tail(q)
          PROVE  ~Makes(d.history, i, Tail(q)[k])
      <4>1. ~Makes(c.history, i, Tail(q)[k])
        <5>1. k + 1 \in DOMAIN q /\ Tail(q)[k] = q[k + 1] BY <1>11
        <5>2. c.history[i].kind = "step" /\ c.history[i].id = t /\ i \in DOMAIN c.history
          BY <2>3, <3>2
        <5> QED BY <1>16, <5>1, <5>2 DEF Opened
      <4>2. \A n \in DOMAIN d.history[i].calls: d.history[i].calls[n] # Tail(q)[k]
        BY <2>3, <2>5, <3>1, <3>2, <4>1 DEF Makes
      <4> QED BY <4>2 DEF Makes
    <3>3. t \in d.open /\ \E i \in DOMAIN d.history: d.history[i].kind = "step" /\ d.history[i].id = t
      BY <1>16, <2>3 DEF Opened
    <3> QED BY <3>2, <3>3 DEF Opened
  <2>7. ASSUME Settled(c) PROVE Settled(d)
    <3>1. PICK a: a = Append(c.pending, call) OBVIOUS
    <3>2. /\ Len(c.pending) + 1 \in DOMAIN a /\ a[Len(c.pending) + 1] = call
          /\ \A k \in DOMAIN c.pending: k \in DOMAIN a /\ a[k] = c.pending[k]
      BY <1>11, <2>4, <3>1
    <3>3. d.pending = a BY <2>3, <3>1
    <3>4. SUFFICES ASSUME NEW i \in DOMAIN d.history, NEW n \in DOMAIN d.history[i].calls
                   PROVE  \/ Answered(d.history, d.history[i].calls[n])
                          \/ \E k \in DOMAIN a: a[k] = d.history[i].calls[n]
                          \/ \E k \in DOMAIN d.history:
                                k > i /\ d.history[k].kind \in Incoming \cup {"summary"}
      BY <3>3 DEF Settled
    <3>5. i \in DOMAIN c.history BY <2>3
    <3>6. CASE d.history[i].calls[n] = call BY <3>2, <3>6
    <3>7. CASE /\ n \in DOMAIN c.history[i].calls
               /\ d.history[i].calls[n] = c.history[i].calls[n]
      <4>1. PICK x: x = c.history[i].calls[n] OBVIOUS
      <4>2. \/ Answered(c.history, x)
            \/ \E k \in DOMAIN c.pending: c.pending[k] = x
            \/ \E k \in DOMAIN c.history:
                  k > i /\ c.history[k].kind \in Incoming \cup {"summary"}
        BY <2>7, <3>5, <3>7, <4>1 DEF Settled
      <4>3. CASE Answered(c.history, x) BY <2>3, <3>7, <4>1, <4>3
      <4>4. CASE \E k \in DOMAIN c.pending: c.pending[k] = x BY <3>2, <3>7, <4>1, <4>4
      <4>5. CASE \E k \in DOMAIN c.history:
                    k > i /\ c.history[k].kind \in Incoming \cup {"summary"}
        BY <2>3, <4>5
      <4> QED BY <4>2, <4>3, <4>4, <4>5
    <3> QED BY <2>5, <3>5, <3>6, <3>7
  <2> QED BY <2>3, <2>6, <2>7
<1>17. /\ Sound(context', m, s) /\ context'.pending = Append(context.pending, call)
       /\ Opened(context', t, Tail(q))
       /\ Settled(context) => Settled(context')
  BY <1>1, <1>2, <1>3, <1>10, <1>14, <1>16
<1>18. /\ Sound(log'.context, m, s) /\ log'.context.pending = Append(log.context.pending, call)
       /\ Opened(log'.context, t, Tail(q))
  BY <1>1, <1>2, <1>3, <1>10, <1>14, <1>16
<1>19. Counted' BY <1>1, <1>9 DEF Counted
<1>20. TurnKept'
  <2>1. \A i, j \in DOMAIN Tail(q): Tail(q)[i] = Tail(q)[j] => i = j
    <3> SUFFICES ASSUME NEW i \in DOMAIN Tail(q), NEW j \in DOMAIN Tail(q),
                        Tail(q)[i] = Tail(q)[j]
                 PROVE  i = j
      OBVIOUS
    <3>1. i + 1 = j + 1 BY <1>10, <1>11 DEF Injective
    <3> QED BY <1>11, <3>1
  <2>2. \A k \in DOMAIN Tail(q): \E x \in 1..MaxCalls: Tail(q)[k] = Call(t, x)
    BY <1>10, <1>11
  <2>3. Append(b, call) \in Seq(Nat) BY <1>10, <1>11
  <2>4. turn' = "calling" /\ turn' \in Phases BY <1>9, <1>15 DEF Phases
  <2> QED BY <1>4, <1>9, <1>10, <1>11, <1>15, <1>17, <1>18, <2>1, <2>2, <2>3, <2>4
          DEF TurnKept, Injective
<1>21. Agreed'
  <2>1. ~unlogged' => Alike(context', log'.context)
    BY <1>1, <1>9, <1>14, AlikeStays DEF Agreed
  <2>2. context.pending = b /\ log.context.pending = b BY <1>1, <1>6, <1>9 DEF Agreed
  <2>3. life' = "up" BY <1>9
  <2> QED BY <1>14, <1>15, <1>17, <1>18, <2>1, <2>2, <2>3 DEF Agreed
<1>22. Overtaken'
  <2>1. Settled(context) BY <1>1, <1>9 DEF Overtaken
  <2> QED BY <1>17, <2>1 DEF Overtaken
<1>23. Covered'
  <2>1. Running' => Running /\ step' = step BY <1>15 DEF Running
  <2> QED BY <1>1, <1>9, <2>1, CoveredStays
<1> QED BY <1>2, <1>3, <1>9, <1>17, <1>18, <1>19, <1>20, <1>21, <1>22, <1>23 DEF IInv

LEMMA ActRecordResult == ASSUME Calm, IInv, RecordResult PROVE IInv'
<1>1. /\ Counted /\ TurnKept /\ Agreed /\ Overtaken /\ Covered
      /\ messages \in Nat /\ steps \in Nat
      /\ Sound(context, messages, steps) /\ Sound(log.context, messages, steps)
      /\ context \in Contexts /\ log.context \in Contexts
  BY Parts
<1>2. PICK m \in Nat: m = messages BY <1>1
<1>3. PICK s \in Nat: s = steps BY <1>1
<1>4. PICK b: b = owed OBVIOUS
<1>5. PICK call: call = Head(b) OBVIOUS
<1>6. PICK r: r = Record("result", 0, call) OBVIOUS
<1>7. /\ life = "up" /\ turn = "calling" /\ todo = << >> /\ b # << >> /\ Do(r)
      /\ owed' = Tail(b) /\ life' = life /\ turn' = turn /\ step' = step /\ todo' = todo
      /\ summarized' = summarized /\ worker' = worker
      /\ unlogged' = unlogged /\ messages' = messages /\ steps' = steps
      /\ undos' = undos /\ crashes' = crashes
  BY <1>4, <1>5, <1>6 DEF RecordResult, compaction, counters
<1>8. b \in Seq(Nat) /\ context.pending = b /\ log.context.pending = b
  BY <1>1, <1>4, <1>7 DEF TurnKept, Agreed
<1>9. /\ context' = AppendResult(context, call) /\ log'.context = AppendResult(log.context, call)
      /\ log' = [context |-> log'.context, throws |-> FALSE]
  <2>1. /\ ~Throws(log.context, r) /\ Apply(context, r) = AppendResult(context, call)
        /\ Apply(log.context, r) = AppendResult(log.context, call)
    BY <1>6, Applied
  <2> QED BY <1>1, <1>7, <2>1, Recorded
<1>10. /\ Tail(b) \in Seq(Nat) /\ DOMAIN b = {1} \cup {k + 1: k \in DOMAIN Tail(b)}
       /\ b[1] = call /\ \A k \in DOMAIN Tail(b): Tail(b)[k] = b[k + 1]
  <2>1. /\ Tail(b) \in Seq(Nat) /\ Len(Tail(b)) = Len(b) - 1
        /\ \A i \in 1..Len(Tail(b)): Tail(b)[i] = b[i + 1]
    BY <1>7, <1>8, HeadTailProperties
  <2>2. Len(b) \in Nat /\ Len(b) # 0 /\ DOMAIN b = 1..Len(b) BY <1>7, <1>8
  <2>3. DOMAIN Tail(b) = 1..Len(b) - 1 BY <2>1
  <2>4. \A k \in 2..Len(b): k - 1 \in 1..Len(b) - 1 /\ k = (k - 1) + 1 BY <2>2
  <2>5. \A k \in 1..Len(b): k = 1 \/ k \in 2..Len(b) BY <2>2
  <2>6. \A k \in 1..Len(b) - 1: k + 1 \in 1..Len(b) BY <2>2
  <2>7. 1 \in 1..Len(b) BY <2>2
  <2>8. DOMAIN b = {1} \cup {k + 1: k \in 1..Len(b) - 1} BY <2>2, <2>4, <2>5, <2>6, <2>7
  <2>9. call = b[1] BY <1>5, <1>7, <1>8
  <2> QED BY <2>1, <2>3, <2>8, <2>9
<1>11. ASSUME NEW c, Sound(c, m, s), c.pending = b, NEW d, d = AppendResult(c, call)
       PROVE  /\ Sound(d, m, s) /\ d.pending = Tail(b) /\ Extends(d, c)
              /\ Answered(d.history, call)
  <2>1. /\ Sound(d, m, s) /\ d.pending = Tail(b) /\ d.open = c.open
        /\ \A i \in DOMAIN c.history: i \in DOMAIN d.history /\ d.history[i] = c.history[i]
        /\ \A x: Answered(d.history, x) <=> Answered(c.history, x) \/ x = call
        /\ \A i \in DOMAIN d.history: i \in DOMAIN c.history \/ d.history[i].calls = << >>
    BY <1>5, <1>7, <1>11, SoundResult
  <2> QED BY <2>1 DEF Extends
<1>12. /\ Sound(context', m, s) /\ context'.pending = Tail(b) /\ Extends(context', context)
       /\ Answered(context'.history, call)
  BY <1>1, <1>2, <1>3, <1>8, <1>9, <1>11
<1>13. /\ Sound(log'.context, m, s) /\ log'.context.pending = Tail(b)
       /\ Extends(log'.context, log.context)
  BY <1>1, <1>2, <1>3, <1>8, <1>9, <1>11
<1>14. Counted' BY <1>1, <1>7 DEF Counted
<1>15. TurnKept'
  <2>1. turn = "calling" /\ turn \in Phases /\ turn # "idle" /\ turn # "between"
        /\ turn # "streaming" /\ Running
    BY <1>7 DEF Phases, Running
  <2>2. Opened(context', step, todo) /\ Opened(log'.context, step, todo)
    BY <1>1, <1>12, <1>13, <2>1, ExtendsKeeps DEF TurnKept
  <2> QED BY <1>1, <1>7, <1>10, <2>1, <2>2 DEF TurnKept
<1>16. Agreed'
  <2>1. ~unlogged' => Alike(context', log'.context)
    BY <1>1, <1>7, <1>9, AlikeStays DEF Agreed
  <2>2. life' = "up" BY <1>7
  <2> QED BY <1>7, <1>9, <1>12, <1>13, <2>1, <2>2 DEF Agreed
<1>17. Overtaken'
  <2>1. Settled(context) BY <1>1, <1>7 DEF Overtaken
  <2>2. \A k \in DOMAIN b: \/ Answered(context'.history, b[k])
                           \/ \E l \in DOMAIN Tail(b): Tail(b)[l] = b[k]
    BY <1>10, <1>12
  <2>3. Settled(context') BY <1>8, <1>12, <2>1, <2>2, ExtendsKeeps
  <2> QED BY <2>3 DEF Overtaken
<1>18. Covered'
  <2>1. Running' => Running /\ step' = step BY <1>7 DEF Running
  <2> QED BY <1>1, <1>7, <2>1, CoveredStays
<1> QED BY <1>2, <1>3, <1>7, <1>12, <1>13, <1>14, <1>15, <1>16, <1>17, <1>18 DEF IInv
\* Nothing is owed, and the turn stays where it is or ends.
LEMMA ActPop == ASSUME Calm, IInv, Pop PROVE IInv'
<1>1. /\ Counted /\ TurnKept /\ Agreed /\ MaxCalls \in Nat
      /\ messages \in Nat /\ steps \in Nat
      /\ Sound(context, messages, steps) /\ Sound(log.context, messages, steps)
  BY Parts
<1>2. /\ life = "up" /\ turn = "between" /\ turn # "calling" /\ turn # "idle"
      /\ turn' = "idle" /\ step' = 0 /\ todo' = << >> /\ owed' = << >>
      /\ unlogged' = TRUE /\ log' = log /\ life' = life /\ summarized' = summarized
      /\ worker' = worker /\ messages' = messages /\ steps' = steps
      /\ undos' = undos /\ crashes' = crashes
  BY DEF Pop, EndTurn, compaction, counters
<1>3. owed = << >> BY <1>1, <1>2 DEF TurnKept
<1>4. /\ context.pending = << >> /\ log.context.pending = << >> /\ context.deferred = << >>
  BY <1>2, <1>3, NothingOpen
<1>5. context.history # << >> /\ context' = [context EXCEPT !.history = Front(@)]
  BY <1>4 DEF Pop
<1>6. Sound(context', messages, steps) BY <1>1, <1>4, <1>5, SoundPop
<1>7. context'.pending = << >>
  <2>1. context \in Contexts BY <1>1 DEF Sound
  <2>2. PICK g: g = Front(context.history) OBVIOUS
  <2>3. context' = [context EXCEPT !.history = g] BY <1>5, <2>2
  <2>4. PICK h, o, w: h = context.history /\ o = context.open /\ w = context.deferred OBVIOUS
  <2>5. context = [history |-> h, open |-> o, pending |-> << >>, deferred |-> w]
    BY <1>4, <2>1, <2>4, ContextIs
  <2>6. context' = [history |-> g, open |-> o, pending |-> << >>, deferred |-> w]
    BY <2>3, <2>5
  <2> QED BY <2>6
<1>8. Counted' BY <1>1, <1>2 DEF Counted
<1>9. TurnKept' /\ ~Running' BY <1>1, <1>2, TurnRests
<1>10. Agreed'
  <2>1. log = [context |-> log.context, throws |-> FALSE] BY <1>1 DEF Agreed
  <2> QED BY <1>2, <1>4, <1>7, <2>1 DEF Agreed
<1>11. Overtaken' BY <1>2 DEF Overtaken
<1>12. Covered'
  <2>1. Covered BY DEF IInv
  <2> QED BY <1>2, <1>9, <2>1, CoveredStays
<1> QED BY <1>1, <1>2, <1>6, <1>8, <1>9, <1>10, <1>11, <1>12 DEF IInv

\* No turn runs, and the context is changed as a whole.
LEMMA Replaced ==
    ASSUME Calm, IInv, life = "up", turn \in {"idle", "between"},
           UNCHANGED << life, loop, worker, unlogged, messages, steps, crashes >>,
           undos' \in 0..MaxUndos,
           summarized' = summarized \/ summarized' = NoSnapshot,
           log' = [context |-> log'.context, throws |-> FALSE],
           Sound(context', messages, steps), Sound(log'.context, messages, steps),
           context'.pending = << >>, log'.context.pending = << >>,
           ~unlogged => Alike(context', log'.context),
           turn = "idle" \/ Settled(context')
    PROVE  IInv'
<1>1. Counted /\ TurnKept /\ Agreed /\ Overtaken /\ Covered BY DEF IInv
<1>2. /\ life' = life /\ turn' = turn /\ step' = step /\ todo' = todo /\ owed' = owed
      /\ worker' = worker /\ unlogged' = unlogged /\ messages' = messages
      /\ steps' = steps /\ crashes' = crashes
  BY DEF loop
<1>3. turn # "calling" /\ todo = << >> /\ owed = << >> BY <1>1 DEF TurnKept
<1>4. Counted' BY <1>1, <1>2 DEF Counted
<1>5. TurnKept' /\ ~Running' BY <1>1, <1>2, <1>3, TurnRests DEF TurnKept
<1>6. Agreed' BY <1>2, <1>3 DEF Agreed
<1>7. Overtaken' BY <1>2 DEF Overtaken
<1>8. Covered'
  <2>1. CASE summarized' = summarized BY <1>1, <1>2, <1>5, <2>1, CoveredStays
  <2>2. CASE summarized' = NoSnapshot BY <2>2 DEF Covered, Compacting
  <2> QED BY <2>1, <2>2
<1> QED BY <1>2, <1>4, <1>5, <1>6, <1>7, <1>8 DEF IInv

LEMMA ActTakeBack == ASSUME Calm, IInv, TakeBack PROVE IInv'
<1>1. /\ Counted /\ TurnKept /\ Agreed /\ MaxCalls \in Nat
      /\ messages \in Nat /\ steps \in Nat
      /\ Sound(context, messages, steps) /\ Sound(log.context, messages, steps)
      /\ context \in Contexts /\ log.context \in Contexts
  BY Parts
<1>2. /\ life = "up" /\ turn = "idle" /\ undos < MaxUndos /\ undos' = undos + 1
      /\ UNCHANGED << life, loop, worker, unlogged, messages, steps, crashes >>
      /\ summarized' = summarized
  BY DEF TakeBack, Calm, compaction
<1>3. undos' \in 0..MaxUndos BY <1>1, <1>2 DEF Counted, Calm
<1>4. CASE \E n \in 1..2: Do(Record("undo", n, 0))
  <2>1. PICK n \in 1..2: Do(Record("undo", n, 0)) BY <1>4
  <2>2. PICK r: r = Record("undo", n, 0) OBVIOUS
  <2>3. /\ ~Throws(log.context, r) /\ Apply(context, r) = Undo(context, n)
        /\ Apply(log.context, r) = Undo(log.context, n)
    BY <2>2, Applied
  <2>4. /\ context' = Undo(context, n) /\ log'.context = Undo(log.context, n)
        /\ log' = [context |-> log'.context, throws |-> FALSE]
    BY <1>1, <2>1, <2>2, <2>3, Recorded
  <2>5. /\ Sound(context', messages, steps) /\ context'.pending = << >>
        /\ Sound(log'.context, messages, steps) /\ log'.context.pending = << >>
    BY <1>1, <2>4, SoundUndo
  <2>6. ~unlogged => Alike(context', log'.context)
    <3>1. ~unlogged => Undo(context, n) = Undo(log.context, n)
      BY <1>1, <1>2, AlikeStays DEF Agreed
    <3> QED BY <2>4, <3>1 DEF Alike
  <2> QED BY <1>2, <1>3, <2>4, <2>5, <2>6, Replaced
<1>5. CASE Do(Record("clear", 0, 0))
  <2>1. PICK r: r = Record("clear", 0, 0) OBVIOUS
  <2>2. ~Throws(log.context, r) /\ Apply(context, r) = Empty /\ Apply(log.context, r) = Empty
    BY <2>1, Applied
  <2>3. /\ context' = Empty /\ log'.context = Empty
        /\ log' = [context |-> log'.context, throws |-> FALSE]
    BY <1>1, <1>5, <2>1, <2>2, Recorded
  <2>4. Sound(Empty, messages, steps) /\ Empty.pending = << >> BY SoundEmpty
  <2>5. Alike(context', log'.context) BY <2>3 DEF Alike
  <2> QED BY <1>2, <1>3, <2>3, <2>4, <2>5, Replaced
<1> QED BY <1>4, <1>5 DEF TakeBack

\* A compaction does not end while a step runs: its message came after what was
\* summarized.
LEMMA NotInStep ==
    ASSUME Calm, IInv, Compacting, StillCovered, life = "up"
    PROVE  turn \in {"idle", "between"}
<1>1. TurnKept /\ Covered /\ context \in Contexts BY Parts
<1>2. SUFFICES ASSUME Running PROVE FALSE BY <1>1 DEF TurnKept, Phases, Running
<1>3. PICK i \in DOMAIN context.history:
         context.history[i].kind = "step" /\ context.history[i].id = step
  BY <1>1, <1>2 DEF TurnKept, Opened
<1>4. context.history \in Seq(Items) /\ summarized \in Seq(Items)
  BY <1>1, ContextIs DEF Covered
<1>5. CASE i \in 1..Len(summarized)
  <2>1. i \in DOMAIN summarized BY <1>4, <1>5
  <2>2. summarized[i].kind = "step" /\ summarized[i].id = step
    BY <1>3, <2>1 DEF StillCovered, SameMessages
  <2> QED BY <1>1, <1>2, <2>1, <2>2 DEF Covered
<1>6. CASE i \in Len(summarized) + 1..Len(context.history)
  BY <1>3, <1>6 DEF StillCovered
<1> QED
  <2>1. DOMAIN context.history = 1..Len(context.history) /\ Len(summarized) \in Nat BY <1>4
  <2> QED BY <1>5, <1>6, <2>1

LEMMA ActEndCompaction == ASSUME Calm, IInv, EndCompaction PROVE IInv'
<1>1. /\ Counted /\ TurnKept /\ Agreed /\ Overtaken /\ Covered
      /\ messages \in Nat /\ steps \in Nat
      /\ Sound(context, messages, steps) /\ Sound(log.context, messages, steps)
      /\ context \in Contexts /\ log.context \in Contexts
      /\ log = [context |-> log.context, throws |-> FALSE]
  BY Parts
<1>2. /\ life = "up" /\ Compacting /\ summarized' = NoSnapshot /\ life' = life
      /\ UNCHANGED << life, loop, worker, unlogged, messages, steps, crashes >>
      /\ undos' = undos /\ worker' = worker /\ unlogged' = unlogged /\ messages' = messages
      /\ steps' = steps /\ crashes' = crashes /\ UNCHANGED loop
  BY DEF EndCompaction, counters
<1>3. CASE StillCovered /\ \E kept \in Fitting(context.history): Do(Record("compact", kept, 0))
  <2>1. PICK n: Do(Record("compact", n, 0)) BY <1>3
  <2>2. PICK r: r = Record("compact", n, 0) OBVIOUS
  <2>3. /\ ~Throws(log.context, r) /\ Apply(context, r) = Compact(context, n)
        /\ Apply(log.context, r) = Compact(log.context, n)
    BY <2>2, Applied
  <2>4. /\ context' = Compact(context, n) /\ log'.context = Compact(log.context, n)
        /\ log' = [context |-> log'.context, throws |-> FALSE]
    BY <1>1, <2>1, <2>2, <2>3, Recorded
  <2>5. /\ Sound(context', messages, steps) /\ context'.pending = << >>
        /\ \A i \in DOMAIN context'.history: context'.history[i].calls = << >>
        /\ Sound(log'.context, messages, steps) /\ log'.context.pending = << >>
    <3>1. \A c: Sound(c, messages, steps) =>
             /\ Sound(Compact(c, n), messages, steps) /\ Compact(c, n).pending = << >>
             /\ \A i \in DOMAIN Compact(c, n).history: Compact(c, n).history[i].calls = << >>
      BY <1>1, SoundCompact, ZenonT(60)
    <3>2. PICK c: c = Compact(context, n) OBVIOUS
    <3>3. PICK d: d = Compact(log.context, n) OBVIOUS
    <3>4. /\ Sound(c, messages, steps) /\ c.pending = << >>
          /\ \A i \in DOMAIN c.history: c.history[i].calls = << >>
      BY <1>1, <3>1, <3>2
    <3>5. Sound(d, messages, steps) /\ d.pending = << >> BY <1>1, <3>1, <3>3
    <3> QED BY <2>4, <3>2, <3>3, <3>4, <3>5
  <2>6. ~unlogged => Alike(context', log'.context)
    <3>1. ~unlogged => Compact(context, n) = Compact(log.context, n)
      BY <1>1, <1>2, AlikeStays DEF Agreed
    <3> QED BY <2>4, <3>1 DEF Alike
  <2>7. Settled(context')
    <3>1. DOMAIN << >> = {} OBVIOUS
    <3> QED BY <2>5, <3>1 DEF Settled
  <2>8. turn \in {"idle", "between"} BY <1>2, <1>3, NotInStep
  <2>9. undos' \in 0..MaxUndos BY <1>1, <1>2 DEF Counted
  <2> QED BY <1>2, <2>4, <2>5, <2>6, <2>7, <2>8, <2>9, Replaced
<1>4. CASE UNCHANGED << context, log >>
  <2>1. Extends(context', context) /\ Extends(log'.context, log.context)
    BY <1>4 DEF Extends
  <2>2. Counted' BY <1>1, <1>2 DEF Counted
  <2>3. TurnKept' BY <1>1, <1>2, <2>1, TurnStays
  <2>4. Agreed' /\ Overtaken'
    <3>1. /\ turn' = turn /\ owed' = owed /\ context' = context /\ log' = log
          /\ life' = "up" /\ unlogged' = unlogged
      BY <1>2, <1>4 DEF loop
    <3>2. Agreed' BY <1>1, <1>2, <3>1 DEF Agreed
    <3>3. Overtaken' BY <1>1, <1>2, <3>1 DEF Overtaken
    <3> QED BY <3>2, <3>3
  <2>5. Covered' BY <1>2 DEF Covered, Compacting
  <2> QED BY <1>1, <1>2, <1>4, <2>2, <2>3, <2>4, <2>5 DEF IInv
<1> QED BY <1>3, <1>4 DEF EndCompaction
LEMMA ActIncoming ==
    ASSUME Calm, IInv, StartTurn \/ SteerTurn \/ Notice \/ Gate PROVE IInv'
<1>1. {"user", "note", "reminder", "gate"} \subseteq Incoming BY DEF Incoming
<1>2. CASE StartTurn
  <2>1. /\ Receive("user") /\ life = "up" /\ turn = "idle" /\ turn' = "between"
        /\ UNCHANGED << life, compaction, unlogged, steps, undos, crashes >>
        /\ UNCHANGED << step, todo, owed >>
    BY <1>2 DEF StartTurn
  <2> QED BY <1>1, <2>1, Incomes
<1>3. CASE SteerTurn
  <2>1. /\ Receive("user") /\ life # "down"
        /\ UNCHANGED << life, compaction, unlogged, steps, undos, crashes >>
        /\ UNCHANGED loop
    BY <1>3 DEF SteerTurn
  <2> QED BY <1>1, <2>1, Incomes
<1>4. CASE Notice
  <2>1. /\ life # "down" /\ UNCHANGED loop
        /\ UNCHANGED << life, compaction, unlogged, steps, undos, crashes >>
    BY <1>4 DEF Notice
  <2>2. PICK k \in {"note", "reminder"}: Receive(k) BY <1>4 DEF Notice
  <2> QED BY <1>1, <2>1, <2>2, Incomes
<1>5. CASE Gate
  <2>1. /\ Receive("gate") /\ life # "down"
        /\ UNCHANGED << life, compaction, unlogged, steps, undos, crashes >>
        /\ UNCHANGED loop
    BY <1>5 DEF Gate
  <2> QED BY <1>1, <2>1, Incomes
<1> QED BY <1>2, <1>3, <1>4, <1>5

\* Two messages enter the history; the log gets the second.
LEMMA ActImport == ASSUME Calm, IInv, Import PROVE IInv'
<1>1. /\ Counted /\ TurnKept /\ Agreed /\ Covered
      /\ messages \in Nat /\ steps \in Nat
      /\ Sound(context, messages, steps) /\ Sound(log.context, messages, steps)
      /\ log = [context |-> log.context, throws |-> FALSE]
  BY Parts
<1>2. PICK m \in Nat: m = messages BY <1>1
<1>3. PICK s \in Nat: s = steps BY <1>1
<1>4. PICK n \in Nat: n = m + 1 OBVIOUS
<1>5. n + 1 = messages + 2 /\ n = messages + 1 /\ n + 1 \in Nat /\ m <= n BY <1>2, <1>4
<1>6. PICK r: r = Record("reminder", n + 1, 0) OBVIOUS
<1>7. PICK x: x = Message("reminder", n + 1) OBVIOUS
<1>8. PICK c: c = Push(context, << Message("user", n) >>) OBVIOUS
<1>9. /\ life = "up" /\ turn = "idle" /\ messages' = n + 1 /\ n + 1 <= MaxMessages
      /\ log' = Logged(log, r) /\ context' = Apply(c, r) /\ unlogged' = TRUE
      /\ life' = life /\ turn' = turn /\ step' = step /\ todo' = todo /\ owed' = owed
      /\ summarized' = summarized /\ worker' = worker /\ steps' = steps
      /\ undos' = undos /\ crashes' = crashes
  BY <1>5, <1>6, <1>8 DEF Import, loop, compaction
<1>10. owed = << >> /\ todo = << >> /\ step = 0 BY <1>1, <1>9 DEF TurnKept
<1>11. context.pending = << >> /\ log.context.pending = << >> BY <1>9, <1>10, NothingOpen
<1>12. "user" \in Incoming /\ "reminder" \in Incoming BY DEF Incoming
<1>13. Sound(c, n, s) /\ c.pending = << >>
  <2>1. AppendMessage(context, Message("user", n)) = c BY <1>8, <1>11 DEF AppendMessage
  <2>2. LET d == AppendMessage(context, Message("user", m + 1))
        IN  /\ Sound(d, m + 1, s)
            /\ d.pending = context.pending /\ d.open = context.open
            /\ context.pending = << >> =>
                  d.history = context.history \o << Message("user", m + 1) >>
            /\ context.pending # << >> => d.history = context.history
    <3>1. Sound(context, m, s) BY <1>1, <1>2, <1>3
    <3> QED BY <1>12, <3>1, SoundIncoming, Zenon
  <2> QED BY <1>4, <1>11, <2>1, <2>2
<1>14. ASSUME NEW d, Sound(d, n, s), d.pending = << >>, NEW e, e = Apply(d, r)
       PROVE  Sound(e, n + 1, s) /\ e.pending = << >>
  <2>1. e = AppendMessage(d, Message("reminder", n + 1)) BY <1>6, <1>12, <1>14, Applied
  <2>2. LET f == AppendMessage(d, Message("reminder", n + 1))
        IN  /\ Sound(f, n + 1, s)
            /\ f.pending = d.pending /\ f.open = d.open
            /\ d.pending = << >> => f.history = d.history \o << Message("reminder", n + 1) >>
            /\ d.pending # << >> => f.history = d.history
    BY <1>12, <1>14, SoundIncoming, Zenon
  <2> QED BY <1>14, <2>1, <2>2
<1>15. Sound(context', n + 1, s) /\ context'.pending = << >> BY <1>9, <1>13, <1>14
<1>16. /\ Sound(log'.context, n + 1, s) /\ log'.context.pending = << >>
       /\ log' = [context |-> log'.context, throws |-> FALSE]
  <2>1. PICK d: d = log.context OBVIOUS
  <2>2. log = [context |-> d, throws |-> FALSE] BY <1>1, <2>1
  <2>3. ~Throws(d, r) BY <1>6, <1>12, Applied
  <2>4. Logged(log, r) = [context |-> Apply(d, r), throws |-> FALSE]
    <3>1. log.context = d /\ log.throws = FALSE BY <2>2
    <3>2. (log.throws \/ Throws(log.context, r)) = FALSE BY <2>3, <3>1, Zenon
    <3>3. Logged(log, r) = [context |-> Apply(log.context, r),
                            throws |-> log.throws \/ Throws(log.context, r)]
      BY DEF Logged
    <3> QED BY <3>1, <3>2, <3>3, Zenon
  <2>5. Sound(d, n, s) /\ d.pending = << >>
    <3>1. Sound(d, m, s) BY <1>1, <1>2, <1>3, <2>1
    <3> QED BY <1>5, <1>11, <2>1, <3>1, SoundLater
  <2>6. log'.context = Apply(d, r) BY <1>9, <2>4
  <2> QED BY <1>9, <1>14, <2>4, <2>5, <2>6
<1>17. Counted' BY <1>1, <1>5, <1>9 DEF Counted, Calm
<1>18. TurnKept' /\ ~Running' BY <1>1, <1>9, <1>10, TurnRests
<1>19. Agreed' BY <1>9, <1>10, <1>15, <1>16 DEF Agreed
<1>20. Overtaken' BY <1>9 DEF Overtaken
<1>21. Covered' BY <1>1, <1>9, <1>18, CoveredStays
<1> QED BY <1>3, <1>9, <1>15, <1>16, <1>17, <1>18, <1>19, <1>20, <1>21 DEF IInv

LEMMA ActBeginCompaction == ASSUME Calm, IInv, BeginCompaction PROVE IInv'
<1>1. /\ Counted /\ TurnKept /\ Agreed /\ Overtaken
      /\ Sound(context, messages, steps) /\ Sound(log.context, messages, steps)
  BY Parts
<1>2. /\ life = "up" /\ turn \in {"idle", "between"} /\ summarized' = context.history
      /\ worker' = TRUE /\ context' = context /\ log' = log /\ life' = life
      /\ turn' = turn /\ step' = step /\ todo' = todo /\ owed' = owed
      /\ unlogged' = unlogged /\ messages' = messages /\ steps' = steps
      /\ undos' = undos /\ crashes' = crashes
  BY DEF BeginCompaction, loop, counters
<1>3. Counted' BY <1>1, <1>2 DEF Counted
<1>4. todo = << >> /\ owed = << >> BY <1>1, <1>2 DEF TurnKept
<1>5. TurnKept' /\ ~Running' BY <1>1, <1>2, <1>4, TurnRests DEF TurnKept
<1>6. Agreed' BY <1>1, <1>2 DEF Agreed
<1>7. Overtaken' BY <1>1, <1>2 DEF Overtaken
<1>8. Covered'
  <2>1. context.history \in Seq(Items) /\ Numbered(context.history, messages, steps)
    BY <1>1 DEF Sound, History
  <2> QED BY <1>2, <1>5, <2>1 DEF Covered, Numbered
<1> QED BY <1>1, <1>2, <1>3, <1>5, <1>6, <1>7, <1>8 DEF IInv
LEMMA ActCrash == ASSUME Calm, IInv, Crash PROVE IInv'
<1>1. /\ Counted /\ Agreed /\ steps \in Nat
      /\ Sound(log.context, messages, steps)
      /\ log = [context |-> log.context, throws |-> FALSE]
  BY Parts
<1>2. /\ crashes < MaxCrashes /\ crashes' = crashes + 1 /\ life' = "down" /\ context' = Empty
      /\ turn' = "idle" /\ step' = 0 /\ todo' = << >> /\ owed' = << >>
      /\ summarized' = NoSnapshot /\ worker' = FALSE /\ unlogged' = FALSE
      /\ log' = log /\ messages' = messages /\ steps' = steps /\ undos' = undos
  BY DEF Crash, EndTurn
<1>3. Sound(context', messages, steps) BY <1>2, SoundEmpty
<1>4. Counted'
  <2>1. crashes' \in 0..MaxCrashes BY <1>1, <1>2 DEF Counted, Calm
  <2>2. life' \in {"up", "down", "resuming"} /\ unlogged' \in BOOLEAN /\ worker' \in BOOLEAN
    BY <1>2
  <2> QED BY <1>1, <1>2, <2>1, <2>2 DEF Counted
<1>5. TurnKept' /\ ~Running' BY <1>1, <1>2, TurnRests
<1>6. Agreed' BY <1>1, <1>2 DEF Agreed, Compacting
<1>7. Overtaken' /\ Covered' BY <1>2 DEF Overtaken, Covered, Compacting
<1> QED BY <1>1, <1>2, <1>3, <1>4, <1>5, <1>6, <1>7 DEF IInv

LEMMA ActReplay == ASSUME Calm, IInv, Replay PROVE IInv'
<1>1. /\ Counted /\ TurnKept /\ Agreed /\ Covered /\ steps \in Nat
      /\ Sound(log.context, messages, steps)
      /\ log = [context |-> log.context, throws |-> FALSE]
  BY Parts
<1>2. /\ life = "down" /\ context' = log.context /\ life' = "resuming" /\ log' = log
      /\ turn' = turn /\ step' = step /\ todo' = todo /\ owed' = owed
      /\ summarized' = summarized /\ worker' = worker /\ unlogged' = unlogged
      /\ messages' = messages /\ steps' = steps /\ undos' = undos /\ crashes' = crashes
  BY DEF Replay, loop, compaction, counters
<1>3. turn = "idle" /\ ~Compacting /\ ~unlogged BY <1>1, <1>2 DEF Agreed
<1>4. step = 0 /\ todo = << >> /\ owed = << >> BY <1>1, <1>3 DEF TurnKept
<1>5. Counted' BY <1>1, <1>2 DEF Counted
<1>6. TurnKept' /\ ~Running' BY <1>1, <1>2, <1>3, <1>4, TurnRests
<1>7. Agreed' BY <1>1, <1>2, <1>3 DEF Agreed, Compacting
<1>8. Overtaken' BY <1>2 DEF Overtaken
<1>9. Covered' BY <1>2, <1>3 DEF Covered, Compacting
<1> QED BY <1>1, <1>2, <1>5, <1>6, <1>7, <1>8, <1>9 DEF IInv

\* What was cut off is closed in the context and in the log alike.
LEMMA ActFinishResume == ASSUME Calm, IInv, FinishResume PROVE IInv'
<1>1. /\ Counted /\ TurnKept /\ Agreed /\ Covered /\ messages \in Nat /\ steps \in Nat
      /\ Sound(log.context, messages, steps)
      /\ log = [context |-> log.context, throws |-> FALSE]
  BY Parts
<1>2. PICK m \in Nat: m = messages BY <1>1
<1>3. PICK s \in Nat: s = steps BY <1>1
<1>4. PICK c: c = context OBVIOUS
<1>5. PICK o: o = log OBVIOUS
<1>6. /\ life = "resuming" /\ context' = [ClosePending(c) EXCEPT !.open = {}] /\ life' = "up"
      /\ log' = ClosedLog(context, log) /\ log' = ClosedLog(c, o)
      /\ turn' = turn /\ step' = step /\ todo' = todo /\ owed' = owed
      /\ summarized' = summarized /\ worker' = worker /\ unlogged' = unlogged
      /\ messages' = messages /\ steps' = steps /\ undos' = undos /\ crashes' = crashes
  BY <1>4, <1>5 DEF FinishResume, loop, compaction, counters, ClosedLog
<1>7. c = log.context /\ turn = "idle" /\ ~Compacting /\ ~unlogged
  BY <1>1, <1>4, <1>6 DEF Agreed
<1>8. step = 0 /\ todo = << >> /\ owed = << >> BY <1>1, <1>7 DEF TurnKept
<1>9. Sound(c, m, s) /\ o = [context |-> c, throws |-> FALSE]
  BY <1>1, <1>2, <1>3, <1>5, <1>7
<1>10. PICK d: d = ClosePending(c) OBVIOUS
<1>11. /\ Sound(ClosePending(c), m, s)
       /\ ClosePending(c).pending = << >> /\ ClosePending(c).open = c.open
       /\ ClosedLog(c, o) = [context |-> ClosePending(c), throws |-> FALSE]
  BY <1>9, SoundClose
<1>12. /\ log' = [context |-> d, throws |-> FALSE]
       /\ Sound(d, m, s) /\ d.pending = << >>
  <2>1. log' = [context |-> ClosePending(c), throws |-> FALSE] BY <1>6, <1>11
  <2> QED BY <1>10, <1>11, <2>1
<1>13. PICK e: e = [d EXCEPT !.open = {}] OBVIOUS
<1>14. Sound(e, m, s)
  <2>1. {} \in SUBSET (1..s) OBVIOUS
  <2> QED BY <1>12, <1>13, <2>1, SoundOpen
<1>15. e.history = d.history /\ e.pending = d.pending /\ e.deferred = d.deferred
  <2>1. d \in Contexts BY <1>12 DEF Sound
  <2>2. d = [history |-> d.history, open |-> d.open,
             pending |-> d.pending, deferred |-> d.deferred]
    BY <2>1, ContextIs
  <2> QED BY <1>13, <2>2
<1>16. /\ context' = e /\ log'.context = d
       /\ log' = [context |-> log'.context, throws |-> FALSE]
  <2>1. context' = [ClosePending(c) EXCEPT !.open = {}] BY <1>6
  <2>2. context' = e BY <1>10, <1>13, <2>1
  <2>3. log'.context = d BY <1>12
  <2> QED BY <1>12, <2>2, <2>3
<1>17. Counted' BY <1>1, <1>6 DEF Counted
<1>18. TurnKept' /\ ~Running' BY <1>1, <1>6, <1>7, <1>8, TurnRests
<1>19. Agreed'
  <2>1. Alike(context', log'.context) BY <1>15, <1>16 DEF Alike
  <2> QED BY <1>6, <1>8, <1>12, <1>15, <1>16, <2>1 DEF Agreed
<1>20. Overtaken' BY <1>6, <1>7 DEF Overtaken
<1>21. Covered' BY <1>6, <1>7 DEF Covered, Compacting
<1> QED BY <1>2, <1>3, <1>6, <1>12, <1>14, <1>16, <1>17, <1>18, <1>19, <1>20, <1>21 DEF IInv

LEMMA Inductive == ASSUME Calm, IInv, [Next]_vars PROVE IInv'
<1>1. CASE UNCHANGED vars
  <2>1. /\ context' = context /\ log' = log /\ life' = life /\ summarized' = summarized
        /\ turn' = turn /\ step' = step /\ todo' = todo /\ owed' = owed
        /\ worker' = worker /\ unlogged' = unlogged /\ messages' = messages
        /\ steps' = steps /\ undos' = undos /\ crashes' = crashes
    BY <1>1 DEF vars, loop, compaction, counters
  <2>2. Counted' /\ TurnKept' BY <2>1 DEF IInv, Counted, TurnKept, Running
  <2>3. Agreed' /\ Overtaken' BY <2>1 DEF IInv, Agreed, Overtaken, Compacting
  <2>4. Covered' BY <2>1 DEF IInv, Covered, Compacting, Running
  <2> QED BY <2>1, <2>2, <2>3, <2>4 DEF IInv
<1>2. CASE StartTurn \/ SteerTurn \/ Notice \/ Gate BY <1>2, ActIncoming
<1>3. CASE Begin BY <1>3, ActBegin
<1>4. CASE Part BY <1>4, ActPart
<1>5. CASE Respond BY <1>5, ActRespond
<1>6. CASE StepFails BY <1>6, ActStepFails
<1>7. CASE RecordCall BY <1>7, ActRecordCall
<1>8. CASE RecordResult BY <1>8, ActRecordResult
<1>9. CASE Finish BY <1>9, ActFinish
<1>10. CASE Pop BY <1>10, ActPop
<1>11. CASE TakeBack BY <1>11, ActTakeBack
<1>12. CASE Import BY <1>12, ActImport
<1>13. CASE BeginCompaction BY <1>13, ActBeginCompaction
<1>14. CASE EndCompaction BY <1>14, ActEndCompaction
<1>15. CASE Crash BY <1>15, ActCrash
<1>16. CASE Replay BY <1>16, ActReplay
<1>17. CASE FinishResume BY <1>17, ActFinishResume
<1> QED
  BY <1>1, <1>2, <1>3, <1>4, <1>5, <1>6, <1>7, <1>8, <1>9, <1>10, <1>11, <1>12, <1>13,
     <1>14, <1>15, <1>16, <1>17 DEF Next

LEMMA Always == ASSUME Calm PROVE Spec => []IInv
<1>1. Init => IInv BY Initially
<1>2. IInv /\ [Next]_vars => IInv' BY Inductive
<1> QED BY <1>1, <1>2, PTL DEF Spec
-----------------------------------------------------------------------------
(* What follows *)

LEMMA Typed == ASSUME Calm, IInv PROVE TypeOK
<1>1. /\ Counted /\ TurnKept /\ Sound(context, messages, steps) /\ context \in Contexts
      /\ steps \in Nat
  BY Parts
<1>2. \A q \in Seq(Items): \A x \in ToSet(q):
         /\ x.kind \in Incoming \cup {"summary", "step", "result"}
         /\ x.id \in Nat /\ x.text \in BOOLEAN /\ x.calls \in Seq(Nat)
  <2> TAKE q \in Seq(Items)
  <2> TAKE x \in ToSet(q)
  <2>1. x \in Items BY DEF ToSet
  <2> QED BY <2>1, ItemIs DEF Kinds
<1>3. \A x \in ToSet(context.history) \cup ToSet(context.deferred):
         /\ x.kind \in Incoming \cup {"summary", "step", "result"}
         /\ x.id \in Nat /\ x.text \in BOOLEAN /\ x.calls \in Seq(Nat)
  BY <1>1, <1>2, ContextIs
<1>4. context.open \subseteq 1..steps /\ context.pending \in Seq(Nat)
  BY <1>1, ContextIs DEF Sound
<1>5. /\ turn = "idle" => step \in {0}
      /\ turn = "between" => step \in 0..steps
      /\ turn \in {"streaming", "calling"} => step \in 1..steps
  BY <1>1 DEF TurnKept, Running
<1>6. step \in CASE turn = "idle" -> {0} [] turn = "between" -> 0..steps [] OTHER -> 1..steps
  BY <1>1, <1>5 DEF TurnKept, Phases
<1>7. /\ {unlogged, worker} \subseteq BOOLEAN /\ {todo, owed} \subseteq Seq(Nat)
      /\ turn \in Phases /\ life \in {"up", "down", "resuming"}
      /\ messages \in 0..MaxMessages /\ steps \in 0..MaxSteps
      /\ undos \in 0..MaxUndos /\ crashes \in 0..MaxCrashes
  BY <1>1 DEF Counted, TurnKept
<1> QED BY <1>3, <1>4, <1>6, <1>7 DEF TypeOK

LEMMA Released == ASSUME Calm, IInv PROVE NothingHeldBack
<1>1. turn = "idle" => owed = << >> BY DEF IInv, TurnKept
<1> QED BY <1>1, NothingOpen DEF NothingHeldBack

LEMMA Restored == ASSUME Calm, IInv PROVE ResumeAgrees /\ Resumable
<1>1. Agreed BY DEF IInv
<1>2. ResumeAgrees BY <1>1 DEF Agreed, Alike, ResumeAgrees
<1>3. Resumable
  <2>1. PICK c: c = log.context OBVIOUS
  <2>2. log = [context |-> c, throws |-> FALSE] BY <1>1, <2>1 DEF Agreed
  <2> QED BY <2>2 DEF Resumable
<1> QED BY <1>2, <1>3

LEMMA Arrived == ASSUME Calm, IInv PROVE IncomingInOrder
<1>1. context \in Contexts /\ Sound(context, messages, steps) BY Parts
<1>2. PICK h: h = context.history OBVIOUS
<1>3. PICK w: w = context.deferred OBVIOUS
<1>4. h \in Seq(Items) /\ w \in Seq(Items) BY <1>1, <1>2, <1>3, ContextIs
<1>5. /\ Ordered(h) /\ Ordered(w)
      /\ \A n \in DOMAIN w: \A i \in DOMAIN h: h[i].kind \in Incoming => h[i].id < w[n].id
  BY <1>1, <1>2, <1>3 DEF Sound, History, Waits
<1>6. PICK all: all = h \o w OBVIOUS
<1>7. \A i \in DOMAIN all: \/ i \in DOMAIN h /\ all[i] = h[i]
                           \/ /\ i - Len(h) \in DOMAIN w /\ all[i] = w[i - Len(h)]
                              /\ i > Len(h)
  <2>1. /\ Len(h) \in Nat /\ Len(w) \in Nat /\ DOMAIN h = 1..Len(h) /\ DOMAIN w = 1..Len(w)
        /\ all \in Seq(Items) /\ Len(all) = Len(h) + Len(w)
        /\ \A i \in 1..Len(h): all[i] = h[i]
        /\ \A i \in Len(h) + 1..Len(h) + Len(w): all[i] = w[i - Len(h)]
    BY <1>4, <1>6
  <2>2. DOMAIN all = 1..Len(h) + Len(w) BY <2>1
  <2> QED BY <2>1, <2>2
<1>8. ASSUME NEW i \in DOMAIN all, NEW j \in DOMAIN all, i < j,
             all[i].kind \in Incoming, all[j].kind \in Incoming
      PROVE  all[i].id < all[j].id
  <2>1. i \in Nat /\ j \in Nat /\ Len(h) \in Nat
    <3>1. all \in Seq(Items) BY <1>4, <1>6
    <3>2. DOMAIN all = 1..Len(all) /\ Len(all) \in Nat BY <3>1
    <3> QED BY <1>4, <3>2
  <2>2. CASE i \in DOMAIN h /\ all[i] = h[i]
    <3>1. CASE j \in DOMAIN h /\ all[j] = h[j] BY <1>5, <1>8, <2>2, <3>1 DEF Ordered
    <3>2. CASE j - Len(h) \in DOMAIN w /\ all[j] = w[j - Len(h)] BY <1>5, <1>8, <2>2, <3>2
    <3> QED BY <1>7, <3>1, <3>2
  <2>3. CASE i - Len(h) \in DOMAIN w /\ all[i] = w[i - Len(h)] /\ i > Len(h)
    <3>1. j \notin DOMAIN h
      <4>1. DOMAIN h = 1..Len(h) BY <1>4
      <4> QED BY <1>8, <2>1, <2>3, <4>1
    <3>2. j - Len(h) \in DOMAIN w /\ all[j] = w[j - Len(h)] BY <1>7, <3>1
    <3>3. i - Len(h) < j - Len(h) BY <1>8, <2>1
    <3> QED BY <1>5, <1>8, <2>3, <3>2, <3>3 DEF Ordered
  <2> QED BY <1>7, <2>2, <2>3
<1> QED BY <1>2, <1>3, <1>6, <1>8 DEF IncomingInOrder

LEMMA Summed == ASSUME Calm, IInv, [Next]_vars PROVE SummaryCovers
<1> SUFFICES ASSUME Compacting, ~Compacting', context' # context, life' = "up"
             PROVE  \A x \in ToSet(context.history \o context.deferred):
                       \/ x.kind = "user"
                       \/ \E s \in ToSet(summarized): s.kind = x.kind /\ s.id = x.id
  BY DEF SummaryCovers
<1>1. summarized' # summarized BY DEF Compacting
<1>2. ~(UNCHANGED vars) /\ ~(UNCHANGED compaction) BY <1>1 DEF vars, compaction
<1>3. EndCompaction
  <2>1. ~(StartTurn \/ SteerTurn \/ Notice \/ Gate \/ Begin \/ Part \/ Respond \/ StepFails)
    BY <1>2 DEF StartTurn, SteerTurn, Notice, Gate, Begin, Part, Respond, StepFails
  <2>2. ~(RecordCall \/ RecordResult \/ Finish \/ Pop \/ TakeBack \/ Import \/ Replay
          \/ FinishResume)
    BY <1>2 DEF RecordCall, RecordResult, Finish, Pop, TakeBack, Import, Replay, FinishResume
  <2>3. ~BeginCompaction BY DEF BeginCompaction
  <2>4. ~Crash BY DEF Crash
  <2> QED BY <1>2, <2>1, <2>2, <2>3, <2>4 DEF Next
<1>4. StillCovered /\ life = "up" BY <1>3 DEF EndCompaction
<1>5. turn \in {"idle", "between"} BY <1>4, NotInStep
<1>6. context.deferred = << >>
  <2>1. owed = << >> BY <1>5 DEF IInv, TurnKept
  <2> QED BY <1>4, <2>1, NothingOpen
<1>7. PICK h: h = context.history OBVIOUS
<1>8. h \in Seq(Items) /\ summarized \in Seq(Items)
  BY <1>7, Parts, ContextIs DEF Covered
<1>9. context.history \o context.deferred = h BY <1>6, <1>7, <1>8, ConcatEmptySeq
<1>10. ASSUME NEW i \in DOMAIN h
       PROVE  \/ h[i].kind = "user"
              \/ \E n \in DOMAIN summarized:
                    summarized[n].kind = h[i].kind /\ summarized[n].id = h[i].id
  <2>1. /\ DOMAIN h = 1..Len(h) /\ Len(h) \in Nat /\ Len(summarized) \in Nat
        /\ DOMAIN summarized = 1..Len(summarized)
    BY <1>8
  <2>2. i \in DOMAIN summarized \/ i \in Len(summarized) + 1..Len(h) BY <2>1
  <2> QED BY <1>4, <1>7, <2>2 DEF StillCovered, SameMessages
<1>11. ASSUME NEW x \in ToSet(h)
       PROVE  x.kind = "user" \/ \E s \in ToSet(summarized): s.kind = x.kind /\ s.id = x.id
  <2>1. PICK i \in DOMAIN h: x = h[i] BY DEF ToSet
  <2>2. \A n \in DOMAIN summarized: summarized[n] \in ToSet(summarized) BY DEF ToSet
  <2> QED BY <1>10, <2>1, <2>2
<1> QED BY <1>9, <1>11
-----------------------------------------------------------------------------
(* The request *)

\* Every message with calls is followed at once by one result for each.
Exchanges(r) ==
    /\ r \in Seq(Items)
    /\ \A i \in DOMAIN r:
          /\ i + Len(r[i].calls) \in DOMAIN r
          /\ \A j \in i + 1..i + Len(r[i].calls): r[j].kind = "result"
          /\ {r[j].id: j \in i + 1..i + Len(r[i].calls)} = ToSet(r[i].calls)
    /\ \A j \in DOMAIN r: r[j].kind = "result" =>
          \E i \in 1..j - 1: j \in i + 1..i + Len(r[i].calls)

LEMMA ExchangesFit == ASSUME NEW r, Exchanges(r) PROVE WellFormed(r)
<1> DEFINE answers(i) == {j \in i + 1..i + Len(r[i].calls):
                             j \in DOMAIN r /\ r[j].kind = "result"}
<1>1. r \in Seq(Items) /\ DOMAIN r = 1..Len(r) /\ Len(r) \in Nat
  <2>1. r \in Seq(Items) BY DEF Exchanges
  <2> QED BY <2>1
<1>2. \A i \in DOMAIN r: answers(i) = i + 1..i + Len(r[i].calls)
  <2> TAKE i \in DOMAIN r
  <2>1. PICK q: q = r[i].calls OBVIOUS
  <2>2. q \in Seq(Nat) BY <1>1, <2>1, ItemIs
  <2>3. PICK n \in Nat: n = Len(q) BY <2>2
  <2>4. i \in Nat /\ i >= 1 /\ i + n \in DOMAIN r BY <1>1, <2>1, <2>3 DEF Exchanges
  <2>5. \A j \in i + 1..i + n: j \in DOMAIN r BY <1>1, <2>4
  <2>6. \A j \in i + 1..i + n: r[j].kind = "result" BY <2>1, <2>3 DEF Exchanges
  <2> QED BY <2>1, <2>3, <2>5, <2>6
<1>3. \A i \in DOMAIN r: {r[j].id: j \in answers(i)} = ToSet(r[i].calls)
  BY <1>2 DEF Exchanges
<1>4. \A j \in DOMAIN r: r[j].kind = "result" => \E i \in 1..j - 1: j \in answers(i)
  <2> TAKE j \in DOMAIN r
  <2> HAVE r[j].kind = "result"
  <2>1. PICK i \in 1..j - 1: j \in i + 1..i + Len(r[i].calls) BY DEF Exchanges
  <2>2. i \in DOMAIN r BY <1>1, <2>1
  <2> QED BY <1>2, <2>1, <2>2
<1> QED BY <1>3, <1>4 DEF WellFormed

\* One exchange: a message and the results of its calls.
LEMMA ExchangeOf ==
    ASSUME NEW x \in Items, x.kind # "result", NEW R \in Seq(Items),
           Len(R) = Len(x.calls),
           \A k \in DOMAIN R: R[k].kind = "result" /\ R[k].calls = << >>,
           \A k \in DOMAIN R: \E n \in DOMAIN x.calls: R[k].id = x.calls[n],
           \A n \in DOMAIN x.calls: \E k \in DOMAIN R: R[k].id = x.calls[n]
    PROVE  Exchanges(<< x >> \o R)
<1>1. PICK r: r = << x >> \o R OBVIOUS
<1>2. PICK q: q = x.calls OBVIOUS
<1>3. q \in Seq(Nat) BY <1>2, ItemIs
<1>4. PICK L \in Nat: L = Len(R) /\ L = Len(q) BY <1>2, <1>3
<1>5. DOMAIN R = 1..L /\ DOMAIN q = 1..L BY <1>3, <1>4
<1>6. /\ r \in Seq(Items) /\ DOMAIN r = 1..L + 1 /\ r[1] = x
      /\ \A k \in 1..L: r[k + 1] = R[k]
  <2>1. << x >> \in Seq(Items) /\ Len(<< x >>) = 1 OBVIOUS
  <2>2. r \in Seq(Items) /\ Len(r) = 1 + L BY <1>1, <1>4, <2>1
  <2>3. \A k \in 1..L: r[k + 1] = R[k] BY <1>1, <1>4, <2>1
  <2>4. r[1] = x BY <1>1, <2>1
  <2> QED BY <2>2, <2>3, <2>4
<1>7. \A j \in 2..L + 1: j - 1 \in 1..L /\ r[j] = R[j - 1]
  <2> TAKE j \in 2..L + 1
  <2>1. j - 1 \in 1..L /\ j = (j - 1) + 1 BY <1>4
  <2> QED BY <1>6, <2>1
<1>8. \A j \in DOMAIN r: j = 1 \/ j \in 2..L + 1 BY <1>4, <1>6
<1>9. \A j \in 2..L + 1: r[j].kind = "result" /\ Len(r[j].calls) = 0
  <2> TAKE j \in 2..L + 1
  <2>1. j - 1 \in DOMAIN R /\ r[j] = R[j - 1] BY <1>5, <1>7
  <2>2. R[j - 1].kind = "result" /\ R[j - 1].calls = << >> BY <2>1
  <2>3. Len(<< >>) = 0 OBVIOUS
  <2> QED BY <2>1, <2>2, <2>3
<1>10. ASSUME NEW i \in DOMAIN r
       PROVE  /\ i + Len(r[i].calls) \in DOMAIN r
              /\ \A j \in i + 1..i + Len(r[i].calls): r[j].kind = "result"
              /\ {r[j].id: j \in i + 1..i + Len(r[i].calls)} = ToSet(r[i].calls)
  <2>1. CASE i = 1
    <3>1. r[i].calls = q /\ Len(r[i].calls) = L BY <1>2, <1>4, <1>6, <2>1
    <3>2. i + L \in DOMAIN r /\ i + 1..i + L = 2..L + 1 BY <1>4, <1>6, <2>1
    <3>3. \A j \in 2..L + 1: \E n \in DOMAIN q: r[j].id = q[n]
      <4> TAKE j \in 2..L + 1
      <4>1. j - 1 \in DOMAIN R /\ r[j] = R[j - 1] BY <1>5, <1>7
      <4> QED BY <1>2, <4>1
    <3>4. \A n \in DOMAIN q: \E j \in 2..L + 1: r[j].id = q[n]
      <4> TAKE n \in DOMAIN q
      <4>1. PICK k \in 1..L: R[k].id = q[n] BY <1>2, <1>5
      <4>2. k + 1 \in 2..L + 1 BY <1>4
      <4> QED BY <1>6, <4>1, <4>2
    <3>5. {r[j].id: j \in 2..L + 1} = {q[n]: n \in DOMAIN q}
      <4>1. PICK J: J = 2..L + 1 OBVIOUS
      <4>2. /\ \A j \in J: \E n \in DOMAIN q: r[j].id = q[n]
            /\ \A n \in DOMAIN q: \E j \in J: r[j].id = q[n]
        BY <3>3, <3>4, <4>1
      <4>3. \A j \in J: r[j].id \in {q[n]: n \in DOMAIN q}
        <5> TAKE j \in J
        <5> QED BY <4>2
      <4>4. \A n \in DOMAIN q: q[n] \in {r[j].id: j \in J}
        <5> TAKE n \in DOMAIN q
        <5>1. PICK j \in J: r[j].id = q[n] BY <4>2
        <5> QED BY <5>1
      <4> QED BY <4>1, <4>3, <4>4
    <3> QED BY <1>9, <3>1, <3>2, <3>5, ZenonT(60) DEF ToSet
  <2>2. CASE i \in 2..L + 1
    <3>1. r[i].calls = << >> /\ Len(r[i].calls) = 0 BY <1>5, <1>7, <1>9, <2>2
    <3>2. i + 0 \in DOMAIN r /\ i + 1..i + 0 = {} BY <1>4, <1>6, <2>2
    <3>3. ToSet(<< >>) = {}
      <4>1. DOMAIN << >> = {} OBVIOUS
      <4> QED BY <4>1 DEF ToSet
    <3> QED BY <3>1, <3>2, <3>3
  <2> QED BY <1>8, <2>1, <2>2
<1>11. ASSUME NEW j \in DOMAIN r, r[j].kind = "result"
       PROVE  \E i \in 1..j - 1: j \in i + 1..i + Len(r[i].calls)
  <2>1. j \in 2..L + 1 BY <1>6, <1>8, <1>11
  <2>2. 1 \in 1..j - 1 /\ j \in 1 + 1..1 + L BY <1>4, <2>1
  <2>3. Len(r[1].calls) = L BY <1>2, <1>4, <1>6
  <2> QED BY <2>2, <2>3
<1>12. r \in Seq(Items) BY <1>6
<1>13. Exchanges(r) BY <1>10, <1>11, <1>12, Zenon DEF Exchanges
<1> QED BY <1>1, <1>13

LEMMA ExchangesEmpty == Exchanges(<< >>)
<1>1. << >> \in Seq(Items) /\ DOMAIN << >> = {} OBVIOUS
<1> QED BY <1>1 DEF Exchanges

LEMMA ExchangesConcat ==
    ASSUME NEW a, NEW b, Exchanges(a), Exchanges(b) PROVE Exchanges(a \o b)
<1>1. PICK r: r = a \o b OBVIOUS
<1>2. a \in Seq(Items) /\ b \in Seq(Items) BY DEF Exchanges
<1>3. PICK A \in Nat: A = Len(a) BY <1>2
<1>4. PICK B \in Nat: B = Len(b) BY <1>2
<1>5. /\ DOMAIN a = 1..A /\ DOMAIN b = 1..B /\ r \in Seq(Items) /\ DOMAIN r = 1..A + B
      /\ \A i \in 1..A: r[i] = a[i]
      /\ \A i \in A + 1..A + B: r[i] = b[i - A]
  <2>1. r \in Seq(Items) /\ Len(r) = A + B BY <1>1, <1>2, <1>3, <1>4
  <2>2. DOMAIN a = 1..A /\ DOMAIN b = 1..B BY <1>2, <1>3, <1>4
  <2>3. \A i \in 1..A: r[i] = a[i] BY <1>1, <1>2, <1>3, <1>4
  <2>4. \A i \in A + 1..A + B: r[i] = b[i - A] BY <1>1, <1>2, <1>3, <1>4
  <2> QED BY <2>1, <2>2, <2>3, <2>4
<1>6. \A i \in DOMAIN r: i \in 1..A \/ (i \in A + 1..A + B /\ i - A \in 1..B)
  BY <1>5
<1>7. \A i \in DOMAIN r: Len(r[i].calls) \in Nat
  <2> TAKE i \in DOMAIN r
  <2>1. PICK q: q = r[i].calls OBVIOUS
  <2>2. r[i] \in Items BY <1>5
  <2>3. q \in Seq(Nat) BY <2>1, <2>2, ItemIs
  <2> QED BY <2>1, <2>3
<1>8. ASSUME NEW i \in DOMAIN r
      PROVE  /\ i + Len(r[i].calls) \in DOMAIN r
             /\ \A j \in i + 1..i + Len(r[i].calls): r[j].kind = "result"
             /\ {r[j].id: j \in i + 1..i + Len(r[i].calls)} = ToSet(r[i].calls)
  <2>1. PICK n \in Nat: n = Len(r[i].calls) BY <1>7
  <2>2. CASE i \in 1..A
    <3>1. r[i] = a[i] /\ i \in DOMAIN a BY <1>5, <2>2
    <3>2. /\ i + n \in 1..A
          /\ \A j \in i + 1..i + n: a[j].kind = "result"
          /\ {a[j].id: j \in i + 1..i + n} = ToSet(a[i].calls)
      BY <1>5, <2>1, <3>1 DEF Exchanges
    <3>3. \A j \in i + 1..i + n: r[j] = a[j]
      <4>1. i + 1..i + n \subseteq 1..A BY <2>2, <3>2
      <4> QED BY <1>5, <4>1
    <3>4. {r[j].id: j \in i + 1..i + n} = {a[j].id: j \in i + 1..i + n} BY <3>3
    <3>5. i + n \in DOMAIN r BY <1>5, <3>2
    <3> QED BY <2>1, <3>1, <3>2, <3>3, <3>4, <3>5
  <2>3. CASE i \in A + 1..A + B
    <3>1. PICK k \in 1..B: k = i - A BY <2>3
    <3>2. i = k + A BY <2>3, <3>1
    <3>3. r[i] = b[k] /\ k \in DOMAIN b BY <1>5, <2>3, <3>1
    <3>4. /\ k + n \in 1..B
          /\ \A j \in k + 1..k + n: b[j].kind = "result"
          /\ {b[j].id: j \in k + 1..k + n} = ToSet(b[k].calls)
      BY <1>5, <2>1, <3>3 DEF Exchanges
    <3>5. \A j \in i + 1..i + n: j - A \in k + 1..k + n /\ r[j] = b[j - A]
      <4> TAKE j \in i + 1..i + n
      <4>1. j \in A + 1..A + B /\ j - A \in k + 1..k + n BY <3>2, <3>4
      <4> QED BY <1>5, <4>1
    <3>6. \A l \in k + 1..k + n: l + A \in i + 1..i + n /\ r[l + A] = b[l]
      <4> TAKE l \in k + 1..k + n
      <4>1. l + A \in i + 1..i + n /\ (l + A) - A = l BY <3>2
      <4> QED BY <3>5, <4>1
    <3>7. {r[j].id: j \in i + 1..i + n} = {b[j].id: j \in k + 1..k + n} BY <3>5, <3>6
    <3>8. i + n \in DOMAIN r BY <1>5, <3>2, <3>4
    <3>9. \A j \in i + 1..i + n: r[j].kind = "result" BY <3>4, <3>5
    <3> QED BY <2>1, <3>3, <3>4, <3>7, <3>8, <3>9
  <2> QED BY <1>6, <2>2, <2>3
<1>9. ASSUME NEW j \in DOMAIN r, r[j].kind = "result"
      PROVE  \E i \in 1..j - 1: j \in i + 1..i + Len(r[i].calls)
  <2>1. CASE j \in 1..A
    <3>1. PICK i \in 1..j - 1: j \in i + 1..i + Len(a[i].calls)
      BY <1>5, <1>9, <2>1 DEF Exchanges
    <3>2. r[i] = a[i]
      <4>1. i \in 1..A BY <2>1, <3>1
      <4> QED BY <1>5, <4>1
    <3> QED BY <3>1, <3>2
  <2>2. CASE j \in A + 1..A + B /\ j - A \in 1..B
    <3>1. PICK k \in 1..B: k = j - A BY <2>2
    <3>2. b[k].kind = "result" /\ k \in DOMAIN b BY <1>5, <1>9, <2>2, <3>1
    <3>3. PICK i \in 1..k - 1: k \in i + 1..i + Len(b[i].calls) BY <3>2 DEF Exchanges
    <3>4. i + A \in A + 1..A + B /\ (i + A) - A = i /\ i + A \in DOMAIN r BY <1>5, <3>1, <3>3
    <3>5. r[i + A] = b[i] BY <1>5, <3>4
    <3>6. PICK n \in Nat: n = Len(b[i].calls) BY <1>7, <3>4, <3>5
    <3>7. k \in i + 1..i + n BY <3>3, <3>6
    <3>8. j = k + A /\ j \in Nat /\ k \in Nat /\ i \in Nat BY <2>2, <3>1, <3>3
    <3>9. i + A \in 1..j - 1 /\ j \in (i + A) + 1..(i + A) + n BY <3>3, <3>7, <3>8
    <3> QED BY <3>5, <3>6, <3>9
  <2> QED BY <1>6, <2>1, <2>2
<1>10. r \in Seq(Items) BY <1>5
<1>11. Exchanges(r) BY <1>8, <1>9, <1>10, Zenon DEF Exchanges
<1> QED BY <1>1, <1>11
\* What answers a call is moved up to its step.
LEMMA ClaimsOf ==
    ASSUME NEW h, NEW m, NEW s, History(h, m, s), MaxCalls \in Nat,
           NEW i \in DOMAIN h, NEW j \in DOMAIN h, h[j].kind = "result", Makes(h, i, h[j].id)
    PROVE  Claims(h, i, j)
<1>1. h \in Seq(Items) /\ DOMAIN h = 1..Len(h) /\ Len(h) \in Nat
  <2>1. h \in Seq(Items) BY DEF History
  <2> QED BY <2>1
<1>2. i < j BY ResultAfter
<1>3. PICK n \in DOMAIN h[i].calls: h[i].calls[n] = h[j].id BY DEF Makes
<1>4. h[j].id \in ToSet(h[i].calls) BY <1>3 DEF ToSet
<1>5. IsCalling(h[i])
  <2>1. DOMAIN << >> = {} OBVIOUS
  <2> QED BY <1>3, <2>1 DEF IsCalling, Makes
<1>6. ASSUME NEW k \in i + 1..j - 1, h[k].kind = "result" PROVE h[k].id # h[j].id
  <2>1. k \in DOMAIN h /\ k # j BY <1>1, <1>6
  <2> QED BY <1>6, <2>1 DEF History, ResultsFollow
<1> QED BY <1>2, <1>4, <1>5, <1>6 DEF Claims

\* A call without a result has been overtaken by a message.
Over(h) ==
    \A i \in DOMAIN h: \A n \in DOMAIN h[i].calls:
        \/ Answered(h, h[i].calls[n])
        \/ \E k \in DOMAIN h: k > i /\ h[k].kind \in Incoming \cup {"summary"}

\* Every call of a step has one result: one it claims or one that is made up.
LEMMA AllAnswered ==
    ASSUME NEW h, NEW m, NEW s, History(h, m, s), MaxCalls \in Nat, NEW i \in DOMAIN h,
           h[i].kind = "step"
    PROVE  /\ Claimed(h, i) \in SUBSET DOMAIN h
           /\ Missing(h, i) \in SUBSET (1..Len(h[i].calls))
           /\ Cardinality(Claimed(h, i)) + Cardinality(Missing(h, i)) = Len(h[i].calls)
<1>1. PICK q: q = h[i].calls OBVIOUS
<1>2. h \in Seq(Items) BY DEF History
<1>3. q \in Seq(Nat) /\ Injective(q) BY <1>1, <1>2, ItemIs DEF History, StepsApart
<1>4. PICK L \in Nat: L = Len(q) BY <1>3
<1>5. DOMAIN q = 1..L BY <1>3, <1>4
<1>6. PICK C: C = Claimed(h, i) OBVIOUS
<1>7. PICK M: M = Missing(h, i) OBVIOUS
<1>8. C \in SUBSET DOMAIN h BY <1>6 DEF Claimed
<1>9. M = {n \in 1..L: \A j \in C: h[j].id # q[n]} BY <1>1, <1>5, <1>6, <1>7 DEF Missing
<1>10. PICK A: A = (1..L) \ M OBVIOUS
<1>11. \A j \in C: /\ h[j].kind = "result"
                   /\ \E n \in 1..L: q[n] = h[j].id
  <2> TAKE j \in C
  <2>1. Claims(h, i, j) BY <1>6 DEF Claimed
  <2>2. h[j].kind = "result" /\ h[j].id \in ToSet(q) BY <1>1, <2>1 DEF Claims
  <2> QED BY <1>5, <2>2 DEF ToSet
<1>12. PICK g: g = [j \in C |-> CHOOSE n \in 1..L: q[n] = h[j].id] OBVIOUS
<1>13. \A j \in C: g[j] \in A /\ q[g[j]] = h[j].id
  <2> TAKE j \in C
  <2>1. g[j] \in 1..L /\ q[g[j]] = h[j].id BY <1>11, <1>12
  <2>2. g[j] \notin M BY <1>9, <2>1
  <2> QED BY <1>10, <2>1, <2>2
<1>14. \A j, k \in C: g[j] = g[k] => j = k
  <2> TAKE j, k \in C
  <2> HAVE g[j] = g[k]
  <2>1. h[j].id = h[k].id /\ h[j].kind = "result" /\ h[k].kind = "result"
        /\ j \in DOMAIN h /\ k \in DOMAIN h
    BY <1>8, <1>11, <1>13
  <2> QED BY <2>1 DEF History, ResultsFollow
<1>15. \A n \in A: \E j \in C: g[j] = n
  <2> TAKE n \in A
  <2>1. n \in 1..L /\ n \notin M BY <1>10
  <2>2. PICK j \in C: h[j].id = q[n] BY <1>9, <2>1
  <2>3. q[g[j]] = q[n] /\ g[j] \in 1..L BY <1>10, <1>13, <2>2
  <2>4. g[j] = n BY <1>3, <1>5, <2>1, <2>3 DEF Injective
  <2> QED BY <2>4
<1>16. g \in Bijection(C, A)
  <2>1. g \in [C -> A] BY <1>12, <1>13
  <2>2. g \in Injection(C, A) BY <1>14, <2>1 DEF Injection, IsInjective
  <2>3. g \in Surjection(C, A) BY <1>15, <2>1 DEF Surjection
  <2> QED BY <2>2, <2>3 DEF Bijection
<1>17. IsFiniteSet(1..L) /\ Cardinality(1..L) = L
  <2>1. 1 \in Int /\ L \in Int OBVIOUS
  <2>2. IsFiniteSet(1..L) /\ Cardinality(1..L) = IF 1 > L THEN 0 ELSE L - 1 + 1
    BY <2>1, FS_Interval
  <2>3. (IF 1 > L THEN 0 ELSE L - 1 + 1) = L OBVIOUS
  <2> QED BY <2>2, <2>3
<1>18. IsFiniteSet(C)
  <2>1. DOMAIN h = 1..Len(h) /\ Len(h) \in Nat BY <1>2
  <2>2. IsFiniteSet(1..Len(h)) BY <2>1, FS_Interval
  <2> QED BY <1>8, <2>1, <2>2, FS_Subset
<1>19. Cardinality(C) = Cardinality(A)
  <2>1. ExistsBijection(C, A) BY <1>16 DEF ExistsBijection
  <2> QED BY <1>18, <2>1, FS_Bijection
<1>20. Cardinality(A) = L - Cardinality(M) /\ Cardinality(M) \in Nat
  <2>1. PICK I: I = 1..L OBVIOUS
  <2>2. IsFiniteSet(I) /\ Cardinality(I) = L /\ A = I \ M BY <1>10, <1>17, <2>1
  <2>3. M \in SUBSET I /\ I \cap M = M BY <1>9, <2>1
  <2>4. Cardinality(I \ M) = Cardinality(I) - Cardinality(I \cap M)
    BY <2>2, FS_Difference
  <2>5. Cardinality(A) = L - Cardinality(M) BY <2>2, <2>3, <2>4
  <2>6. IsFiniteSet(M) BY <2>2, <2>3, FS_Subset
  <2> QED BY <2>5, <2>6, FS_CardinalityType
<1>21. Cardinality(C) + Cardinality(M) = L BY <1>19, <1>20
<1> QED BY <1>1, <1>4, <1>6, <1>7, <1>8, <1>9, <1>21
LEMMA OutputFits ==
    ASSUME NEW h, NEW m, NEW s, History(h, m, s), MaxCalls \in Nat, Over(h), NEW i \in DOMAIN h
    PROVE  Exchanges(Output(h, i))
<1>1. h \in Seq(Items) /\ DOMAIN h = 1..Len(h) /\ Len(h) \in Nat
  <2>1. h \in Seq(Items) BY DEF History
  <2> QED BY <2>1
<1>2. PICK x \in Items: x = h[i] BY <1>1
<1>3. CASE \E k \in DOMAIN h: Claims(h, k, i)
  <2>1. Output(h, i) = << >> BY <1>3 DEF Output
  <2> QED BY <2>1, ExchangesEmpty
<1>4. ASSUME ~\E k \in DOMAIN h: Claims(h, k, i) PROVE Exchanges(Output(h, i))
  <2>1. x.kind # "result"
    <3> SUFFICES ASSUME x.kind = "result" PROVE FALSE OBVIOUS
    <3>1. PICK k \in DOMAIN h: k < i /\ Makes(h, k, h[i].id)
      BY <1>2 DEF History, ResultsFollow
    <3>2. Claims(h, k, i) BY <1>2, <3>1, ClaimsOf
    <3> QED BY <1>4, <3>2
  <2>2. CASE ~IsCalling(x)
    <3>1. x.calls = << >> BY <1>2, <2>1, <2>2 DEF IsCalling, History, Shaped
    <3>2. << >> \in Seq(Items) /\ Len(<< >>) = 0 /\ DOMAIN << >> = {} OBVIOUS
    <3>3. DOMAIN x.calls = {} /\ Len(x.calls) = 0 BY <3>1, <3>2
    <3>4. PICK R: R = << >> OBVIOUS
    <3>5. /\ R \in Seq(Items) /\ Len(R) = Len(x.calls) /\ DOMAIN R = {}
      BY <3>2, <3>3, <3>4
    <3>6. Exchanges(<< x >> \o R) BY <2>1, <3>3, <3>5, ExchangeOf
    <3>7. << x >> \o << >> = << x >>
      <4>1. << x >> \in Seq(Items) OBVIOUS
      <4> QED BY <4>1, ConcatEmptySeq
    <3>8. Output(h, i) = << x >> BY <1>2, <1>4, <2>2 DEF Output
    <3> QED BY <3>4, <3>6, <3>7, <3>8
  <2>3. CASE IsCalling(x)
    <3>1. x.kind = "step" BY <2>3 DEF IsCalling
    <3>2. PICK q: q = x.calls OBVIOUS
    <3>3. q \in Seq(Nat) BY <3>2, ItemIs
    <3>4. PICK L \in Nat: L = Len(q) BY <3>3
    <3>5. DOMAIN q = 1..L BY <3>3, <3>4
    <3>6. PICK C: C = Claimed(h, i) OBVIOUS
    <3>7. PICK M: M = Missing(h, i) OBVIOUS
    <3>8. /\ C \in SUBSET DOMAIN h /\ M \in SUBSET (1..L)
          /\ Cardinality(C) + Cardinality(M) = L
      BY <1>2, <3>1, <3>2, <3>4, <3>6, <3>7, AllAnswered
    <3>9. PICK G: G = Those(h, C) OBVIOUS
    <3>10. /\ G \in Seq(Items) /\ Cardinality(C) \in Nat /\ Len(G) = Cardinality(C)
           /\ \E f: /\ Embeds(f, G, h)
                    /\ \A k \in DOMAIN G: f[k] \in C
                    /\ \A j \in C: \E k \in DOMAIN G: f[k] = j
      BY <1>1, <3>8, <3>9, ThoseOf
    <3>11. /\ \A k \in DOMAIN G: \E j \in C: G[k] = h[j]
           /\ \A j \in C: \E k \in DOMAIN G: G[k] = h[j]
      BY <3>10 DEF Embeds
    <3>12. \A j \in C: /\ h[j].kind = "result" /\ h[j].calls = << >>
                       /\ \E n \in DOMAIN q: h[j].id = q[n]
      <4> TAKE j \in C
      <4>1. Claims(h, i, j) /\ j \in DOMAIN h BY <3>6 DEF Claimed
      <4>2. h[j].kind = "result" /\ h[j].id \in ToSet(q) BY <1>2, <3>2, <4>1 DEF Claims
      <4>3. h[j].kind # "step" BY <4>2
      <4>4. h[j].calls = << >> BY <4>1, <4>3 DEF History, Shaped
      <4> QED BY <4>2, <4>4 DEF ToSet
    <3>13. \A n \in 1..L: n \notin M => \E j \in C: h[j].id = q[n]
      BY <1>2, <3>2, <3>5, <3>6, <3>7 DEF Missing
    <3>14. PICK U: U = MadeUp(h, i) OBVIOUS
    <3>15. /\ U \in Seq(Items) /\ Len(U) = Cardinality(M) /\ Cardinality(M) \in Nat
           /\ \A k \in DOMAIN U: \E n \in M: U[k] = ResultOf(q[n])
           /\ \A n \in M: \E k \in DOMAIN U: U[k] = ResultOf(q[n])
      <4>1. PICK c: c = Cardinality(M) OBVIOUS
      <4>2. /\ c \in Nat
            /\ \A k \in 1..c: Nth(M, k) \in M
            /\ \A n \in M: \E k \in 1..c: n = Nth(M, k)
        BY <3>8, <4>1, Ranked
      <4>3. U = [k \in 1..c |-> ResultOf(q[Nth(M, k)])]
        BY <1>2, <3>2, <3>7, <3>14, <4>1 DEF MadeUp
      <4>4. \A k \in 1..c: ResultOf(q[Nth(M, k)]) \in Items
        <5> TAKE k \in 1..c
        <5>1. Nth(M, k) \in 1..L BY <3>8, <4>2
        <5>2. q[Nth(M, k)] \in Nat BY <3>3, <3>5, <5>1
        <5> QED BY <5>2, ItemsMade
      <4>5. U \in Seq(Items) /\ Len(U) = c BY <4>2, <4>3, <4>4
      <4>6. DOMAIN U = 1..c /\ \A k \in 1..c: U[k] = ResultOf(q[Nth(M, k)]) BY <4>3
      <4> QED BY <4>1, <4>2, <4>5, <4>6
    <3>16. \A n \in DOMAIN q: /\ ResultOf(q[n]).kind = "result"
                              /\ ResultOf(q[n]).id = q[n] /\ ResultOf(q[n]).calls = << >>
      BY DEF ResultOf
    <3>17. ~IsOver(h, i) => M = {}
      <4> SUFFICES ASSUME ~IsOver(h, i), NEW n \in M PROVE FALSE OBVIOUS
      <4>1. n \in DOMAIN q /\ \A j \in C: h[j].id # q[n]
        BY <1>2, <3>2, <3>5, <3>6, <3>7, <3>8 DEF Missing
      <4>2. Makes(h, i, q[n]) BY <1>2, <3>1, <3>2, <4>1 DEF Makes
      <4>3. ~Answered(h, q[n])
        <5> SUFFICES ASSUME NEW j \in DOMAIN h, h[j].kind = "result", h[j].id = q[n]
                     PROVE  FALSE
          BY DEF Answered
        <5>1. Claims(h, i, j) BY <4>2, ClaimsOf
        <5> QED BY <3>6, <4>1, <5>1 DEF Claimed
      <4>4. PICK k \in DOMAIN h: k > i /\ h[k].kind \in Incoming \cup {"summary"}
        BY <1>2, <3>2, <4>1, <4>3 DEF Over
      <4>5. h[k].kind # "result" /\ k \in i + 1..Len(h) BY <1>1, <4>4 DEF Incoming
      <4> QED BY <4>5 DEF IsOver
    <3>18. PICK V: V = IF IsOver(h, i) THEN U ELSE << >> OBVIOUS
    <3>19. /\ V \in Seq(Items) /\ Len(V) = Cardinality(M)
           /\ \A k \in DOMAIN V: \E n \in M: V[k] = ResultOf(q[n])
           /\ \A n \in M: \E k \in DOMAIN V: V[k] = ResultOf(q[n])
      <4>1. CASE IsOver(h, i) BY <3>15, <3>18, <4>1
      <4>2. CASE ~IsOver(h, i)
        <5>1. M = {} /\ Cardinality(M) = 0 BY <3>17, <4>2, FS_EmptySet
        <5>2. << >> \in Seq(Items) /\ Len(<< >>) = 0 /\ DOMAIN << >> = {} OBVIOUS
        <5> QED BY <3>18, <4>2, <5>1, <5>2
      <4> QED BY <4>1, <4>2
    <3>20. PICK R: R = G \o V OBVIOUS
    <3>21. /\ R \in Seq(Items) /\ Len(R) = L
           /\ \A k \in DOMAIN R: \/ \E l \in DOMAIN G: R[k] = G[l]
                                 \/ \E l \in DOMAIN V: R[k] = V[l]
           /\ \A l \in DOMAIN G: \E k \in DOMAIN R: R[k] = G[l]
           /\ \A l \in DOMAIN V: \E k \in DOMAIN R: R[k] = V[l]
      <4>1. PICK a \in Nat: a = Len(G) BY <3>10
      <4>2. PICK b \in Nat: b = Len(V) BY <3>15, <3>19
      <4>3. a + b = L BY <3>8, <3>10, <3>19, <4>1, <4>2
      <4>4. G \in Seq(Items) /\ V \in Seq(Items) BY <3>10, <3>19
      <4>5. R \in Seq(Items) /\ Len(R) = a + b BY <3>20, <4>1, <4>2, <4>4
      <4>6. DOMAIN R = 1..a + b /\ DOMAIN G = 1..a /\ DOMAIN V = 1..b
        BY <3>10, <3>19, <4>1, <4>2, <4>5
      <4>7. \A k \in 1..a: R[k] = G[k] BY <3>20, <4>1, <4>2, <4>4
      <4>8. \A k \in a + 1..a + b: R[k] = V[k - a] BY <3>20, <4>1, <4>2, <4>4
      <4>9. \A k \in 1..a + b: k \in 1..a \/ (k \in a + 1..a + b /\ k - a \in 1..b) OBVIOUS
      <4>10. \A l \in 1..b: l + a \in a + 1..a + b /\ l + a \in 1..a + b /\ (l + a) - a = l
        OBVIOUS
      <4>11. \A l \in 1..a: l \in 1..a + b OBVIOUS
      <4>12. \A l \in DOMAIN V: \E k \in DOMAIN R: R[k] = V[l]
        <5> TAKE l \in DOMAIN V
        <5>1. R[l + a] = V[l] /\ l + a \in DOMAIN R BY <4>6, <4>8, <4>10
        <5> QED BY <5>1
      <4>13. \A k \in DOMAIN R: \/ \E l \in DOMAIN G: R[k] = G[l]
                                \/ \E l \in DOMAIN V: R[k] = V[l]
        BY <4>6, <4>7, <4>8, <4>9
      <4>14. \A l \in DOMAIN G: \E k \in DOMAIN R: R[k] = G[l] BY <4>6, <4>7, <4>11
      <4> QED BY <4>3, <4>5, <4>12, <4>13, <4>14
    <3>22. \A k \in DOMAIN R: /\ R[k].kind = "result" /\ R[k].calls = << >>
                              /\ \E n \in DOMAIN q: R[k].id = q[n]
      <4> TAKE k \in DOMAIN R
      <4>1. CASE \E l \in DOMAIN G: R[k] = G[l]
        <5>1. PICK j \in C: R[k] = h[j] BY <3>11, <4>1
        <5> QED BY <3>12, <5>1
      <4>2. CASE \E l \in DOMAIN V: R[k] = V[l]
        <5>1. PICK n \in M: R[k] = ResultOf(q[n]) BY <3>19, <4>2
        <5>2. n \in DOMAIN q BY <3>5, <3>8
        <5> QED BY <3>16, <5>1, <5>2
      <4> QED BY <3>21, <4>1, <4>2
    <3>23. \A n \in DOMAIN q: \E k \in DOMAIN R: R[k].id = q[n]
      <4> TAKE n \in DOMAIN q
      <4>1. CASE n \in M
        <5>1. PICK l \in DOMAIN V: V[l] = ResultOf(q[n]) BY <3>19, <4>1
        <5>2. PICK k \in DOMAIN R: R[k] = V[l] BY <3>21
        <5> QED BY <3>16, <5>1, <5>2
      <4>2. CASE n \notin M
        <5>1. PICK j \in C: h[j].id = q[n] BY <3>5, <3>13, <4>2
        <5>2. PICK l \in DOMAIN G: G[l] = h[j] BY <3>11
        <5>3. PICK k \in DOMAIN R: R[k] = G[l] BY <3>21
        <5> QED BY <5>1, <5>2, <5>3
      <4> QED BY <4>1, <4>2
    <3>24. Exchanges(<< x >> \o R) BY <2>1, <3>2, <3>4, <3>21, <3>22, <3>23, ExchangeOf
    <3>25. Output(h, i) = << x >> \o R
      BY <1>2, <1>4, <2>3, <3>6, <3>9, <3>14, <3>18, <3>20 DEF Output
    <3> QED BY <3>24, <3>25
  <2> QED BY <2>2, <2>3
<1> QED BY <1>3, <1>4
\* The context of an agent that waits for nothing is one its projection repairs.
LEMMA PreparedFits ==
    ASSUME MaxCalls \in Nat, NEW c, NEW m \in Nat, NEW s \in Nat, Sound(c, m, s),
           c.pending = << >>, Settled(c), NEW g, g = Prepared(c.history)
    PROVE  History(g, m, s) /\ Over(g)
<1>1. PICK h: h = c.history OBVIOUS
<1>2. History(h, m, s) /\ h \in Seq(Items) BY <1>1 DEF Sound, History
<1>3. PICK S: S = {i \in DOMAIN h: h[i].text \/ h[i].calls # << >>} OBVIOUS
<1>4. S \in SUBSET DOMAIN h BY <1>3
<1>5. g = Those(h, S) BY <1>1, <1>3 DEF Prepared
<1>6. /\ g \in Seq(Items)
      /\ \E f: /\ Embeds(f, g, h)
               /\ \A k \in DOMAIN g: f[k] \in S
               /\ \A i \in S: \E k \in DOMAIN g: f[k] = i
  BY <1>2, <1>4, <1>5, ThoseOf
<1>7. PICK f: /\ Embeds(f, g, h)
              /\ \A k \in DOMAIN g: f[k] \in S
              /\ \A i \in S: \E k \in DOMAIN g: f[k] = i
  BY <1>6
<1>8. /\ \A k \in DOMAIN g: f[k] \in DOMAIN h /\ g[k] = h[f[k]]
      /\ \A k, l \in DOMAIN g: k < l => f[k] < f[l]
  BY <1>7 DEF Embeds
<1>9. \A i \in DOMAIN h: h[i].kind # "step" => i \in S
  <2> TAKE i \in DOMAIN h
  <2>1. h[i].kind # "step" => h[i].text = TRUE BY <1>2 DEF History, Shaped
  <2> QED BY <1>3, <2>1, Zenon
<1>10. \A i \in DOMAIN h: \A x: Makes(h, i, x) => i \in S
  <2> TAKE i \in DOMAIN h
  <2>1. DOMAIN << >> = {} OBVIOUS
  <2>2. \A x: Makes(h, i, x) => h[i].calls # << >> BY <2>1 DEF Makes
  <2> QED BY <1>3, <2>2, Zenon
<1>11. History(g, m, s)
  <2>1. ASSUME NEW k \in DOMAIN g, g[k].kind = "result", NEW i \in DOMAIN h, Makes(h, i, g[k].id)
        PROVE  \E l \in DOMAIN g: f[l] = i
    BY <1>7, <1>10, <2>1
  <2>2. \A k \in DOMAIN g: g[k].kind = "result" =>
           \A i \in DOMAIN h: Makes(h, i, g[k].id) => \E l \in DOMAIN g: f[l] = i
    BY <2>1
  <2>3. g \in Seq(Items) /\ Embeds(f, g, h) /\ History(h, m, s) BY <1>2, <1>6, <1>7
  <2> QED BY <2>2, <2>3, HistoryPart, SMTT(90)
<1>12. \A k \in DOMAIN g: k \in Nat /\ f[k] \in Nat
  <2>1. DOMAIN g = 1..Len(g) /\ DOMAIN h = 1..Len(h) /\ Len(g) \in Nat /\ Len(h) \in Nat
    BY <1>2, <1>6
  <2> QED BY <1>8, <2>1
<1>13. ASSUME NEW k \in DOMAIN g, NEW l \in DOMAIN g, f[k] < f[l] PROVE k < l
  <2>1. k < l \/ l < k \/ k = l BY <1>12
  <2> QED BY <1>8, <1>12, <1>13, <2>1
<1>14. ASSUME NEW k \in DOMAIN g, NEW n \in DOMAIN g[k].calls
       PROVE  \/ Answered(g, g[k].calls[n])
              \/ \E l \in DOMAIN g: l > k /\ g[l].kind \in Incoming \cup {"summary"}
  <2>1. PICK i \in DOMAIN h: i = f[k] /\ g[k] = h[i] BY <1>8
  <2>2. PICK x: x = h[i].calls[n] OBVIOUS
  <2>3. DOMAIN << >> = {} OBVIOUS
  <2>4. \/ Answered(h, x)
        \/ \E l \in DOMAIN h: l > i /\ h[l].kind \in Incoming \cup {"summary"}
    BY <1>1, <1>14, <2>1, <2>2, <2>3 DEF Settled
  <2>5. CASE Answered(h, x)
    <3>1. PICK j \in DOMAIN h: h[j].kind = "result" /\ h[j].id = x BY <2>5 DEF Answered
    <3>2. j \in S BY <1>9, <3>1
    <3>3. PICK l \in DOMAIN g: f[l] = j BY <1>7, <3>2
    <3>4. g[l] = h[j] BY <1>8, <3>3
    <3> QED BY <2>1, <2>2, <3>1, <3>4 DEF Answered
  <2>6. CASE \E l \in DOMAIN h: l > i /\ h[l].kind \in Incoming \cup {"summary"}
    <3>1. PICK j \in DOMAIN h: j > i /\ h[j].kind \in Incoming \cup {"summary"} BY <2>6
    <3>2. h[j].kind # "step" BY <3>1 DEF Incoming
    <3>3. PICK l \in DOMAIN g: f[l] = j BY <1>7, <1>9, <3>2
    <3>4. g[l] = h[j] /\ f[k] < f[l] BY <1>8, <1>12, <2>1, <3>1, <3>3
    <3>5. k < l BY <1>13, <3>4
    <3> QED BY <1>12, <3>1, <3>4, <3>5
  <2> QED BY <2>1, <2>2, <2>4, <2>5, <2>6
<1> QED BY <1>11, <1>14 DEF Over

\* The request is put together message by message.
LEMMA RepairedFits ==
    ASSUME NEW h, NEW m, NEW s, History(h, m, s), MaxCalls \in Nat, Over(h)
    PROVE  Exchanges(Repaired(h))
<1> DEFINE next(f, n) == IF n = 0 THEN << >> ELSE f[n - 1] \o Output(h, n)
           upTo(k) == \E f: f = [n \in 0..k |-> next(f, n)]
           request == CHOOSE f: f = [n \in 0..Len(h) |-> next(f, n)]
<1>1. h \in Seq(Items) BY DEF History
<1>2. PICK N \in Nat: N = Len(h) BY <1>1
<1>3. upTo(N)
  <2> DEFINE D == {l \in Nat: ~upTo(l)}
  <2> SUFFICES ASSUME D # {} PROVE FALSE OBVIOUS
  <2>1. PICK l \in D: \A n \in D: l <= n
    <3> D \subseteq Nat OBVIOUS
    <3> HIDE DEF D
    <3> QED BY Least
  <2>2. l # 0
    <3>1. upTo(0)
      <4>1. PICK f: f = [n \in {0} |-> next(<< >>, 0)] OBVIOUS
      <4>2. \A g: next(g, 0) = next(<< >>, 0) OBVIOUS
      <4>3. f = [n \in {0} |-> next(f, n)]
        <5> HIDE DEF next
        <5> QED BY <4>1, <4>2
      <4>4. 0..0 = {0} OBVIOUS
      <4>5. f = [n \in 0..0 |-> next(f, n)]
        <5> HIDE DEF next
        <5> QED BY <4>3, <4>4
      <4> HIDE DEF next
      <4> QED BY <4>5
    <3> QED BY <3>1
  <2>3. l - 1 \in Nat /\ l \in Nat BY <2>2
  <2>4. upTo(l - 1)
    <3>1. l - 1 \notin D
      <4> HIDE DEF D
      <4> QED BY <2>1, <2>3
    <3> HIDE DEF upTo
    <3> QED BY <2>3, <3>1
  <2>5. PICK f: f = [n \in 0..(l - 1) |-> next(f, n)]
    <3> HIDE DEF next
    <3> QED BY <2>4
  <2>6. PICK g: g = [n \in 0..l |-> IF n = l THEN next(f, l) ELSE f[n]] OBVIOUS
  <2>7. \A e, k: next(e, k) = next(g, k) \/ (k # 0 /\ e[k - 1] # g[k - 1]) OBVIOUS
  <2>8. \A n \in 0..l: g[n] = next(g, n)
    <3> HIDE DEF next
    <3> TAKE n \in 0..l
    <3>1. CASE n = l
      <4>1. g[l] = next(f, l) /\ g[l - 1] = f[l - 1] BY <2>3, <2>6
      <4> QED BY <2>7, <3>1, <4>1
    <3>2. CASE n # l
      <4>1. n \in 0..(l - 1) /\ (n # 0 => n - 1 \in 0..l /\ n - 1 # l) BY <2>3, <3>2
      <4>2. g[n] = f[n] /\ f[n] = next(f, n) BY <2>5, <2>6, <3>2, <4>1
      <4>3. n # 0 => g[n - 1] = f[n - 1] BY <2>6, <4>1
      <4> QED BY <2>7, <4>2, <4>3
    <3> QED BY <3>1, <3>2
  <2>9. g = [n \in 0..l |-> next(g, n)]
    <3> HIDE DEF next
    <3> QED BY <2>6, <2>8
  <2>10. upTo(l)
    <3> HIDE DEF next
    <3> QED BY <2>9
  <2> QED BY <2>10
<1>4. PICK f: f = request /\ f = [n \in 0..N |-> next(f, n)]
  <2>1. upTo(Len(h)) BY <1>2, <1>3
  <2>2. request = [n \in 0..Len(h) |-> next(request, n)]
    <3> HIDE DEF next
    <3> QED BY <2>1
  <2> HIDE DEF request, next
  <2> QED BY <1>2, <2>2
<1>5. Repaired(h) = f[N] BY <1>2, <1>4 DEF Repaired
<1> HIDE DEF request, upTo
<1>6. f[0] = << >> /\ \A n \in 1..N: f[n] = f[n - 1] \o Output(h, n)
  <2>1. \A n \in 0..N: f[n] = next(f, n)
    <3> HIDE DEF next
    <3> QED BY <1>4
  <2>2. 0 \in 0..N /\ \A n \in 1..N: n \in 0..N /\ n # 0 OBVIOUS
  <2> QED BY <2>1, <2>2
<1> HIDE DEF next
<1> DEFINE bad == {n \in 0..N: ~Exchanges(f[n])}
<1>7. \A n \in 0..N: Exchanges(f[n])
  <2> SUFFICES ASSUME bad # {} PROVE FALSE OBVIOUS
  <2>1. PICK n \in bad: \A k \in bad: n <= k
    <3> bad \subseteq Nat OBVIOUS
    <3> HIDE DEF bad
    <3> QED BY Least
  <2>2. n \in 0..N /\ ~Exchanges(f[n]) OBVIOUS
  <2>3. n # 0 BY <1>6, <2>2, ExchangesEmpty
  <2>4. n \in 1..N /\ n - 1 \in 0..N /\ ~(n <= n - 1) BY <2>2, <2>3
  <2>5. Exchanges(f[n - 1]) BY <2>1, <2>4
  <2>6. Exchanges(Output(h, n))
    <3>1. n \in DOMAIN h BY <1>1, <1>2, <2>4
    <3> QED BY <3>1, OutputFits
  <2>7. f[n] = f[n - 1] \o Output(h, n) BY <1>6, <2>4
  <2> QED BY <2>2, <2>5, <2>6, <2>7, ExchangesConcat
<1> QED BY <1>2, <1>5, <1>7

LEMMA Accepted == ASSUME Calm, IInv PROVE RequestWellFormed
<1> SUFFICES ASSUME life = "up", turn = "between" PROVE WellFormed(Messages)
  BY DEF RequestWellFormed
<1>1. /\ messages \in Nat /\ steps \in Nat /\ MaxCalls \in Nat
      /\ Sound(context, messages, steps) /\ TurnKept /\ Overtaken
  BY Parts
<1>2. owed = << >> BY <1>1 DEF TurnKept
<1>3. context.pending = << >> BY <1>2, NothingOpen
<1>4. Settled(context) BY <1>1 DEF Overtaken
<1>5. PICK g: g = Prepared(context.history) OBVIOUS
<1>6. History(g, messages, steps) /\ Over(g) BY <1>1, <1>3, <1>4, <1>5, PreparedFits
<1>7. Exchanges(Repaired(g)) BY <1>1, <1>6, RepairedFits
<1> QED BY <1>5, <1>7, ExchangesFit DEF Messages
-----------------------------------------------------------------------------
\* The history, the log and the loop (agent/context/index.ts, agent/records/index.ts) keep
\* their types: a step belongs to a turn, and what is open to a step that was begun.
THEOREM TypeCorrect == ASSUME Calm PROVE Spec => []TypeOK
<1>1. IInv => TypeOK BY Typed
<1> QED BY <1>1, Always, PTL

\* The request of a step (context/index.ts, context/projector.ts): when undo and clear come
\* between turns, every call is followed at once by its results, whatever arrived in the
\* middle of a step, was taken back, summarized or cut off by a crash, for any number of
\* messages, steps, calls, undos and crashes.
THEOREM RequestsFit == ASSUME Calm PROVE Spec => []RequestWellFormed
<1>1. IInv => RequestWellFormed BY Accepted
<1> QED BY <1>1, Always, PTL

\* A resume (agent/records/index.ts, finishResume): the records logged so far restore the
\* history the agent has, as long as nothing changed it past the log, and none of them
\* throws when it is restored.
THEOREM ResumesAgree == ASSUME Calm PROVE Spec => []Resumes
<1>1. IInv => Resumes BY Restored DEF Resumes
<1> QED BY <1>1, Always, PTL

\* The messages of the user and of the harness (appendMessage, its deferred messages):
\* they keep the order they came in, and none is held back while no turn runs.
THEOREM AllDelivered == ASSUME Calm PROVE Spec => []IncomingDelivered
<1>1. IInv => IncomingDelivered BY Arrived, Released DEF IncomingDelivered
<1> QED BY <1>1, Always, PTL

\* compactionRound of compaction/full.ts: what a compaction takes away its summary covers,
\* except user messages that no longer fit.
THEOREM SummariesCover == ASSUME Calm PROVE Spec => NothingUncovered
<1>1. IInv /\ [Next]_vars => [SummaryCovers]_vars BY Summed
<1> QED BY <1>1, Always, PTL DEF Spec, NothingUncovered
=============================================================================
