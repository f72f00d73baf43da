------------------------- MODULE PromptServiceProofs -------------------------
(***************************************************************************)
(* PromptService for any prompts and any number of turns, as long as the   *)
(* calls cross one at a time and neither a turn nor a user is as swift     *)
(* (InTurn).  That no prompt is left behind rests on what is on its way:   *)
(* the end of the active prompt's turn is still to come, or the answer     *)
(* that makes it the active one of a turn that runs.                       *)
(***************************************************************************)
EXTENDS PromptService, WellFoundedInduction, TLAPS

\* The sequence q has x, and nothing twice.
Has(q, x) == \E i \in DOMAIN q: q[i] = x

Once(q) == \A i, j \in DOMAIN q: q[i] = q[j] => i = j

\* The calls and the answers cross one at a time, and neither a turn nor a user is as
\* swift.
InTurn == ~Swift /\ ~Overlap

Typed ==
    /\ queue \in Seq(Prompt) /\ steering \in Seq(Prompt) /\ wire \in Seq(Messages)
    /\ active \subseteq Prompt /\ aborted \subseteq Prompt
    /\ queued \subseteq Prompt /\ cancelling \subseteq Prompt
    /\ turnOf \in [Prompt -> Nat] /\ told \in [Prompt -> Nat]
    /\ stage \in [Prompt -> Stages]
    /\ running \in Nat /\ turns \in Nat
    /\ abandoned \in BOOLEAN

Waits(p) == Has(queue, p) \/ Has(steering, p)

\* No turn was ever started for p.
Fresh(p) ==
    /\ p \notin active /\ p \notin aborted /\ p \notin cancelling
    /\ turnOf[p] = 0 /\ told[p] = 0

\* A prompt that waits does so in one place and has not been started.
Queues ==
    /\ Once(queue) /\ Once(steering)
    /\ \A p \in Prompt: ~ (Has(queue, p) /\ Has(steering, p))
    /\ \A p \in Prompt: Waits(p) => stage[p] = "there" /\ Fresh(p)

\* What the service holds of a prompt at each stage, and what it has told of it.
Places ==
    /\ \A p \in Prompt: stage[p] \in {"new", "checkpoint", "busy", "failing", "failed"} => Fresh(p)
    /\ \A p \in Prompt: stage[p] \in {"calling", "answered"} =>
          p \in active /\ p \notin aborted /\ p \notin cancelling /\ told[p] = 0
    /\ \A p \in Prompt: stage[p] = "there" /\ ~Waits(p) =>
          told[p] = IF p \in cancelling \/ (p \in active /\ p \notin aborted) THEN 0 ELSE 1
    /\ cancelling \subseteq aborted

\* One prompt is started or active at a time.
OneStart ==
    /\ \A p, q \in Prompt: Starting(p) /\ Starting(q) => p = q
    /\ \A p, q \in Prompt: Starting(p) /\ q \in active => p = q
    /\ \A p, q \in active: p = q

IsAnswer(m) == m.what \in {"ok", "busy", "error"}

\* What is on its way: at most the end of the turn before, the start of the running
\* one, and the answer to the one call there is.
WireOrder ==
    /\ running = 0 \/ running = turns
    /\ \A i \in DOMAIN wire: wire[i].what = "ended" =>
          i = 1 /\ wire[i].turn \in 1..turns /\ wire[i].turn # running
    /\ \A i \in DOMAIN wire: wire[i].what = "started" => running # 0 /\ wire[i].turn = running
    /\ \A i, j \in DOMAIN wire: wire[i].what = "started" /\ wire[j].what = "started" => i = j
    /\ \A i \in DOMAIN wire: IsAnswer(wire[i]) =>
          i = Len(wire) /\ wire[i].prompt \in Prompt /\ stage[wire[i].prompt] = "answered"

NoStart == \A i \in DOMAIN wire: wire[i].what # "started"

\* The end of turn t is the next thing to arrive.
Ending(t) == wire # << >> /\ wire[1].what = "ended" /\ wire[1].turn = t

\* What the core has made of the prompt that was sent.
Calls ==
    /\ \A p \in Prompt: stage[p] = "calling" => turnOf[p] = 0 /\ NoStart
    /\ \A p \in Prompt: stage[p] = "answered" =>
          /\ wire # << >> /\ IsAnswer(wire[Len(wire)]) /\ wire[Len(wire)].prompt = p
          /\ wire[Len(wire)].what = "ok" =>
                running # 0 /\ (turnOf[p] = running \/ (turnOf[p] = 0 /\ ~NoStart))
          /\ wire[Len(wire)].what = "busy" => running # 0
          /\ wire[Len(wire)].what # "ok" => turnOf[p] = 0 /\ NoStart
    /\ \A p \in Prompt: stage[p] = "busy" => running # 0
    /\ \A p \in active: stage[p] = "there" =>
          turnOf[p] # 0 /\ (turnOf[p] = running \/ Ending(turnOf[p]))

\* Something is to come that starts the next one.
Served ==
    queue # << >> /\ ~abandoned =>
        \/ active # {} \/ (\E p \in Prompt: Starting(p)) \/ running # 0
        \/ \E t \in Nat: Ending(t)

IInv == Typed /\ Queues /\ Places /\ OneStart /\ WireOrder /\ Calls /\ Served
-----------------------------------------------------------------------------
(* Sequences *)

LEMMA Least ==
    ASSUME NEW D, D \subseteq Nat, D # {}
    PROVE  \E m \in D: \A n \in D: m <= n
<1>1. PICK m \in D: \A n \in D: << n, m >> \notin OpToRel(<, Nat)
  BY NatLessThanWellFounded, WFMin
<1>2. \A n \in D: ~ (n < m) BY <1>1 DEF OpToRel
<1> QED BY <1>2

LEMMA WithoutIs ==
    ASSUME NEW S, NEW q \in Seq(S), NEW s
    PROVE  /\ Without(q, s) \in Seq(S)
           /\ \A x: Has(Without(q, s), x) <=> Has(q, x) /\ x \notin s
           /\ Once(q) => Once(Without(q, s))
<1> DEFINE next(f, n) == IF n = 0 THEN << >>
                         ELSE IF q[n] \in s THEN f[n - 1] ELSE Append(f[n - 1], q[n])
           upTo(m) == \E f: f = [n \in 0..m |-> next(f, n)]
           rest == CHOOSE f: f = [n \in 0..Len(q) |-> next(f, n)]
<1>1. Without(q, s) = rest[Len(q)] BY DEF Without
<1>2. upTo(Len(q))
  <2> DEFINE D == {m \in Nat: ~upTo(m)}
  <2> SUFFICES ASSUME D # {} PROVE FALSE OBVIOUS
  <2>1. PICK m \in D: \A n \in D: m <= n
    <3> D \subseteq Nat OBVIOUS
    <3> HIDE DEF D
    <3> QED BY Least
  <2>2. m # 0
    <3>1. upTo(0)
      <4> DEFINE f == [n \in 0..0 |-> << >>]
      <4>1. f = [n \in 0..0 |-> next(f, n)] OBVIOUS
      <4> QED BY <4>1
    <3> QED BY <3>1
  <2>3. m - 1 \in Nat /\ m \in Nat BY <2>2
  <2>4. upTo(m - 1)
    <3>1. m - 1 \notin D
      <4> HIDE DEF D
      <4> QED BY <2>1, <2>3
    <3> HIDE DEF upTo
    <3> QED BY <2>3, <3>1
  <2>5. PICK f: f = [n \in 0..(m - 1) |-> next(f, n)] BY <2>4
  <2>6. PICK g: g = [n \in 0..m |-> IF n = m THEN next(f, m) ELSE f[n]] OBVIOUS
  <2>7. \A n \in 0..m: g[n] = next(g, n)
    <3> TAKE n \in 0..m
    <3>1. CASE n = m
      <4>1. g[m] = next(f, m) /\ g[m - 1] = f[m - 1] BY <2>3, <2>6
      <4> QED BY <2>2, <2>3, <3>1, <4>1
    <3>2. CASE n # m
      <4>1. n \in 0..(m - 1) /\ (n # 0 => n - 1 \in 0..m /\ n - 1 # m) BY <2>3, <3>2
      <4>2. g[n] = f[n] /\ f[n] = next(f, n) BY <2>5, <2>6, <3>2, <4>1
      <4>3. n # 0 => g[n - 1] = f[n - 1] BY <2>6, <4>1
      <4> QED BY <4>2, <4>3
    <3> QED BY <3>1, <3>2
  <2>8. g = [n \in 0..m |-> next(g, n)]
    <3> HIDE DEF next
    <3> QED BY <2>6, <2>7
  <2>9. upTo(m) BY <2>8
  <2> QED BY <2>9
<1>3. rest = [n \in 0..Len(q) |-> next(rest, n)] BY <1>2
<1> HIDE DEF rest
<1>4. /\ rest[0] = << >>
      /\ \A n \in 1..Len(q): rest[n] = IF q[n] \in s THEN rest[n - 1] ELSE Append(rest[n - 1], q[n])
  <2>1. \A n \in 0..Len(q): rest[n] = next(rest, n)
    <3> HIDE DEF next
    <3> QED BY <1>3, Zenon
  <2>2. 0 \in 0..Len(q) /\ \A n \in 1..Len(q): n \in 0..Len(q) /\ n # 0 OBVIOUS
  <2> QED BY <2>1, <2>2
<1> DEFINE good(n) == /\ rest[n] \in Seq(S)
                      /\ \A x: Has(rest[n], x) <=> x \notin s /\ \E i \in 1..n: q[i] = x
                      /\ Once(q) => Once(rest[n])
           bad == {n \in 0..Len(q): ~good(n)}
<1>5. good(0) BY <1>4 DEF Has, Once
<1>6. ASSUME NEW n \in 1..Len(q), good(n - 1)
      PROVE  good(n)
  <2>1. PICK r: r = rest[n - 1] OBVIOUS
  <2>2. /\ r \in Seq(S) /\ q[n] \in S
        /\ \A x: Has(r, x) <=> x \notin s /\ \E i \in 1..(n - 1): q[i] = x
        /\ Once(q) => Once(r)
    BY <1>6, <2>1
  <2>3. CASE q[n] \in s
    <3>1. rest[n] = r BY <1>4, <2>1, <2>3
    <3>2. \A x: (x \notin s /\ \E i \in 1..n: q[i] = x) <=> (x \notin s /\ \E i \in 1..(n - 1): q[i] = x)
      BY <2>3
    <3> QED BY <2>2, <3>1, <3>2
  <2>4. CASE q[n] \notin s
    <3>1. rest[n] = Append(r, q[n]) BY <1>4, <2>1, <2>4
    <3>2. PICK a: a = Append(r, q[n]) OBVIOUS
    <3>3. /\ a \in Seq(S) /\ Len(a) = Len(r) + 1 /\ a[Len(r) + 1] = q[n]
          /\ \A i \in 1..Len(r): a[i] = r[i]
      BY <2>2, <3>2
    <3>4. \A x: Has(a, x) <=> Has(r, x) \/ x = q[n]
      <4>1. DOMAIN a = 1..(Len(r) + 1) /\ DOMAIN r = 1..Len(r) /\ Len(r) \in Nat BY <2>2, <3>3
      <4>2. 1..(Len(r) + 1) = 1..Len(r) \cup {Len(r) + 1} BY <4>1
      <4> HIDE DEF good, next
      <4> QED BY <3>3, <4>1, <4>2 DEF Has
    <3>5. \A x: Has(a, x) <=> x \notin s /\ \E i \in 1..n: q[i] = x
      <4>1. \A x: (\E i \in 1..n: q[i] = x) <=> (\E i \in 1..(n - 1): q[i] = x) \/ q[n] = x OBVIOUS
      <4> QED BY <2>2, <2>4, <3>4, <4>1
    <3>6. ASSUME Once(q) PROVE Once(a)
      <4>1. \A i \in 1..(n - 1): q[i] # q[n] BY <3>6 DEF Once
      <4>2. ~Has(r, q[n]) BY <2>2, <4>1
      <4> QED BY <2>2, <3>3, <3>6, <4>2 DEF Once, Has
    <3> QED BY <3>1, <3>2, <3>3, <3>5, <3>6
  <2> QED BY <2>3, <2>4
<1>7. good(Len(q))
  <2> SUFFICES ASSUME ~good(Len(q)) PROVE FALSE OBVIOUS
  <2>1. bad \subseteq Nat /\ bad # {}
    <3> HIDE DEF good
    <3> QED OBVIOUS
  <2>2. PICK n \in bad: \A k \in bad: n <= k
    <3> HIDE DEF bad
    <3> QED BY <2>1, Least
  <2>3. n # 0 /\ n \in 0..Len(q) /\ ~good(n) BY <1>5
  <2>4. n \in 1..Len(q) /\ n - 1 \in 0..Len(q) BY <2>3
  <2>5. n - 1 \notin bad
    <3> HIDE DEF bad
    <3> QED BY <2>2, <2>4
  <2>6. good(n - 1)
    <3> HIDE DEF good
    <3> QED BY <2>4, <2>5
  <2> QED BY <1>6, <2>3, <2>4, <2>6
<1>8. \A x: Has(q, x) <=> \E i \in 1..Len(q): q[i] = x BY DEF Has
<1> QED BY <1>1, <1>7, <1>8

LEMMA Appended ==
    ASSUME NEW S, NEW q \in Seq(S), NEW x \in S
    PROVE  /\ Append(q, x) \in Seq(S)
           /\ \A y: Has(Append(q, x), y) <=> Has(q, y) \/ y = x
           /\ Once(q) /\ ~Has(q, x) => Once(Append(q, x))
<1>1. PICK a: a = Append(q, x) OBVIOUS
<1>2. /\ a \in Seq(S) /\ Len(a) = Len(q) + 1 /\ a[Len(q) + 1] = x
      /\ \A i \in 1..Len(q): a[i] = q[i]
  BY <1>1
<1>3. DOMAIN a = 1..(Len(q) + 1) /\ DOMAIN q = 1..Len(q) /\ Len(q) \in Nat BY <1>2
<1>4. 1..(Len(q) + 1) = 1..Len(q) \cup {Len(q) + 1} BY <1>3
<1>5. \A y: Has(a, y) <=> Has(q, y) \/ y = x BY <1>2, <1>3, <1>4 DEF Has
<1>6. ASSUME Once(q), ~Has(q, x) PROVE Once(a)
  BY <1>2, <1>3, <1>4, <1>6 DEF Once, Has
<1> QED BY <1>1, <1>2, <1>5, <1>6

LEMMA Shifted ==
    ASSUME NEW S, NEW q \in Seq(S), q # << >>
    PROVE  /\ Head(q) \in S /\ Has(q, Head(q)) /\ Tail(q) \in Seq(S)
           /\ Once(q) => /\ Once(Tail(q))
                         /\ \A y: Has(Tail(q), y) <=> Has(q, y) /\ y # Head(q)
<1>1. PICK t: t = Tail(q) OBVIOUS
<1>2. /\ t \in Seq(S) /\ Len(t) = Len(q) - 1 /\ Len(q) \in Nat \ {0}
      /\ \A i \in 1..(Len(q) - 1): t[i] = q[i + 1]
  BY <1>1
<1>3. Head(q) = q[1] /\ Head(q) \in S BY <1>2
<1>4. DOMAIN t = 1..(Len(q) - 1) /\ DOMAIN q = 1..Len(q) BY <1>2
<1>5. Has(q, Head(q)) BY <1>2, <1>3, <1>4 DEF Has
<1>6. ASSUME Once(q)
      PROVE  Once(t) /\ \A y: Has(t, y) <=> Has(q, y) /\ y # Head(q)
  <2>1. \A i, j \in 1..Len(q): q[i] = q[j] => i = j BY <1>4, <1>6 DEF Once
  <2>2. Once(t)
    <3> SUFFICES ASSUME NEW i \in 1..(Len(q) - 1), NEW j \in 1..(Len(q) - 1), t[i] = t[j]
                 PROVE  i = j
      BY <1>4 DEF Once
    <3>1. q[i + 1] = q[j + 1] /\ i + 1 \in 1..Len(q) /\ j + 1 \in 1..Len(q) BY <1>2
    <3> QED BY <2>1, <3>1
  <2>3. ASSUME NEW y, Has(t, y) PROVE Has(q, y) /\ y # Head(q)
    <3>1. PICK i \in 1..(Len(q) - 1): t[i] = y BY <1>4, <2>3 DEF Has
    <3>2. i + 1 \in 1..Len(q) /\ q[i + 1] = y /\ i + 1 # 1 /\ 1 \in 1..Len(q) BY <1>2, <3>1
    <3> QED BY <1>3, <1>4, <2>1, <3>2 DEF Has
  <2>4. ASSUME NEW y, Has(q, y), y # Head(q) PROVE Has(t, y)
    <3>1. PICK i \in 1..Len(q): q[i] = y BY <1>4, <2>4 DEF Has
    <3>2. i # 1 BY <1>3, <2>4, <3>1
    <3>3. i - 1 \in 1..(Len(q) - 1) /\ (i - 1) + 1 = i BY <1>2, <3>2
    <3>4. t[i - 1] = y BY <1>2, <3>1, <3>3
    <3> QED BY <1>4, <3>3, <3>4 DEF Has
  <2> QED BY <2>2, <2>3, <2>4
<1> QED BY <1>1, <1>2, <1>3, <1>5, <1>6

LEMMA Joined ==
    ASSUME NEW S, NEW s \in Seq(S), NEW q \in Seq(S)
    PROVE  /\ s \o q \in Seq(S)
           /\ \A y: Has(s \o q, y) <=> Has(s, y) \/ Has(q, y)
           /\ Once(s) /\ Once(q) /\ (\A y: ~ (Has(s, y) /\ Has(q, y))) => Once(s \o q)
<1>1. PICK c: c = s \o q OBVIOUS
<1>2. PICK m, n \in Nat: m = Len(s) /\ n = Len(q) OBVIOUS
<1>3. /\ c \in Seq(S) /\ Len(c) = m + n
      /\ \A i \in 1..m: c[i] = s[i]
      /\ \A i \in 1..n: c[m + i] = q[i]
  BY <1>1, <1>2
<1>4. DOMAIN c = 1..(m + n) /\ DOMAIN s = 1..m /\ DOMAIN q = 1..n BY <1>2, <1>3
<1>5. \A k \in 1..(m + n): k \in 1..m \/ (k - m \in 1..n /\ m + (k - m) = k) BY <1>2
<1>6. \A k \in 1..(m + n): k \in 1..m => c[k] = s[k] BY <1>3
<1>7. \A k \in 1..(m + n): k - m \in 1..n => c[k] = q[k - m]
  <2> TAKE k \in 1..(m + n)
  <2>1. m + (k - m) = k BY <1>2
  <2> QED BY <1>3, <2>1
<1>8. ASSUME NEW y PROVE Has(c, y) <=> Has(s, y) \/ Has(q, y)
  <2>1. ASSUME NEW k \in 1..(m + n), c[k] = y PROVE Has(s, y) \/ Has(q, y)
    BY <1>4, <1>5, <1>6, <1>7, <2>1 DEF Has
  <2>2. ASSUME NEW k \in 1..m, s[k] = y PROVE Has(c, y)
    <3>1. k \in 1..(m + n) BY <1>2
    <3> QED BY <1>3, <1>4, <2>2, <3>1 DEF Has
  <2>3. ASSUME NEW k \in 1..n, q[k] = y PROVE Has(c, y)
    <3>1. m + k \in 1..(m + n) BY <1>2
    <3> QED BY <1>3, <1>4, <2>3, <3>1 DEF Has
  <2> QED BY <1>4, <2>1, <2>2, <2>3 DEF Has
<1>9. ASSUME Once(s), Once(q), \A y: ~ (Has(s, y) /\ Has(q, y))
      PROVE  Once(c)
  <2> SUFFICES ASSUME NEW i \in 1..(m + n), NEW j \in 1..(m + n), c[i] = c[j]
               PROVE  i = j
    BY <1>4 DEF Once
  <2>1. CASE i \in 1..m /\ j \in 1..m BY <1>4, <1>6, <1>9, <2>1 DEF Once
  <2>2. CASE i - m \in 1..n /\ j - m \in 1..n
    <3>1. i - m = j - m BY <1>4, <1>7, <1>9, <2>2 DEF Once
    <3> QED BY <1>2, <3>1
  <2>3. CASE i \in 1..m /\ j - m \in 1..n
    <3>1. Has(s, c[i]) /\ Has(q, c[j]) BY <1>4, <1>6, <1>7, <2>3 DEF Has
    <3> QED BY <1>9, <3>1
  <2>4. CASE i - m \in 1..n /\ j \in 1..m
    <3>1. Has(q, c[i]) /\ Has(s, c[j]) BY <1>4, <1>6, <1>7, <2>4 DEF Has
    <3> QED BY <1>9, <3>1
  <2> QED BY <1>5, <2>1, <2>2, <2>3, <2>4
<1> QED BY <1>1, <1>3, <1>8, <1>9

LEMMA Single ==
    ASSUME NEW S, NEW x \in S
    PROVE  /\ << x >> \in Seq(S) /\ Once(<< x >>)
           /\ \A y: Has(<< x >>, y) <=> y = x
BY DEF Has, Once
-----------------------------------------------------------------------------
LEMMA GoesIs ==
    ASSUME Typed, NEW p \in Prompt, NEW to \in Stages, Goes(p, to)
    PROVE  /\ stage' \in [Prompt -> Stages]
           /\ \A x \in Prompt: stage'[x] = IF x = p THEN to ELSE stage[x]
BY DEF Typed, Goes

\* The queue hands over its first prompt, if it has one.
LEMMA Picks ==
    ASSUME NEW q \in Seq(Prompt), NEW st \in [Prompt -> Stages], Once(q), queued \subseteq Prompt,
           StartNext({}, q, st)
    PROVE  \E H \in SUBSET Prompt:
              /\ \A g, h \in H: g = h
              /\ H = {} => q = << >>
              /\ \A h \in H: Has(q, h)
              /\ stage' \in [Prompt -> Stages] /\ queued' \subseteq Prompt
              /\ queue' \in Seq(Prompt) /\ Once(queue')
              /\ \A x \in Prompt: stage'[x] = IF x \in H THEN "checkpoint" ELSE st[x]
              /\ \A x: Has(queue', x) <=> Has(q, x) /\ x \notin H
<1>1. CASE q = << >>
  <2>1. queue' = q /\ stage' = st /\ queued' = queued BY <1>1 DEF StartNext
  <2>2. /\ \A g, h \in {}: g = h
        /\ {} \in SUBSET Prompt
        /\ \A x \in Prompt: stage'[x] = IF x \in {} THEN "checkpoint" ELSE st[x]
        /\ \A x: Has(queue', x) <=> Has(q, x) /\ x \notin {}
    BY <2>1
  <2> QED BY <1>1, <2>1, <2>2
<1>2. CASE q # << >>
  <2>1. PICK h: h = Head(q) OBVIOUS
  <2>2. /\ h \in Prompt /\ Has(q, h) /\ Tail(q) \in Seq(Prompt) /\ Once(Tail(q))
        /\ \A y: Has(Tail(q), y) <=> Has(q, y) /\ y # h
    BY <1>2, <2>1, Shifted
  <2>3. queue' = Tail(q) /\ stage' = [st EXCEPT ![h] = "checkpoint"] /\ queued' = queued \cup {h}
    BY <1>2, <2>1 DEF StartNext
  <2>4. /\ stage' \in [Prompt -> Stages]
        /\ \A x \in Prompt: stage'[x] = IF x \in {h} THEN "checkpoint" ELSE st[x]
    BY <2>2, <2>3 DEF Stages
  <2>5. /\ {h} \in SUBSET Prompt /\ {h} # {} /\ queued' \subseteq Prompt
        /\ \A f, g \in {h}: f = g
        /\ \A g \in {h}: Has(q, g)
        /\ \A x: Has(queue', x) <=> Has(q, x) /\ x \notin {h}
    BY <2>2, <2>3
  <2>6. queue' \in Seq(Prompt) /\ Once(queue') BY <2>2, <2>3
  <2> QED BY <2>4, <2>5, <2>6
<1> QED BY <1>1, <1>2

\* A start or a turn is over, nobody else is being started, and the queue, now q, hands
\* over.
LEMMA Handover ==
    ASSUME Typed, NEW q \in Seq(Prompt), NEW st \in [Prompt -> Stages], Once(q), Once(steering),
           StartNext({}, q, st),
           active' = {}, UNCHANGED << turnOf, aborted, cancelling, steering >>,
           cancelling \subseteq aborted,
           \A p \in Prompt: ~ (Has(q, p) /\ Has(steering, p)),
           \A p \in Prompt: Has(q, p) \/ Has(steering, p) => st[p] = "there" /\ Fresh(p)',
           \A p \in Prompt: st[p] \in {"new", "there", "failed"},
           \A p \in Prompt: st[p] # "there" => Fresh(p)',
           \A p \in Prompt: st[p] = "there" /\ ~Has(q, p) /\ ~Has(steering, p) =>
               told'[p] = IF p \in cancelling THEN 0 ELSE 1
    PROVE  /\ queue' \in Seq(Prompt) /\ stage' \in [Prompt -> Stages] /\ queued' \subseteq Prompt
           /\ Queues' /\ Places' /\ OneStart'
           /\ queue' # << >> => \E p \in Prompt: Starting(p)'
           /\ \A p \in Prompt: stage'[p] \in {"new", "checkpoint", "there", "failed"}
<1>1. PICK H \in SUBSET Prompt:
              /\ \A g, h \in H: g = h
              /\ H = {} => q = << >>
              /\ \A h \in H: Has(q, h)
              /\ stage' \in [Prompt -> Stages] /\ queued' \subseteq Prompt
              /\ queue' \in Seq(Prompt) /\ Once(queue')
              /\ \A x \in Prompt: stage'[x] = IF x \in H THEN "checkpoint" ELSE st[x]
              /\ \A x: Has(queue', x) <=> Has(q, x) /\ x \notin H
  BY Picks DEF Typed
<1>2. \A p \in Prompt: stage'[p] \in {"new", "checkpoint", "there", "failed"} BY <1>1
<1>3. \A p \in Prompt: Has(steering', p) <=> Has(steering, p) OBVIOUS
<1>4. Queues' BY <1>1, <1>3 DEF Queues, Waits
<1>5. \A p \in Prompt: Waits(p)' <=> (Has(q, p) /\ p \notin H) \/ Has(steering, p)
  BY <1>1, <1>3 DEF Waits
<1>6. Places'
  <2>1. \A p \in Prompt: stage'[p] \in {"new", "checkpoint", "busy", "failing", "failed"} => Fresh(p)'
    <3> TAKE p \in Prompt
    <3>1. CASE p \in H
      <4>1. Has(q, p) BY <1>1, <3>1
      <4> QED BY <4>1
    <3>2. CASE p \notin H
      <4>1. stage'[p] = st[p] BY <1>1, <3>2
      <4> QED BY <4>1
    <3> QED BY <3>1, <3>2
  <2>2. ASSUME NEW p \in Prompt, stage'[p] = "there", ~Waits(p)'
        PROVE  told'[p] = IF p \in cancelling' \/ (p \in active' /\ p \notin aborted') THEN 0 ELSE 1
    <3>1. p \notin H /\ stage'[p] = st[p] BY <1>1, <2>2
    <3>2. ~Has(q, p) /\ ~Has(steering, p) BY <1>5, <2>2, <3>1
    <3>3. told'[p] = IF p \in cancelling THEN 0 ELSE 1 BY <2>2, <3>1, <3>2
    <3> QED BY <3>3
  <2> QED BY <1>2, <2>1, <2>2 DEF Places
<1>7. OneStart'
  <2>1. \A p \in Prompt: Starting(p)' => p \in H BY <1>1 DEF Starting
  <2> QED BY <1>1, <2>1 DEF OneStart
<1>8. ASSUME queue' # << >> PROVE \E p \in Prompt: Starting(p)'
  <2>1. PICK h: h \in H
    <3>1. CASE H = {}
      <4>1. \A x: ~Has(q, x) BY <1>1, <3>1 DEF Has
      <4>2. \A x: ~Has(queue', x) BY <1>1, <4>1
      <4>3. Len(queue') > 0 BY <1>1, <1>8
      <4>4. Has(queue', queue'[1]) BY <1>1, <4>3 DEF Has
      <4> QED BY <4>2, <4>4
    <3> QED BY <3>1
  <2>2. h \in Prompt /\ stage'[h] = "checkpoint" BY <1>1, <2>1
  <2> QED BY <2>2 DEF Starting
<1> QED BY <1>1, <1>2, <1>4, <1>6, <1>7, <1>8
-----------------------------------------------------------------------------
(* What has nothing to do with the wire leaves it in order. *)
LEMMA WireStays ==
    ASSUME WireOrder, UNCHANGED << wire, running, turns >>,
           \A x \in Prompt: stage[x] = "answered" => stage'[x] = "answered"
    PROVE  WireOrder'
BY DEF WireOrder, IsAnswer

LEMMA CallsStay ==
    ASSUME Calls, active \subseteq Prompt, UNCHANGED << wire, running, turnOf, active >>,
           \A x \in Prompt: stage'[x] = stage[x]
                           \/ (stage'[x] \in {"there", "checkpoint"} /\ x \notin active)
    PROVE  Calls'
<1>1. (NoStart' <=> NoStart) /\ \A t: Ending(t)' <=> Ending(t) BY DEF NoStart, Ending
<1>2. \A x \in Prompt: stage'[x] \in {"calling", "answered", "busy"} => stage'[x] = stage[x]
  OBVIOUS
<1>3. \A x \in active': stage'[x] = stage[x] OBVIOUS
<1>4. \A x \in Prompt: stage'[x] = "calling" => turnOf'[x] = 0 /\ NoStart' BY <1>1, <1>2 DEF Calls
<1>5. \A x \in Prompt: stage'[x] = "busy" => running' # 0 BY <1>2 DEF Calls
<1>6. \A x \in active': stage'[x] = "there" =>
          turnOf'[x] # 0 /\ (turnOf'[x] = running' \/ Ending(turnOf[x])')
  BY <1>1, <1>3 DEF Calls
<1>7. ASSUME NEW x \in Prompt, stage'[x] = "answered"
      PROVE  /\ wire' # << >> /\ IsAnswer(wire[Len(wire)])' /\ wire'[Len(wire')].prompt = x
             /\ wire'[Len(wire')].what = "ok" =>
                   running' # 0 /\ (turnOf'[x] = running' \/ (turnOf'[x] = 0 /\ ~NoStart'))
             /\ wire'[Len(wire')].what = "busy" => running' # 0
             /\ wire'[Len(wire')].what # "ok" => turnOf'[x] = 0 /\ NoStart'
  BY <1>1, <1>2, <1>7 DEF Calls, IsAnswer
<1> QED BY <1>4, <1>5, <1>6, <1>7 DEF Calls

LEMMA SubmitKeeps ==
    ASSUME IInv, NEW p \in Prompt, InTurn, Submit(p)
    PROVE  IInv'
<1>1. /\ stage[p] = "new"
      /\ UNCHANGED << active, turnOf, aborted, queued, cancelling, steering, told, running, turns,
                      wire, abandoned >>
  BY DEF Submit, core
<1>2. Typed /\ Queues /\ Places /\ OneStart /\ WireOrder /\ Calls /\ Served BY DEF IInv
<1>3. Fresh(p) /\ ~Has(queue, p) /\ ~Has(steering, p) BY <1>1, <1>2 DEF Places, Queues, Waits
<1>4. CASE active # {}
  <2>1. queue' = Append(queue, p) /\ Goes(p, "there") BY <1>4 DEF Submit
  <2>2. /\ stage' \in [Prompt -> Stages]
        /\ \A x \in Prompt: stage'[x] = IF x = p THEN "there" ELSE stage[x]
    BY <1>2, <2>1, GoesIs DEF Stages
  <2>3. /\ queue' \in Seq(Prompt) /\ Once(queue')
        /\ \A y: Has(queue', y) <=> Has(queue, y) \/ y = p
    BY <1>2, <1>3, <2>1, Appended DEF Typed, Queues
  <2>4. Typed' BY <1>1, <1>2, <2>2, <2>3 DEF Typed
  <2>5. Queues' BY <1>1, <1>2, <1>3, <2>2, <2>3 DEF Queues, Waits, Fresh
  <2>6. Places' BY <1>1, <1>2, <1>3, <2>2, <2>3 DEF Places, Waits, Fresh
  <2>7. OneStart' BY <1>1, <1>2, <2>2 DEF OneStart, Starting
  <2>8. WireOrder' BY <1>1, <1>2, <2>2, WireStays
  <2>9. Calls' BY <1>1, <1>2, <1>3, <2>2, CallsStay DEF Typed, Fresh
  <2>10. Served' BY <1>1, <1>4 DEF Served
  <2> QED BY <2>4, <2>5, <2>6, <2>7, <2>8, <2>9, <2>10 DEF IInv
<1>5. CASE active = {}
  <2>1. queue' = queue /\ Goes(p, "checkpoint") /\ \A x \in Prompt: ~Starting(x)
    BY <1>5 DEF Submit, Free, InTurn
  <2>2. /\ stage' \in [Prompt -> Stages]
        /\ \A x \in Prompt: stage'[x] = IF x = p THEN "checkpoint" ELSE stage[x]
    BY <1>2, <2>1, GoesIs DEF Stages
  <2>3. Typed' BY <1>1, <1>2, <2>1, <2>2 DEF Typed
  <2>4. Queues' BY <1>1, <1>2, <1>3, <2>1, <2>2 DEF Queues, Waits, Fresh
  <2>5. Places' BY <1>1, <1>2, <1>3, <2>1, <2>2 DEF Places, Waits, Fresh
  <2>6. OneStart' BY <1>1, <1>2, <1>5, <2>1, <2>2 DEF OneStart, Starting
  <2>7. WireOrder' BY <1>1, <1>2, <2>2, WireStays
  <2>8. Calls' BY <1>1, <1>2, <1>3, <2>2, CallsStay DEF Typed, Fresh
  <2>9. Served' BY <2>2 DEF Served, Starting
  <2> QED BY <2>3, <2>4, <2>5, <2>6, <2>7, <2>8, <2>9 DEF IInv
<1> QED BY <1>4, <1>5

LEMMA CapturedKeeps ==
    ASSUME IInv, NEW p \in Prompt, InTurn, Captured(p)
    PROVE  IInv'
<1>1. /\ stage[p] = "checkpoint" /\ Goes(p, "calling") /\ active' = {p} /\ NoStart
      /\ UNCHANGED << queue, turnOf, aborted, queued, cancelling, steering, told, running, turns,
                      wire, abandoned >>
  BY DEF Captured, core, NoStart, InTurn
<1>2. Typed /\ Queues /\ Places /\ OneStart /\ WireOrder /\ Calls BY DEF IInv
<1>3. Fresh(p) /\ ~Has(queue, p) /\ ~Has(steering, p) BY <1>1, <1>2 DEF Places, Queues, Waits
<1>4. active = {} BY <1>1, <1>2, <1>3 DEF OneStart, Starting, Fresh, Typed
<1>5. /\ stage' \in [Prompt -> Stages]
      /\ \A x \in Prompt: stage'[x] = IF x = p THEN "calling" ELSE stage[x]
  BY <1>1, <1>2, GoesIs DEF Stages
<1>6. Typed' BY <1>1, <1>2, <1>5 DEF Typed
<1>7. Queues' BY <1>1, <1>2, <1>3, <1>5 DEF Queues, Waits, Fresh
<1>8. Places' BY <1>1, <1>2, <1>3, <1>4, <1>5 DEF Places, Waits, Fresh
<1>9. OneStart' BY <1>1, <1>2, <1>5 DEF OneStart, Starting
<1>10. WireOrder' BY <1>1, <1>2, <1>5, WireStays
<1>11. Calls' BY <1>1, <1>2, <1>3, <1>5 DEF Calls, NoStart, Ending, IsAnswer, Fresh
<1>12. Served' BY <1>1 DEF Served
<1> QED BY <1>6, <1>7, <1>8, <1>9, <1>10, <1>11, <1>12 DEF IInv

\* A start that is over without a turn leaves nothing active and nothing on its way
\* but the turns of the core.
LEMMA GiveUpKeeps ==
    ASSUME IInv, NEW p \in Prompt, stage[p] \in {"checkpoint", "failing"}, GiveUp(p, active),
           UNCHANGED << active, turnOf, aborted, cancelling, steering, told, running, turns, wire >>
    PROVE  IInv'
<1>1. Typed /\ Queues /\ Places /\ OneStart /\ WireOrder /\ Calls BY DEF IInv
<1>2. Fresh(p) /\ ~Has(queue, p) /\ ~Has(steering, p) BY <1>1 DEF Places, Queues, Waits
<1>3. active = {} BY <1>1, <1>2 DEF OneStart, Starting, Fresh, Typed
<1>4. \A x \in Prompt: x # p => stage[x] \in {"new", "there", "failed"}
  BY <1>1 DEF OneStart, Starting, Typed, Stages
<1>5. CASE p \in queued
  <2> DEFINE st == [stage EXCEPT ![p] = "failed"]
  <2>1. StartNext({}, queue, st) /\ abandoned' = abandoned BY <1>3, <1>5 DEF GiveUp
  <2>2. /\ st \in [Prompt -> Stages]
        /\ \A x \in Prompt: st[x] = IF x = p THEN "failed" ELSE stage[x]
    BY <1>1 DEF Typed, Stages
  <2> HIDE DEF st
  <2>3. \A x \in Prompt: Fresh(x)' <=> Fresh(x) BY DEF Fresh
  <2>4. \A x \in Prompt: st[x] # "there" => Fresh(x)'
    BY <1>1, <1>2, <1>4, <2>2, <2>3 DEF Places
  <2>5. \A x \in Prompt: Has(queue, x) \/ Has(steering, x) => st[x] = "there" /\ Fresh(x)'
    BY <1>1, <1>2, <2>2, <2>3 DEF Queues, Waits
  <2>6. \A x \in Prompt: st[x] = "there" /\ ~Has(queue, x) /\ ~Has(steering, x) =>
            told'[x] = IF x \in cancelling THEN 0 ELSE 1
    BY <1>1, <1>3, <2>2 DEF Places, Waits
  <2>7. \A x \in Prompt: st[x] \in {"new", "there", "failed"} BY <1>4, <2>2
  <2>8. /\ queue \in Seq(Prompt) /\ Once(queue) /\ Once(steering) /\ cancelling \subseteq aborted
        /\ \A x \in Prompt: ~ (Has(queue, x) /\ Has(steering, x))
    BY <1>1 DEF Typed, Queues, Places
  <2>9. /\ queue' \in Seq(Prompt) /\ stage' \in [Prompt -> Stages] /\ queued' \subseteq Prompt
        /\ Queues' /\ Places' /\ OneStart'
        /\ queue' # << >> => \E x \in Prompt: Starting(x)'
        /\ \A x \in Prompt: stage'[x] \in {"new", "checkpoint", "there", "failed"}
    BY <1>1, <1>3, <2>1, <2>2, <2>4, <2>5, <2>6, <2>7, <2>8, Handover
  <2>10. Typed' BY <1>1, <2>1, <2>9 DEF Typed
  <2>11. WireOrder'
    <3>1. \A x \in Prompt: stage[x] # "answered" BY <1>4
    <3> QED BY <1>1, <3>1, WireStays
  <2>12. Calls'
    <3>1. \A x \in Prompt: x \notin active' BY <1>3
    <3>2. \A x \in Prompt: stage'[x] \notin {"calling", "answered", "busy"} BY <2>9
    <3> QED BY <1>3, <3>1, <3>2 DEF Calls
  <2>13. Served' BY <2>9 DEF Served
  <2> QED BY <2>9, <2>10, <2>11, <2>12, <2>13 DEF IInv
<1>6. CASE p \notin queued
  <2>1. Goes(p, "failed") /\ abandoned' = TRUE /\ UNCHANGED << queue, queued >>
    BY <1>6 DEF GiveUp
  <2>2. /\ stage' \in [Prompt -> Stages]
        /\ \A x \in Prompt: stage'[x] = IF x = p THEN "failed" ELSE stage[x]
    BY <1>1, <2>1, GoesIs DEF Stages
  <2>3. Typed' BY <1>1, <2>1, <2>2 DEF Typed
  <2>4. Queues' BY <1>1, <1>2, <2>1, <2>2 DEF Queues, Waits, Fresh
  <2>5. Places' BY <1>1, <1>2, <2>1, <2>2 DEF Places, Waits, Fresh
  <2>6. OneStart' BY <1>1, <2>2 DEF OneStart, Starting
  <2>7. WireOrder'
    <3>1. \A x \in Prompt: stage[x] # "answered" BY <1>4
    <3> QED BY <1>1, <3>1, WireStays
  <2>8. Calls'
    <3>1. \A x \in Prompt: stage'[x] \notin {"calling", "answered", "busy"} BY <1>4, <2>2
    <3> QED BY <1>3, <3>1 DEF Calls
  <2>9. Served' BY <2>1 DEF Served
  <2> QED BY <2>3, <2>4, <2>5, <2>6, <2>7, <2>8, <2>9 DEF IInv
<1> QED BY <1>5, <1>6

\* Refused for another turn, which is still running.
LEMMA RequeueKeeps ==
    ASSUME IInv, NEW p \in Prompt, Requeue(p)
    PROVE  IInv'
<1>1. /\ stage[p] = "busy"
      /\ UNCHANGED << active, turnOf, aborted, cancelling, steering, told, running, turns, wire,
                      abandoned >>
  BY DEF Requeue, core
<1>2. Typed /\ Queues /\ Places /\ OneStart /\ WireOrder /\ Calls BY DEF IInv
<1>3. Fresh(p) /\ ~Has(queue, p) /\ ~Has(steering, p) BY <1>1, <1>2 DEF Places, Queues, Waits
<1>4. active = {} BY <1>1, <1>2, <1>3 DEF OneStart, Starting, Fresh, Typed
<1>5. \A x \in Prompt: x # p => stage[x] \in {"new", "there", "failed"}
  BY <1>1, <1>2 DEF OneStart, Starting, Typed, Stages
<1>6. running # 0 BY <1>1, <1>2 DEF Calls
<1>7. CASE p \in queued
  <2>1. queue' = << p >> \o queue /\ Goes(p, "there") /\ UNCHANGED queued
    BY <1>7 DEF Requeue
  <2>2. /\ stage' \in [Prompt -> Stages]
        /\ \A x \in Prompt: stage'[x] = IF x = p THEN "there" ELSE stage[x]
    BY <1>2, <2>1, GoesIs DEF Stages
  <2>3. /\ queue' \in Seq(Prompt) /\ Once(queue')
        /\ \A y: Has(queue', y) <=> y = p \/ Has(queue, y)
    <3>1. PICK one: one = << p >> OBVIOUS
    <3>2. one \in Seq(Prompt) /\ Once(one) /\ \A y: Has(one, y) <=> y = p BY <3>1, Single
    <3>3. queue \in Seq(Prompt) /\ Once(queue) /\ queue' = one \o queue
      BY <1>2, <2>1, <3>1 DEF Typed, Queues
    <3> QED BY <1>3, <3>2, <3>3, Joined
  <2>4. Typed' BY <1>1, <1>2, <2>1, <2>2, <2>3 DEF Typed
  <2>5. Queues' BY <1>1, <1>2, <1>3, <2>2, <2>3 DEF Queues, Waits, Fresh
  <2>6. Places' BY <1>1, <1>2, <1>3, <2>2, <2>3 DEF Places, Waits, Fresh
  <2>7. OneStart' BY <1>1, <1>2, <2>2 DEF OneStart, Starting
  <2>8. WireOrder' BY <1>1, <1>2, <2>2, WireStays
  <2>9. Calls'
    <3>1. \A x \in Prompt: stage'[x] \notin {"calling", "answered", "busy"} BY <1>5, <2>2
    <3> QED BY <1>1, <1>4, <3>1 DEF Calls
  <2>10. Served' BY <1>1, <1>6 DEF Served
  <2> QED BY <2>4, <2>5, <2>6, <2>7, <2>8, <2>9, <2>10 DEF IInv
<1>8. CASE p \notin queued
  <2> DEFINE st == [stage EXCEPT ![p] = "there"]
  <2>1. PICK q: q = Append(queue, p) OBVIOUS
  <2>2. StartNext({}, q, st) BY <1>4, <1>8, <2>1 DEF Requeue
  <2>3. /\ st \in [Prompt -> Stages]
        /\ \A x \in Prompt: st[x] = IF x = p THEN "there" ELSE stage[x]
    BY <1>2 DEF Typed, Stages
  <2> HIDE DEF st
  <2>4. /\ q \in Seq(Prompt) /\ Once(q)
        /\ \A y: Has(q, y) <=> Has(queue, y) \/ y = p
    BY <1>2, <1>3, <2>1, Appended DEF Typed, Queues
  <2>5. \A x \in Prompt: Fresh(x)' <=> Fresh(x) BY <1>1 DEF Fresh
  <2>6. \A x \in Prompt: st[x] # "there" => Fresh(x)'
    BY <1>2, <1>5, <2>3, <2>5 DEF Places
  <2>7. \A x \in Prompt: Has(q, x) \/ Has(steering, x) => st[x] = "there" /\ Fresh(x)'
    BY <1>2, <1>3, <2>3, <2>4, <2>5 DEF Queues, Waits
  <2>8. \A x \in Prompt: st[x] = "there" /\ ~Has(q, x) /\ ~Has(steering, x) =>
            told'[x] = IF x \in cancelling THEN 0 ELSE 1
    BY <1>1, <1>2, <1>4, <2>3, <2>4 DEF Places, Waits
  <2>9. \A x \in Prompt: st[x] \in {"new", "there", "failed"} BY <1>5, <2>3
  <2>10. /\ Once(steering) /\ cancelling \subseteq aborted /\ queued \subseteq Prompt
         /\ \A x \in Prompt: ~ (Has(q, x) /\ Has(steering, x))
    BY <1>2, <1>3, <2>4 DEF Typed, Queues, Places
  <2>11. /\ queue' \in Seq(Prompt) /\ stage' \in [Prompt -> Stages] /\ queued' \subseteq Prompt
         /\ Queues' /\ Places' /\ OneStart'
         /\ queue' # << >> => \E x \in Prompt: Starting(x)'
         /\ \A x \in Prompt: stage'[x] \in {"new", "checkpoint", "there", "failed"}
    BY <1>1, <1>2, <1>4, <2>2, <2>3, <2>4, <2>6, <2>7, <2>8, <2>9, <2>10, Handover
  <2>12. Typed' BY <1>1, <1>2, <2>11 DEF Typed
  <2>13. WireOrder'
    <3>1. \A x \in Prompt: stage[x] # "answered" BY <1>1, <1>5
    <3> QED BY <1>1, <1>2, <3>1, WireStays
  <2>14. Calls'
    <3>1. \A x \in Prompt: stage'[x] \notin {"calling", "answered", "busy"} BY <2>11
    <3> QED BY <1>1, <1>4, <3>1 DEF Calls
  <2>15. Served' BY <2>11 DEF Served
  <2> QED BY <2>11, <2>12, <2>13, <2>14, <2>15 DEF IInv
<1> QED BY <1>7, <1>8
-----------------------------------------------------------------------------
(* The call and its answer *)
LEMMA MessagesAre ==
    /\ \A n \in Nat: /\ [what |-> "started", turn |-> n] \in Messages
                     /\ [what |-> "ended", turn |-> n] \in Messages
    /\ \A w \in {"ok", "busy", "error"}, p \in Prompt: [what |-> w, prompt |-> p] \in Messages
BY DEF Messages

LEMMA TwoMore ==
    ASSUME NEW S, NEW w \in Seq(S), NEW a \in S, NEW b \in S
    PROVE  /\ w \o << a, b >> \in Seq(S) /\ Len(w \o << a, b >>) = Len(w) + 2
           /\ \A i \in 1..Len(w): (w \o << a, b >>)[i] = w[i]
           /\ (w \o << a, b >>)[Len(w) + 1] = a /\ (w \o << a, b >>)[Len(w) + 2] = b
OBVIOUS

\* While a call has not arrived no answer is on its way.
LEMMA NoAnswer ==
    ASSUME Typed, WireOrder, OneStart, NEW p \in Prompt, stage[p] = "calling"
    PROVE  \A i \in DOMAIN wire: ~IsAnswer(wire[i])
<1> SUFFICES ASSUME NEW i \in DOMAIN wire, IsAnswer(wire[i]) PROVE FALSE OBVIOUS
<1>1. wire[i].prompt \in Prompt /\ stage[wire[i].prompt] = "answered" BY DEF WireOrder
<1> QED BY <1>1 DEF OneStart, Starting

\* The call is answered with m, behind which the wire is, and a turn was started for it
\* or not.
LEMMA AnswerSent ==
    ASSUME IInv, NEW p \in Prompt, stage[p] = "calling", Goes(p, "answered"),
           UNCHANGED << queue, active, turnOf, aborted, queued, cancelling, steering, told,
                        abandoned >>,
           NEW w \in {"ok", "busy", "error"}, NEW m, m = [what |-> w, prompt |-> p],
           \/ /\ w = "ok" /\ running = 0 /\ running' = turns + 1 /\ turns' = turns + 1
              /\ wire' = wire \o << [what |-> "started", turn |-> turns + 1], m >>
           \/ w # "ok" /\ wire' = Append(wire, m) /\ (w = "busy" => running # 0)
              /\ UNCHANGED << running, turns >>
    PROVE  IInv'
<1>1. Typed /\ Queues /\ Places /\ OneStart /\ WireOrder /\ Calls BY DEF IInv
<1>2. /\ stage' \in [Prompt -> Stages]
      /\ \A x \in Prompt: stage'[x] = IF x = p THEN "answered" ELSE stage[x]
  BY <1>1, GoesIs DEF Stages
<1>3. p \in active /\ turnOf[p] = 0 /\ NoStart BY <1>1 DEF Places, Calls
<1>4. \A i \in DOMAIN wire: ~IsAnswer(wire[i]) BY <1>1, NoAnswer
<1>5. \A x \in Prompt: x # p => stage[x] \in {"new", "there", "failed"} /\ x \notin active
  BY <1>1, <1>3 DEF OneStart, Starting, Typed, Stages
<1>6. m.what = w /\ m.prompt = p /\ m \in Messages /\ IsAnswer(m) BY MessagesAre DEF IsAnswer
<1>7. PICK n \in Nat: n = Len(wire) BY <1>1 DEF Typed
<1>8. wire \in Seq(Messages) /\ DOMAIN wire = 1..n /\ running \in Nat /\ turns \in Nat
  BY <1>1, <1>7 DEF Typed
<1>9. Queues' BY <1>1, <1>2 DEF Queues, Waits, Fresh
<1>10. Places' BY <1>1, <1>2 DEF Places, Waits, Fresh
<1>11. OneStart' BY <1>1, <1>2 DEF OneStart, Starting
<1>12. Served' BY <1>3 DEF Served
<1>13. CASE w = "ok"
  <2>1. PICK st: st = [what |-> "started", turn |-> turns + 1] OBVIOUS
  <2>2. st \in Messages /\ st.what = "started" /\ st.turn = turns + 1
    <3>1. turns + 1 \in Nat BY <1>8
    <3>2. st \in Messages BY <2>1, <3>1, MessagesAre
    <3> QED BY <2>1, <3>2
  <2>3. wire' = wire \o << st, m >> /\ running = 0 /\ running' = turns + 1 /\ turns' = turns + 1
    BY <1>13, <2>1
  <2>4. /\ wire' \in Seq(Messages) /\ Len(wire') = n + 2
        /\ \A i \in 1..n: wire'[i] = wire[i]
        /\ wire'[n + 1] = st /\ wire'[n + 2] = m
    BY <1>6, <1>7, <1>8, <2>2, <2>3, TwoMore
  <2>5. DOMAIN wire' = 1..(n + 2) /\ \A i \in 1..(n + 2): i \in 1..n \/ i = n + 1 \/ i = n + 2
    BY <2>4
  <2>6. Typed' BY <1>1, <1>2, <1>8, <2>3, <2>4 DEF Typed
  <2>7. WireOrder'
    <3>1. ASSUME NEW i \in DOMAIN wire', wire'[i].what = "ended"
          PROVE  i = 1 /\ wire'[i].turn \in 1..turns' /\ wire'[i].turn # running'
      <4>1. i \in 1..n BY <1>6, <1>13, <2>2, <2>4, <2>5, <3>1
      <4>2. i = 1 /\ wire[i].turn \in 1..turns BY <1>1, <1>8, <2>4, <3>1, <4>1 DEF WireOrder
      <4> QED BY <1>8, <2>3, <2>4, <4>1, <4>2
    <3>2. \A i \in DOMAIN wire': wire'[i].what = "started" => i = n + 1
      BY <1>3, <1>6, <1>8, <1>13, <2>4, <2>5 DEF NoStart
    <3>3. \A i \in DOMAIN wire': IsAnswer(wire'[i]) => i = n + 2
      <4>1. ~IsAnswer(st) BY <2>2 DEF IsAnswer
      <4> QED BY <1>4, <1>8, <2>4, <2>5, <4>1
    <3>4. running' # 0 /\ running' = turns' /\ wire'[n + 1].turn = running' BY <1>8, <2>2, <2>3, <2>4
    <3>5. wire'[n + 2].prompt = p /\ stage'[p] = "answered" BY <1>2, <1>6, <2>4
    <3>6. \A i \in DOMAIN wire': IsAnswer(wire'[i]) =>
             i = Len(wire') /\ wire'[i].prompt \in Prompt /\ stage'[wire'[i].prompt] = "answered"
      BY <2>4, <3>3, <3>5
    <3> QED BY <3>1, <3>2, <3>4, <3>6 DEF WireOrder, IsAnswer
  <2>8. Calls'
    <3>1. ~NoStart' BY <2>2, <2>4, <2>5 DEF NoStart
    <3>2. wire' # << >> /\ wire'[Len(wire')] = m /\ running' # 0 BY <1>8, <2>3, <2>4
    <3>3. \A x \in Prompt: stage'[x] \in {"calling", "answered", "busy"} => x = p /\ stage'[x] = "answered"
      BY <1>2, <1>5
    <3>4. \A x \in active': stage'[x] # "there" BY <1>2, <1>1, <1>5 DEF Typed
    <3> QED BY <1>3, <1>6, <1>13, <3>1, <3>2, <3>3, <3>4 DEF Calls, IsAnswer
  <2> QED BY <1>9, <1>10, <1>11, <1>12, <2>6, <2>7, <2>8 DEF IInv
<1>14. CASE w # "ok"
  <2>1. /\ wire' = Append(wire, m) /\ (w = "busy" => running # 0) /\ running' = running /\ turns' = turns
    BY <1>14
  <2>2. /\ wire' \in Seq(Messages) /\ Len(wire') = n + 1
        /\ \A i \in 1..n: wire'[i] = wire[i]
        /\ wire'[n + 1] = m
    BY <1>6, <1>7, <1>8, <2>1
  <2>3. DOMAIN wire' = 1..(n + 1) /\ \A i \in 1..(n + 1): i \in 1..n \/ i = n + 1 BY <2>2
  <2>4. Typed' BY <1>1, <1>2, <2>1, <2>2 DEF Typed
  <2>5. NoStart' BY <1>3, <1>6, <1>8, <2>2, <2>3 DEF NoStart
  <2>6. WireOrder'
    <3>1. ASSUME NEW i \in DOMAIN wire', wire'[i].what = "ended"
          PROVE  i = 1 /\ wire'[i].turn \in 1..turns' /\ wire'[i].turn # running'
      <4>1. i \in 1..n BY <1>6, <2>2, <2>3, <3>1
      <4> QED BY <1>1, <1>8, <2>1, <2>2, <3>1, <4>1 DEF WireOrder
    <3>2. \A i \in DOMAIN wire': IsAnswer(wire'[i]) => i = n + 1 BY <1>4, <1>8, <2>2, <2>3
    <3>3. \A i \in DOMAIN wire': IsAnswer(wire'[i]) =>
             i = Len(wire') /\ wire'[i].prompt \in Prompt /\ stage'[wire'[i].prompt] = "answered"
      BY <1>2, <1>6, <2>2, <3>2
    <3>4. running' = 0 \/ running' = turns' BY <1>1, <2>1 DEF WireOrder
    <3> QED BY <2>5, <3>1, <3>3, <3>4 DEF WireOrder, NoStart, IsAnswer
  <2>7. Calls'
    <3>1. wire' # << >> /\ wire'[Len(wire')] = m BY <1>8, <2>2
    <3>2. \A x \in Prompt: stage'[x] \in {"calling", "answered", "busy"} => x = p /\ stage'[x] = "answered"
      BY <1>2, <1>5
    <3>3. \A x \in active': stage'[x] # "there" BY <1>2, <1>1, <1>5 DEF Typed
    <3> QED BY <1>3, <1>6, <1>14, <2>1, <2>5, <3>1, <3>2, <3>3 DEF Calls, IsAnswer
  <2> QED BY <1>9, <1>10, <1>11, <1>12, <2>4, <2>6, <2>7 DEF IInv
<1> QED BY <1>13, <1>14

LEMMA ArriveKeeps ==
    ASSUME IInv, NEW p \in Prompt, Arrive(p) \/ ArriveFails(p)
    PROVE  IInv'
<1>1. /\ stage[p] = "calling" /\ Goes(p, "answered")
      /\ UNCHANGED << queue, active, turnOf, aborted, queued, cancelling, steering, told, abandoned >>
  BY DEF Arrive, ArriveFails
<1>2. CASE Arrive(p) /\ running = 0
  <2>1. /\ running' = turns + 1 /\ turns' = turns + 1
        /\ wire' = wire \o << [what |-> "started", turn |-> turns + 1], [what |-> "ok", prompt |-> p] >>
    BY <1>2 DEF Arrive
  <2> QED BY <1>1, <1>2, <2>1, AnswerSent
<1>3. CASE Arrive(p) /\ running # 0
  <2>1. wire' = Append(wire, [what |-> "busy", prompt |-> p]) /\ UNCHANGED << running, turns >>
    BY <1>3 DEF Arrive
  <2> QED BY <1>1, <1>3, <2>1, AnswerSent
<1>4. CASE ArriveFails(p)
  <2>1. wire' = Append(wire, [what |-> "error", prompt |-> p]) /\ UNCHANGED << running, turns >>
    BY <1>4 DEF ArriveFails, core
  <2> QED BY <1>1, <2>1, AnswerSent
<1> QED BY <1>2, <1>3, <1>4
-----------------------------------------------------------------------------
(* Deliveries *)
\* What is left on the wire.
LEMMA WireShrinks ==
    ASSUME Typed, WireOrder, wire # << >>, wire' = Tail(wire), UNCHANGED << running, turns >>,
           \A i \in 2..Len(wire): IsAnswer(wire[i]) => stage'[wire[i].prompt] = "answered"
    PROVE  /\ WireOrder' /\ wire' \in Seq(Messages)
           /\ \A i \in DOMAIN wire': wire'[i].what # "ended"
           /\ NoStart => NoStart'
           /\ ~NoStart /\ wire[1].what # "started" => ~NoStart'
           /\ ~IsAnswer(wire[1]) /\ IsAnswer(wire[Len(wire)]) =>
                 wire' # << >> /\ wire'[Len(wire')] = wire[Len(wire)]
<1>1. PICK n \in Nat: n + 1 = Len(wire)
  <2>1. Len(wire) \in Nat /\ Len(wire) > 0 BY DEF Typed
  <2>2. Len(wire) - 1 \in Nat /\ (Len(wire) - 1) + 1 = Len(wire) BY <2>1
  <2> QED BY <2>2
<1>2. /\ wire \in Seq(Messages) /\ wire' \in Seq(Messages) /\ Len(wire') = n
      /\ \A i \in 1..n: wire'[i] = wire[i + 1]
  BY <1>1 DEF Typed
<1>3. DOMAIN wire = 1..(n + 1) /\ DOMAIN wire' = 1..n BY <1>1, <1>2
<1>4. \A i \in 1..n: i + 1 \in 1..(n + 1) /\ i + 1 # 1 /\ i + 1 \in 2..(n + 1) BY <1>1
<1>5. \A i \in 1..n: wire'[i].what # "ended" BY <1>2, <1>3, <1>4 DEF WireOrder
<1>6. WireOrder'
  <2>1. \A i \in 1..n: wire'[i].what = "started" => running' # 0 /\ wire'[i].turn = running'
    BY <1>2, <1>3, <1>4 DEF WireOrder
  <2>2. \A i, j \in 1..n: wire'[i].what = "started" /\ wire'[j].what = "started" => i = j
    <3> SUFFICES ASSUME NEW i \in 1..n, NEW j \in 1..n, wire[i + 1].what = "started",
                        wire[j + 1].what = "started"
                 PROVE  i = j
      BY <1>2
    <3>1. i + 1 = j + 1 BY <1>3, <1>4 DEF WireOrder
    <3> QED BY <3>1
  <2>3. ASSUME NEW i \in 1..n, IsAnswer(wire'[i])
        PROVE  i = Len(wire') /\ wire'[i].prompt \in Prompt /\ stage'[wire'[i].prompt] = "answered"
    <3>1. IsAnswer(wire[i + 1]) /\ wire'[i] = wire[i + 1] BY <1>2, <2>3
    <3>2. i + 1 = Len(wire) /\ wire[i + 1].prompt \in Prompt BY <1>3, <1>4, <3>1 DEF WireOrder
    <3>3. stage'[wire[i + 1].prompt] = "answered" BY <1>1, <1>4, <3>1
    <3> QED BY <1>1, <1>2, <3>1, <3>2, <3>3
  <2>4. running' = 0 \/ running' = turns' BY DEF WireOrder
  <2> QED BY <1>3, <1>5, <2>1, <2>2, <2>3, <2>4 DEF WireOrder, IsAnswer
<1>7. NoStart => NoStart' BY <1>2, <1>3, <1>4 DEF NoStart
<1>8. ASSUME ~NoStart, wire[1].what # "started" PROVE ~NoStart'
  <2>1. PICK i \in 1..(n + 1): wire[i].what = "started" BY <1>3, <1>8 DEF NoStart
  <2>2. i # 1 BY <1>8, <2>1
  <2>3. i - 1 \in 1..n /\ (i - 1) + 1 = i BY <1>1, <2>2
  <2>4. wire'[i - 1].what = "started" BY <1>2, <2>1, <2>3
  <2> QED BY <1>3, <2>3, <2>4 DEF NoStart
<1>9. ASSUME ~IsAnswer(wire[1]), IsAnswer(wire[Len(wire)])
      PROVE  wire' # << >> /\ wire'[Len(wire')] = wire[Len(wire)]
  <2>1. n # 0
    <3> SUFFICES ASSUME n = 0 PROVE FALSE OBVIOUS
    <3>1. Len(wire) = 1 BY <1>1
    <3> QED BY <1>9, <3>1
  <2>2. n \in 1..n BY <1>1, <2>1
  <2> QED BY <1>1, <1>2, <2>1, <2>2
<1> QED BY <1>2, <1>3, <1>5, <1>6, <1>7, <1>8, <1>9

\* While an end is the next thing to arrive, nobody has a turn of that number but the
\* active prompt, and if it has, nobody is being started.
LEMMA NobodyElse ==
    ASSUME IInv, wire # << >>, wire[1].what = "ended", NEW p \in active, turnOf[p] = wire[1].turn
    PROVE  stage[p] = "there" /\ \A x \in Prompt: ~Starting(x)
<1>1. Typed /\ Places /\ OneStart /\ WireOrder /\ Calls BY DEF IInv
<1>2. 1 \in DOMAIN wire
  <2>1. Len(wire) \in Nat /\ Len(wire) > 0 /\ DOMAIN wire = 1..Len(wire) BY <1>1 DEF Typed
  <2> QED BY <2>1
<1>3. wire[1].turn \in 1..turns /\ wire[1].turn # running BY <1>1, <1>2 DEF WireOrder
<1>4. turnOf[p] # 0 /\ turnOf[p] # running /\ p \in Prompt BY <1>1, <1>3 DEF Typed
<1>5. stage[p] \notin {"calling", "answered"} BY <1>1, <1>4 DEF Calls
<1>6. stage[p] = "there" BY <1>1, <1>4, <1>5 DEF Places, Fresh, Typed, Stages
<1>7. \A x \in Prompt: Starting(x) => x = p BY <1>1, <1>4 DEF OneStart
<1>8. ~Starting(p) BY <1>6 DEF Starting
<1> QED BY <1>6, <1>7, <1>8

\* The turn of the core begins: the start is the one the active prompt waits for.
LEMMA StartedKeeps ==
    ASSUME IInv, InTurn, wire # << >>, wire' = Tail(wire), wire[1].what = "started",
           Started(wire[1]), UNCHANGED << running, turns >>
    PROVE  IInv'
<1>1. /\ turnOf' = [p \in Prompt |->
                       IF p \in active /\ turnOf[p] = 0 THEN wire[1].turn ELSE turnOf[p]]
      /\ UNCHANGED << queue, active, aborted, stage, queued, cancelling, steering, told, abandoned >>
  BY DEF Started
<1>2. Typed /\ Queues /\ Places /\ OneStart /\ WireOrder /\ Calls BY DEF IInv
<1>3. 1 \in DOMAIN wire
  <2>1. Len(wire) \in Nat /\ Len(wire) > 0 /\ DOMAIN wire = 1..Len(wire) BY <1>2 DEF Typed
  <2> QED BY <2>1
<1>4. running # 0 /\ wire[1].turn = running /\ ~NoStart /\ ~IsAnswer(wire[1])
  BY <1>2, <1>3 DEF WireOrder, NoStart, IsAnswer
<1>5. \A x \in Prompt: turnOf'[x] = IF x \in active /\ turnOf[x] = 0 THEN running ELSE turnOf[x]
  BY <1>1, <1>4
<1>6. /\ WireOrder' /\ wire' \in Seq(Messages)
      /\ IsAnswer(wire[Len(wire)]) => wire' # << >> /\ wire'[Len(wire')] = wire[Len(wire)]
  <2>1. \A i \in 2..Len(wire): IsAnswer(wire[i]) => stage'[wire[i].prompt] = "answered"
    BY <1>1, <1>2 DEF WireOrder, Typed
  <2> QED BY <1>2, <1>4, <2>1, WireShrinks
<1>7. Typed'
  <2>1. running \in Nat /\ turnOf \in [Prompt -> Nat] BY <1>2 DEF Typed
  <2>2. turnOf' \in [Prompt -> Nat] BY <1>1, <1>4, <2>1
  <2> QED BY <1>1, <1>2, <1>6, <2>2 DEF Typed
<1>8. \A x \in Prompt: Fresh(x)' <=> Fresh(x) BY <1>1, <1>5 DEF Fresh
<1>9. Queues' BY <1>1, <1>2, <1>8 DEF Queues, Waits
<1>10. Places' BY <1>1, <1>2, <1>8 DEF Places, Waits
<1>11. OneStart' BY <1>1, <1>2 DEF OneStart, Starting
<1>12. Calls'
  <2>1. \A x \in Prompt: stage'[x] # "calling" BY <1>1, <1>2, <1>4 DEF Calls
  <2>2. \A x \in Prompt: stage'[x] = "busy" => running' # 0 BY <1>4
  <2>3. ASSUME NEW x \in active', stage'[x] = "there"
        PROVE  turnOf'[x] # 0 /\ turnOf'[x] = running'
    <3>1. turnOf[x] # 0 /\ (turnOf[x] = running \/ Ending(turnOf[x])) /\ x \in Prompt
      BY <1>1, <1>2, <2>3 DEF Calls, Typed
    <3>2. ~Ending(turnOf[x])
      <4>1. wire[1].what # "ended" OBVIOUS
      <4> QED BY <4>1 DEF Ending
    <3> QED BY <1>5, <3>1, <3>2
  <2>4. ASSUME NEW x \in Prompt, stage'[x] = "answered"
        PROVE  /\ wire' # << >> /\ IsAnswer(wire'[Len(wire')]) /\ wire'[Len(wire')].prompt = x
               /\ wire'[Len(wire')].what = "ok" /\ running' # 0 /\ turnOf'[x] = running'
    <3>1. /\ IsAnswer(wire[Len(wire)]) /\ wire[Len(wire)].prompt = x
          /\ wire[Len(wire)].what = "ok"
          /\ turnOf[x] = running \/ turnOf[x] = 0
      BY <1>1, <1>2, <1>4, <2>4 DEF Calls
    <3>2. x \in active BY <1>1, <1>2, <2>4 DEF Places
    <3>3. turnOf'[x] = running BY <1>4, <1>5, <3>1, <3>2
    <3> QED BY <1>4, <1>6, <3>1, <3>3
  <2> QED BY <2>1, <2>2, <2>3, <2>4 DEF Calls, IsAnswer
<1>13. Served' BY <1>4 DEF Served
<1> QED BY <1>6, <1>7, <1>9, <1>10, <1>11, <1>12, <1>13 DEF IInv

\* The answer arrives last: nothing else is on the wire.
LEMMA AnsweredKeeps ==
    ASSUME IInv, wire # << >>, wire' = Tail(wire), IsAnswer(wire[1]),
           Answered(wire[1]), UNCHANGED << running, turns >>
    PROVE  IInv'
<1>1. Typed /\ Queues /\ Places /\ OneStart /\ WireOrder /\ Calls BY DEF IInv
<1>2. Len(wire) \in Nat /\ Len(wire) > 0 /\ DOMAIN wire = 1..Len(wire) /\ wire \in Seq(Messages)
  BY <1>1 DEF Typed
<1>3. 1 = Len(wire) /\ wire[1].prompt \in Prompt /\ stage[wire[1].prompt] = "answered"
  BY <1>1, <1>2 DEF WireOrder
<1>4. PICK p \in Prompt: p = wire[1].prompt /\ stage[p] = "answered" BY <1>3
<1>5. wire' = << >> /\ DOMAIN wire' = {} BY <1>2, <1>3
<1>6. UNCHANGED << queue, turnOf, aborted, queued, cancelling, steering, told, abandoned >>
  BY DEF Answered
<1>7. p \in active /\ p \notin aborted /\ p \notin cancelling /\ told[p] = 0
      /\ ~Has(queue, p) /\ ~Has(steering, p)
  BY <1>1, <1>4 DEF Places, Queues, Waits
<1>8. \A x \in Prompt: x # p => stage[x] \in {"new", "there", "failed"} /\ x \notin active
  BY <1>1, <1>4, <1>7 DEF OneStart, Starting, Typed, Stages
<1>9. WireOrder'
  <2>1. running' = 0 \/ running' = turns' BY <1>1 DEF WireOrder
  <2>2. \A i \in DOMAIN wire': FALSE BY <1>5
  <2>3. \A i \in DOMAIN wire': wire'[i].what = "ended" =>
            i = 1 /\ wire'[i].turn \in 1..turns' /\ wire'[i].turn # running'
    BY <2>2
  <2>4. \A i \in DOMAIN wire': wire'[i].what = "started" => running' # 0 /\ wire'[i].turn = running'
    BY <2>2
  <2>5. \A i, j \in DOMAIN wire': wire'[i].what = "started" /\ wire'[j].what = "started" => i = j
    BY <2>2
  <2>6. \A i \in DOMAIN wire': IsAnswer(wire'[i]) =>
            i = Len(wire') /\ wire'[i].prompt \in Prompt /\ stage'[wire'[i].prompt] = "answered"
    BY <2>2
  <2> QED BY <2>1, <2>3, <2>4, <2>5, <2>6 DEF WireOrder, IsAnswer
<1>10. wire' \in Seq(Messages)
  <2>1. << >> \in Seq(Messages) OBVIOUS
  <2>2. wire' = << >> BY <1>5
  <2> QED BY <2>1, <2>2
<1>11. NoStart' BY <1>5 DEF NoStart
<1>12. NoStart
  <2>1. \A i \in DOMAIN wire: i = 1 BY <1>2, <1>3
  <2> QED BY <2>1 DEF NoStart, IsAnswer
<1>13. CASE wire[1].what = "ok"
  <2>1. Goes(p, "there") /\ active' = active BY <1>4, <1>13 DEF Answered
  <2>2. /\ stage' \in [Prompt -> Stages]
        /\ \A x \in Prompt: stage'[x] = IF x = p THEN "there" ELSE stage[x]
    BY <1>1, <2>1, GoesIs DEF Stages
  <2>3. running # 0 /\ turnOf[p] = running BY <1>1, <1>3, <1>4, <1>12, <1>13 DEF Calls
  <2>4. Typed' BY <1>1, <1>6, <1>10, <2>1, <2>2 DEF Typed
  <2>5. Queues' BY <1>1, <1>6, <2>1, <2>2 DEF Queues, Waits, Fresh
  <2>6. Places' BY <1>1, <1>6, <1>7, <2>1, <2>2 DEF Places, Waits, Fresh
  <2>7. OneStart' BY <1>1, <2>1, <2>2 DEF OneStart, Starting
  <2>8. Calls'
    <3>1. \A x \in Prompt: stage'[x] \notin {"calling", "answered", "busy"} BY <1>8, <2>2
    <3>2. \A x \in active': x = p BY <1>1, <1>8, <2>1 DEF Typed
    <3> QED BY <1>6, <2>3, <3>1, <3>2 DEF Calls
  <2>9. Served' BY <1>7, <2>1 DEF Served
  <2> QED BY <1>9, <2>4, <2>5, <2>6, <2>7, <2>8, <2>9 DEF IInv
<1>14. CASE wire[1].what # "ok"
  <2>1. PICK to \in {"busy", "failing"}: to = IF wire[1].what = "busy" THEN "busy" ELSE "failing"
    OBVIOUS
  <2>2. Goes(p, to) /\ active' = active \ {p} BY <1>4, <1>14, <2>1 DEF Answered
  <2>3. /\ stage' \in [Prompt -> Stages]
        /\ \A x \in Prompt: stage'[x] = IF x = p THEN to ELSE stage[x]
    BY <1>1, <2>2, GoesIs DEF Stages
  <2>4. turnOf[p] = 0 /\ (to = "busy" => running # 0)
    BY <1>1, <1>3, <1>4, <1>14, <2>1 DEF Calls
  <2>5. Typed' BY <1>1, <1>6, <1>10, <2>2, <2>3 DEF Typed
  <2>6. \A x: x \notin active' BY <1>1, <1>8, <2>2 DEF Typed
  <2>7. Queues'
    <3>1. \A x \in Prompt: Waits(x)' <=> Waits(x) BY <1>6 DEF Waits
    <3>2. ASSUME NEW x \in Prompt, Waits(x) PROVE stage'[x] = "there" /\ Fresh(x)'
      <4>1. stage[x] = "there" /\ Fresh(x) BY <1>1, <3>2 DEF Queues
      <4>2. x # p BY <1>4, <4>1
      <4> QED BY <1>6, <2>3, <2>6, <4>1, <4>2 DEF Fresh
    <3> QED BY <1>1, <1>6, <3>1, <3>2 DEF Queues
  <2>8. Places' BY <1>1, <1>6, <1>7, <1>8, <2>3, <2>4, <2>6 DEF Places, Waits, Fresh
  <2>9. OneStart' BY <1>8, <2>3, <2>6 DEF OneStart, Starting
  <2>10. Calls'
    <3>1. \A x \in Prompt: stage'[x] \notin {"calling", "answered"} /\ (stage'[x] = "busy" => to = "busy")
      BY <1>8, <2>3
    <3> QED BY <2>4, <2>6, <3>1 DEF Calls
  <2>11. Served' BY <2>3 DEF Served, Starting
  <2> QED BY <1>9, <2>5, <2>7, <2>8, <2>9, <2>10, <2>11 DEF IInv
<1> QED BY <1>13, <1>14

\* A turn is over: the next prompt is started, unless it was not the active prompt's.
LEMMA EndedKeeps ==
    ASSUME IInv, InTurn, wire # << >>, wire' = Tail(wire), wire[1].what = "ended",
           Ended(wire[1]), UNCHANGED << running, turns >>
    PROVE  IInv'
<1>1. Typed /\ Queues /\ Places /\ OneStart /\ WireOrder /\ Calls /\ Served BY DEF IInv
<1>2. UNCHANGED << turnOf, aborted, cancelling, steering, abandoned >> BY DEF Ended
<1>3. ~IsAnswer(wire[1]) BY DEF IsAnswer
<1>4. \A x \in Prompt: stage[x] = "answered" =>
         IsAnswer(wire[Len(wire)]) /\ wire[Len(wire)].prompt = x
  BY <1>1 DEF Calls
<1>5. ASSUME UNCHANGED << queue, active, stage, queued, told >>,
             queue = << >> \/ active # {},
             \A x \in active: turnOf[x] # wire[1].turn
      PROVE  IInv'
  <2>1. \A i \in 2..Len(wire): IsAnswer(wire[i]) => stage'[wire[i].prompt] = "answered"
    BY <1>1, <1>5 DEF WireOrder, Typed
  <2>2. /\ WireOrder' /\ wire' \in Seq(Messages)
        /\ NoStart => NoStart'
        /\ ~NoStart => ~NoStart'
        /\ IsAnswer(wire[Len(wire)]) => wire' # << >> /\ wire'[Len(wire')] = wire[Len(wire)]
    BY <1>1, <1>3, <2>1, WireShrinks
  <2>3. Typed' BY <1>1, <1>2, <1>5, <2>2 DEF Typed
  <2>4. \A x \in Prompt: (Fresh(x)' <=> Fresh(x)) /\ (Waits(x)' <=> Waits(x))
    BY <1>2, <1>5 DEF Fresh, Waits
  <2>5. Queues' BY <1>1, <1>2, <1>5, <2>4 DEF Queues
  <2>6. Places' BY <1>1, <1>2, <1>5, <2>4 DEF Places
  <2>7. OneStart' BY <1>1, <1>5 DEF OneStart, Starting
  <2>8. Calls'
    <3>1. \A x \in Prompt: stage'[x] = "calling" => turnOf'[x] = 0 /\ NoStart'
      BY <1>1, <1>2, <1>5, <2>2 DEF Calls
    <3>2. \A x \in Prompt: stage'[x] = "busy" => running' # 0 BY <1>1, <1>5 DEF Calls
    <3>3. ASSUME NEW x \in active', stage'[x] = "there"
          PROVE  turnOf'[x] # 0 /\ turnOf'[x] = running'
      <4>1. x \in active /\ turnOf[x] # 0 /\ (turnOf[x] = running \/ Ending(turnOf[x]))
        BY <1>1, <1>5, <3>3 DEF Calls
      <4>2. ~Ending(turnOf[x]) BY <1>5, <4>1 DEF Ending
      <4> QED BY <1>2, <4>1, <4>2
    <3>4. ASSUME NEW x \in Prompt, stage'[x] = "answered"
          PROVE  /\ wire' # << >> /\ IsAnswer(wire'[Len(wire')]) /\ wire'[Len(wire')].prompt = x
                 /\ wire'[Len(wire')].what = "ok" =>
                       running' # 0 /\ (turnOf'[x] = running' \/ (turnOf'[x] = 0 /\ ~NoStart'))
                 /\ wire'[Len(wire')].what = "busy" => running' # 0
                 /\ wire'[Len(wire')].what # "ok" => turnOf'[x] = 0 /\ NoStart'
      <4>1. wire' # << >> /\ wire'[Len(wire')] = wire[Len(wire)] BY <1>4, <1>5, <2>2, <3>4
      <4> QED BY <1>1, <1>2, <1>5, <2>2, <3>4, <4>1 DEF Calls
    <3> QED BY <3>1, <3>2, <3>3, <3>4 DEF Calls, IsAnswer
  <2>9. Served' BY <1>5 DEF Served
  <2> QED BY <2>2, <2>3, <2>5, <2>6, <2>7, <2>8, <2>9 DEF IInv
<1>6. ASSUME StartNext({}, queue, stage), \A x: x \notin active', \A x \in Prompt: ~Starting(x),
             \A x \in Prompt: stage[x] # "there" => Fresh(x)',
             \A x \in Prompt: Waits(x) => Fresh(x)',
             \A x \in Prompt: stage[x] = "there" /\ ~Waits(x) =>
                told'[x] = IF x \in cancelling THEN 0 ELSE 1,
             told' \in [Prompt -> Nat]
      PROVE  IInv'
  <2>1. /\ queue \in Seq(Prompt) /\ stage \in [Prompt -> Stages] /\ queued \subseteq Prompt
        /\ Once(queue) /\ Once(steering) /\ cancelling \subseteq aborted
        /\ \A x \in Prompt: ~ (Has(queue, x) /\ Has(steering, x))
    BY <1>1 DEF Typed, Queues, Places
  <2>2. \A x \in Prompt: stage[x] \in {"new", "there", "failed"}
    BY <1>6, <2>1 DEF Starting, Stages
  <2>3. \A x \in Prompt: Has(queue, x) \/ Has(steering, x) => stage[x] = "there" /\ Fresh(x)'
    BY <1>1, <1>6 DEF Queues, Waits
  <2>4. \A x \in Prompt: stage[x] = "there" /\ ~Has(queue, x) /\ ~Has(steering, x) =>
            told'[x] = IF x \in cancelling THEN 0 ELSE 1
    BY <1>6 DEF Waits
  <2>5. active' = {} BY <1>6
  <2>6. /\ queue' \in Seq(Prompt) /\ stage' \in [Prompt -> Stages] /\ queued' \subseteq Prompt
        /\ Queues' /\ Places' /\ OneStart'
        /\ queue' # << >> => \E x \in Prompt: Starting(x)'
        /\ \A x \in Prompt: stage'[x] \in {"new", "checkpoint", "there", "failed"}
    BY <1>1, <1>2, <1>6, <2>1, <2>2, <2>3, <2>4, <2>5, Handover
  <2>7. \A i \in DOMAIN wire: ~IsAnswer(wire[i]) BY <1>1, <2>2 DEF WireOrder
  <2>8. \A i \in 2..Len(wire): ~IsAnswer(wire[i])
    <3>1. Len(wire) \in Nat /\ DOMAIN wire = 1..Len(wire) BY <1>1 DEF Typed
    <3> QED BY <2>7, <3>1
  <2>9. WireOrder' /\ wire' \in Seq(Messages) BY <1>1, <2>8, WireShrinks
  <2>10. Typed' BY <1>1, <1>2, <1>6, <2>5, <2>6, <2>9 DEF Typed
  <2>11. Calls'
    <3>1. \A x \in Prompt: stage'[x] \notin {"calling", "answered", "busy"} BY <2>6
    <3> QED BY <1>6, <3>1 DEF Calls
  <2>12. Served' BY <2>6 DEF Served
  <2> QED BY <2>6, <2>9, <2>10, <2>11, <2>12 DEF IInv
<1>7. CASE EndedElsewhere
  <2>1. /\ active = {} /\ active' = active /\ told' = told /\ StartNext({}, queue, stage)
        /\ queue = << >> \/ \A x \in Prompt: ~Starting(x)
    BY <1>7 DEF EndedElsewhere, Free, InTurn
  <2>2. CASE queue = << >>
    <3>1. UNCHANGED << queue, stage, queued >> BY <2>1, <2>2 DEF StartNext
    <3>2. \A x \in active: turnOf[x] # wire[1].turn BY <2>1
    <3> QED BY <1>5, <2>1, <2>2, <3>1, <3>2
  <2>3. CASE \A x \in Prompt: ~Starting(x)
    <3>1. \A x: x \notin active' BY <2>1
    <3>2. \A x \in Prompt: Fresh(x)' <=> Fresh(x) BY <1>2, <2>1 DEF Fresh
    <3>3. \A x \in Prompt: stage[x] # "there" => Fresh(x)'
      BY <1>1, <2>3, <3>2 DEF Places, Starting, Typed, Stages
    <3>4. \A x \in Prompt: Waits(x) => Fresh(x)' BY <1>1, <3>2 DEF Queues
    <3>5. \A x \in Prompt: stage[x] = "there" /\ ~Waits(x) =>
              told'[x] = IF x \in cancelling THEN 0 ELSE 1
      BY <1>1, <2>1 DEF Places
    <3>6. told' \in [Prompt -> Nat] BY <1>1, <2>1 DEF Typed
    <3> QED BY <1>6, <2>1, <2>3, <3>1, <3>3, <3>4, <3>5, <3>6
  <2> QED BY <2>1, <2>2, <2>3
<1>8. CASE EndedActive(wire[1])
  <2>1. PICK p \in active: /\ turnOf[p] = wire[1].turn /\ active' = {}
                           /\ Tell({p} \ aborted) /\ StartNext({}, queue, stage)
    BY <1>8 DEF EndedActive
  <2>2. p \in Prompt /\ stage[p] = "there" /\ \A x \in Prompt: ~Starting(x)
    BY <1>1, <2>1, NobodyElse DEF Typed
  <2>3. \A x \in active: x = p BY <1>1, <2>1 DEF OneStart
  <2>4. /\ told' \in [Prompt -> Nat]
        /\ \A x \in Prompt: told'[x] = IF x = p /\ x \notin aborted THEN told[x] + 1 ELSE told[x]
    <3>1. told \in [Prompt -> Nat] BY <1>1 DEF Typed
    <3>2. \A x \in Prompt: (x \in {p} \ aborted) <=> (x = p /\ x \notin aborted) OBVIOUS
    <3>3. told' = [x \in Prompt |-> IF x \in {p} \ aborted THEN told[x] + 1 ELSE told[x]]
      BY <2>1 DEF Tell
    <3> QED BY <3>1, <3>2, <3>3
  <2>5. \A x \in Prompt: x # p => (Fresh(x) => Fresh(x)') BY <1>2, <2>1, <2>4 DEF Fresh
  <2>6. \A x \in Prompt: stage[x] # "there" => Fresh(x)'
    <3> SUFFICES ASSUME NEW x \in Prompt, stage[x] # "there" PROVE Fresh(x)' OBVIOUS
    <3>1. stage[x] \in {"new", "failed"} BY <1>1, <2>2 DEF Starting, Typed, Stages
    <3>2. Fresh(x) /\ x # p BY <1>1, <2>2, <3>1 DEF Places
    <3> QED BY <2>5, <3>2
  <2>7. \A x \in Prompt: Waits(x) => Fresh(x)'
    <3>1. \A x \in Prompt: Waits(x) => Fresh(x) /\ x # p BY <1>1, <2>1 DEF Queues, Fresh
    <3> QED BY <2>5, <3>1
  <2>8. ASSUME NEW x \in Prompt, stage[x] = "there", ~Waits(x)
        PROVE  told'[x] = IF x \in cancelling THEN 0 ELSE 1
    <3>1. told[x] = IF x \in cancelling \/ (x \in active /\ x \notin aborted) THEN 0 ELSE 1
      BY <1>1, <2>8 DEF Places
    <3>2. cancelling \subseteq aborted BY <1>1 DEF Places
    <3>3. CASE x = p BY <2>1, <2>4, <3>1, <3>2, <3>3
    <3>4. CASE x # p BY <2>3, <2>4, <3>1, <3>4
    <3> QED BY <3>3, <3>4
  <2>9. \A x: x \notin active' BY <2>1
  <2> QED BY <1>6, <2>1, <2>2, <2>4, <2>6, <2>7, <2>8, <2>9
<1>9. CASE EndedOther(wire[1])
  <2>1. /\ \E p \in active: turnOf[p] # wire[1].turn
        /\ UNCHANGED << queue, active, stage, queued, told >>
    BY <1>9 DEF EndedOther
  <2>2. \A x \in active: turnOf[x] # wire[1].turn BY <1>1, <2>1 DEF OneStart
  <2> QED BY <1>5, <2>1, <2>2
<1> QED BY <1>7, <1>8, <1>9 DEF Ended
-----------------------------------------------------------------------------
(* The users *)
\* The end of the prompts in S is published.
LEMMA TellIs ==
    ASSUME Typed, NEW S, Tell(S)
    PROVE  /\ told' \in [Prompt -> Nat]
           /\ \A x \in Prompt: told'[x] = IF x \in S THEN told[x] + 1 ELSE told[x]
BY DEF Typed, Tell

LEMMA AbortQueuedKeeps ==
    ASSUME IInv, NEW p \in Prompt, AbortQueued(p)
    PROVE  IInv'
<1>1. Typed /\ Queues /\ Places /\ OneStart /\ WireOrder /\ Calls /\ Served BY DEF IInv
<1>2. /\ Has(queue, p) /\ queue' = Without(queue, {p}) /\ Tell({p})
      /\ UNCHANGED << active, turnOf, aborted, stage, queued, cancelling, steering, running, turns,
                      wire, abandoned >>
  BY DEF AbortQueued, InQueue, Has, core
<1>3. /\ queue' \in Seq(Prompt) /\ Once(queue')
      /\ \A x: Has(queue', x) <=> Has(queue, x) /\ x # p
  <2>1. queue \in Seq(Prompt) /\ Once(queue) BY <1>1 DEF Typed, Queues
  <2>2. /\ Without(queue, {p}) \in Seq(Prompt) /\ Once(Without(queue, {p}))
        /\ \A x: Has(Without(queue, {p}), x) <=> Has(queue, x) /\ x \notin {p}
    BY <2>1, WithoutIs
  <2> QED BY <1>2, <2>2
<1>4. /\ told' \in [Prompt -> Nat]
      /\ \A x \in Prompt: told'[x] = IF x = p THEN told[x] + 1 ELSE told[x]
  BY <1>1, <1>2, TellIs
<1>5. stage[p] = "there" /\ Fresh(p) /\ ~Has(steering, p) BY <1>1, <1>2 DEF Queues, Waits
<1>6. \A x \in Prompt: x # p => (Fresh(x)' <=> Fresh(x)) BY <1>2, <1>4 DEF Fresh
<1>7. \A x \in Prompt: Waits(x)' <=> Waits(x) /\ x # p BY <1>2, <1>3, <1>5 DEF Waits
<1>8. Typed' BY <1>1, <1>2, <1>3, <1>4 DEF Typed
<1>9. Queues' BY <1>1, <1>2, <1>3, <1>6, <1>7 DEF Queues
<1>10. Places'
  <2>1. \A x \in Prompt: stage'[x] \in {"new", "checkpoint", "busy", "failing", "failed"} => Fresh(x)'
    BY <1>1, <1>2, <1>5, <1>6 DEF Places
  <2>2. \A x \in Prompt: stage'[x] \in {"calling", "answered"} =>
            x \in active' /\ x \notin aborted' /\ x \notin cancelling' /\ told'[x] = 0
    BY <1>1, <1>2, <1>4, <1>5 DEF Places
  <2>3. \A x \in Prompt: stage'[x] = "there" /\ ~Waits(x)' =>
            told'[x] = IF x \in cancelling' \/ (x \in active' /\ x \notin aborted') THEN 0 ELSE 1
    BY <1>1, <1>2, <1>4, <1>5, <1>7 DEF Places, Fresh
  <2> QED BY <1>1, <1>2, <2>1, <2>2, <2>3 DEF Places
<1>11. OneStart' BY <1>1, <1>2 DEF OneStart, Starting
<1>12. WireOrder' BY <1>1, <1>2, WireStays
<1>13. Calls' BY <1>1, <1>2, CallsStay DEF Typed
<1>14. Served'
  <2>1. ~Has(<< >>, p) BY DEF Has
  <2>2. queue # << >> BY <1>2, <2>1
  <2>3. (\A x: Starting(x)' <=> Starting(x)) /\ \A t: Ending(t)' <=> Ending(t)
    BY <1>2 DEF Starting, Ending
  <2> QED BY <1>1, <1>2, <2>2, <2>3 DEF Served
<1> QED BY <1>8, <1>9, <1>10, <1>11, <1>12, <1>13, <1>14 DEF IInv

LEMMA AbortKeeps ==
    ASSUME IInv, InTurn, NEW p \in Prompt, Abort(p)
    PROVE  IInv'
<1>1. Typed /\ Queues /\ Places /\ OneStart /\ WireOrder /\ Calls /\ Served BY DEF IInv
<1>2. /\ active = {p} /\ p \notin aborted
      /\ aborted' = aborted \cup {p} /\ cancelling' = cancelling \cup {p}
      /\ \A x \in Prompt: ~Starting(x) \/ stage[x] = "checkpoint"
      /\ UNCHANGED << queue, active, turnOf, stage, queued, steering, told, running, turns, wire,
                      abandoned >>
  BY DEF Abort, Settled, InTurn, core
<1>3. ~Fresh(p) BY <1>2 DEF Fresh
<1>4. stage[p] = "there" /\ ~Waits(p)
  BY <1>1, <1>2, <1>3 DEF Places, Queues, Starting, Typed, Stages
<1>5. told[p] = 0 BY <1>1, <1>2, <1>4 DEF Places
<1>6. \A x \in Prompt: x # p => (Fresh(x)' <=> Fresh(x)) BY <1>2 DEF Fresh
<1>7. \A x \in Prompt: Waits(x)' <=> Waits(x) BY <1>2 DEF Waits
<1>8. Typed' BY <1>1, <1>2 DEF Typed
<1>9. Queues' BY <1>1, <1>2, <1>4, <1>6, <1>7 DEF Queues
<1>10. Places'
  <2>1. \A x \in Prompt: stage'[x] \in {"new", "checkpoint", "busy", "failing", "failed"} => Fresh(x)'
    BY <1>1, <1>2, <1>4, <1>6 DEF Places
  <2>2. \A x \in Prompt: stage'[x] \in {"calling", "answered"} =>
            x \in active' /\ x \notin aborted' /\ x \notin cancelling' /\ told'[x] = 0
    BY <1>1, <1>2, <1>4 DEF Places
  <2>3. \A x \in Prompt: stage'[x] = "there" /\ ~Waits(x)' =>
            told'[x] = IF x \in cancelling' \/ (x \in active' /\ x \notin aborted') THEN 0 ELSE 1
    BY <1>1, <1>2, <1>5, <1>7 DEF Places
  <2> QED BY <1>1, <1>2, <2>1, <2>2, <2>3 DEF Places
<1>11. OneStart' BY <1>1, <1>2 DEF OneStart, Starting
<1>12. WireOrder' BY <1>1, <1>2, WireStays
<1>13. Calls' BY <1>1, <1>2, CallsStay DEF Typed
<1>14. Served' BY <1>2 DEF Served
<1> QED BY <1>8, <1>9, <1>10, <1>11, <1>12, <1>13, <1>14 DEF IInv

LEMMA AbortedKeeps ==
    ASSUME IInv, NEW p \in Prompt, Aborted(p)
    PROVE  IInv'
<1>1. Typed /\ Queues /\ Places /\ OneStart /\ WireOrder /\ Calls /\ Served BY DEF IInv
<1>2. /\ p \in cancelling /\ cancelling' = cancelling \ {p} /\ Tell({p})
      /\ UNCHANGED << queue, active, turnOf, aborted, stage, queued, steering, running, turns, wire,
                      abandoned >>
  BY DEF Aborted, core
<1>3. ~Fresh(p) /\ p \in aborted BY <1>1, <1>2 DEF Fresh, Places
<1>4. stage[p] = "there" /\ ~Waits(p)
  BY <1>1, <1>2, <1>3 DEF Places, Queues, Typed, Stages
<1>5. told[p] = 0 BY <1>1, <1>2, <1>4 DEF Places
<1>6. /\ told' \in [Prompt -> Nat]
      /\ \A x \in Prompt: told'[x] = IF x = p THEN told[x] + 1 ELSE told[x]
  BY <1>1, <1>2, TellIs
<1>7. \A x \in Prompt: x # p => (Fresh(x)' <=> Fresh(x)) BY <1>2, <1>6 DEF Fresh
<1>8. \A x \in Prompt: Waits(x)' <=> Waits(x) BY <1>2 DEF Waits
<1>9. Typed' BY <1>1, <1>2, <1>6 DEF Typed
<1>10. Queues' BY <1>1, <1>2, <1>4, <1>7, <1>8 DEF Queues
<1>11. Places'
  <2>1. \A x \in Prompt: stage'[x] \in {"new", "checkpoint", "busy", "failing", "failed"} => Fresh(x)'
    BY <1>1, <1>2, <1>4, <1>7 DEF Places
  <2>2. \A x \in Prompt: stage'[x] \in {"calling", "answered"} =>
            x \in active' /\ x \notin aborted' /\ x \notin cancelling' /\ told'[x] = 0
    BY <1>1, <1>2, <1>4, <1>6 DEF Places
  <2>3. \A x \in Prompt: stage'[x] = "there" /\ ~Waits(x)' =>
            told'[x] = IF x \in cancelling' \/ (x \in active' /\ x \notin aborted') THEN 0 ELSE 1
    BY <1>1, <1>2, <1>3, <1>5, <1>6, <1>8 DEF Places
  <2> QED BY <1>1, <1>2, <2>1, <2>2, <2>3 DEF Places
<1>12. OneStart' BY <1>1, <1>2 DEF OneStart, Starting
<1>13. WireOrder' BY <1>1, <1>2, WireStays
<1>14. Calls' BY <1>1, <1>2, CallsStay DEF Typed
<1>15. Served'
  <2>1. (\A x: Starting(x)' <=> Starting(x)) /\ \A t: Ending(t)' <=> Ending(t)
    BY <1>2 DEF Starting, Ending
  <2> QED BY <1>1, <1>2, <2>1 DEF Served
<1> QED BY <1>9, <1>10, <1>11, <1>12, <1>13, <1>14, <1>15 DEF IInv

\* Prompts change their place of waiting, and nothing else does.
LEMMA MovesKeep ==
    ASSUME IInv, queue' \in Seq(Prompt), steering' \in Seq(Prompt), Once(queue'), Once(steering'),
           \A x \in Prompt: ~ (Has(queue', x) /\ Has(steering', x)),
           \A x \in Prompt: Waits(x)' <=> Waits(x),
           abandoned' \in BOOLEAN, abandoned' = TRUE \/ active # {},
           UNCHANGED << active, turnOf, aborted, stage, queued, cancelling, told, running, turns,
                        wire >>
    PROVE  IInv'
<1>1. Typed /\ Queues /\ Places /\ OneStart /\ WireOrder /\ Calls BY DEF IInv
<1>2. \A x \in Prompt: Fresh(x)' <=> Fresh(x) BY DEF Fresh
<1>3. Typed' BY <1>1 DEF Typed
<1>4. Queues' BY <1>1, <1>2 DEF Queues
<1>5. Places' BY <1>1, <1>2 DEF Places
<1>6. OneStart' BY <1>1 DEF OneStart, Starting
<1>7. WireOrder' BY <1>1, WireStays
<1>8. Calls' BY <1>1, CallsStay DEF Typed
<1>9. Served' BY DEF Served
<1> QED BY <1>3, <1>4, <1>5, <1>6, <1>7, <1>8, <1>9 DEF IInv

LEMMA SteerKeeps ==
    ASSUME IInv, NEW ids \in Selections, Steer(ids)
    PROVE  IInv'
<1>1. Typed /\ Queues BY DEF IInv
<1> DEFINE S == {ids[i]: i \in DOMAIN ids}
<1>2. /\ steering = << >> /\ active # {} /\ steering' = ids /\ queue' = Without(queue, S)
      /\ UNCHANGED << active, turnOf, aborted, stage, queued, cancelling, told, running, turns,
                      wire, abandoned >>
  BY DEF Steer, core
<1>3. /\ ids \in Seq(Prompt) /\ Once(ids) /\ \A x: Has(ids, x) => Has(queue, x)
  <2>1. PICK n \in 1..Len(queue): ids \in [1..n -> Prompt] BY DEF Selections
  <2>2. Len(queue) \in Nat BY <1>1 DEF Typed
  <2>3. n \in Nat BY <2>2
  <2>4. ids \in Seq(Prompt) BY <2>1, <2>3
  <2>5. \A i \in DOMAIN ids: Has(queue, ids[i]) BY DEF Selections, InQueue, Has
  <2>6. Once(ids) BY DEF Selections, Once
  <2> QED BY <2>4, <2>5, <2>6 DEF Has
<1>4. \A x: x \in S <=> Has(ids, x) BY DEF Has
<1> HIDE DEF S
<1>5. /\ queue' \in Seq(Prompt) /\ Once(queue')
      /\ \A x: Has(queue', x) <=> Has(queue, x) /\ ~Has(ids, x)
  <2>1. queue \in Seq(Prompt) /\ Once(queue) BY <1>1 DEF Typed, Queues
  <2>2. /\ Without(queue, S) \in Seq(Prompt) /\ Once(Without(queue, S))
        /\ \A x: Has(Without(queue, S), x) <=> Has(queue, x) /\ x \notin S
    BY <2>1, WithoutIs
  <2> QED BY <1>2, <1>4, <2>2
<1>6. \A x: ~Has(steering, x) BY <1>2 DEF Has
<1>7. \A x \in Prompt: Waits(x)' <=> Waits(x) BY <1>2, <1>3, <1>5, <1>6 DEF Waits
<1>8. \A x \in Prompt: ~ (Has(queue', x) /\ Has(steering', x)) BY <1>2, <1>5
<1>9. abandoned' \in BOOLEAN BY <1>1, <1>2 DEF Typed
<1> QED BY <1>2, <1>3, <1>5, <1>7, <1>8, <1>9, MovesKeep

LEMMA SteerFailsKeeps ==
    ASSUME IInv, SteerFails
    PROVE  IInv'
<1>1. Typed /\ Queues BY DEF IInv
<1>2. /\ steering' = << >> /\ queue' = steering \o queue /\ abandoned' = TRUE
      /\ UNCHANGED << active, turnOf, aborted, stage, queued, cancelling, told, running, turns,
                      wire >>
  BY DEF SteerFails, core
<1>3. /\ steering \in Seq(Prompt) /\ queue \in Seq(Prompt) /\ Once(steering) /\ Once(queue)
      /\ \A y: ~ (Has(steering, y) /\ Has(queue, y))
  <2>1. \A y: Has(queue, y) => y \in Prompt BY <1>1 DEF Typed, Has
  <2> QED BY <1>1, <2>1 DEF Typed, Queues
<1>4. /\ queue' \in Seq(Prompt) /\ Once(queue')
      /\ \A y: Has(queue', y) <=> Has(steering, y) \/ Has(queue, y)
  BY <1>2, <1>3, Joined
<1>5. steering' \in Seq(Prompt) /\ Once(steering') /\ \A x: ~Has(steering', x)
  <2>1. << >> \in Seq(Prompt) /\ Once(<< >>) /\ \A x: ~Has(<< >>, x) BY DEF Once, Has
  <2> QED BY <1>2, <2>1
<1>6. \A x \in Prompt: Waits(x)' <=> Waits(x) BY <1>4, <1>5 DEF Waits
<1> QED BY <1>2, <1>4, <1>5, <1>6, MovesKeep
-----------------------------------------------------------------------------
(* The core *)
\* A turn starts while no call is crossing.
LEMMA TurnStarts ==
    ASSUME Typed, WireOrder, Calls, running = 0, running' = turns + 1, turns' = turns + 1,
           wire' = Append(wire, [what |-> "started", turn |-> turns + 1]),
           UNCHANGED << active, turnOf, stage >>, active \subseteq Prompt,
           \A x \in Prompt: stage[x] \notin {"calling", "answered", "busy"}
    PROVE  /\ WireOrder' /\ Calls' /\ wire' \in Seq(Messages)
           /\ running' # 0 /\ running' \in Nat /\ turns' \in Nat
<1>1. PICK n \in Nat: n = Len(wire) BY DEF Typed
<1>2. turns \in Nat /\ turns + 1 \in Nat /\ turns + 1 # 0 /\ wire \in Seq(Messages) BY DEF Typed
<1>3. PICK m: m = [what |-> "started", turn |-> turns + 1] OBVIOUS
<1>4. m \in Messages /\ m.what = "started" /\ m.turn = turns + 1
  <2>1. m \in Messages BY <1>2, <1>3, MessagesAre
  <2> QED BY <1>3, <2>1
<1>5. /\ wire' \in Seq(Messages) /\ Len(wire') = n + 1
      /\ \A i \in 1..n: wire'[i] = wire[i]
      /\ wire'[n + 1] = m
  BY <1>1, <1>2, <1>3, <1>4
<1>6. /\ DOMAIN wire = 1..n /\ DOMAIN wire' = 1..(n + 1)
      /\ \A i \in 1..(n + 1): i \in 1..n \/ i = n + 1
  BY <1>1, <1>2, <1>5
<1>7. \A i \in 1..n: wire[i].what # "started" /\ ~IsAnswer(wire[i]) BY <1>6 DEF WireOrder
<1>8. ~IsAnswer(m) BY <1>4 DEF IsAnswer
<1>9. \A i \in 1..(n + 1): (wire'[i].what = "started" => i = n + 1) /\ ~IsAnswer(wire'[i])
  BY <1>5, <1>6, <1>7, <1>8
<1>10. ASSUME NEW i \in 1..(n + 1), wire'[i].what = "ended"
       PROVE  i = 1 /\ wire'[i].turn \in 1..turns' /\ wire'[i].turn # running'
  <2>1. i \in 1..n BY <1>4, <1>5, <1>6, <1>10
  <2>2. i = 1 /\ wire[i].turn \in 1..turns BY <1>5, <1>6, <1>10, <2>1 DEF WireOrder
  <2> QED BY <1>2, <1>5, <2>1, <2>2
<1>11. WireOrder'
  <2>1. \A i \in 1..(n + 1): wire'[i].what = "started" => running' # 0 /\ wire'[i].turn = running'
    BY <1>2, <1>4, <1>5, <1>9
  <2>2. \A i, j \in 1..(n + 1): wire'[i].what = "started" /\ wire'[j].what = "started" => i = j
    BY <1>9
  <2>3. \A i \in 1..(n + 1): ~IsAnswer(wire[i])' BY <1>9 DEF IsAnswer
  <2> QED BY <1>6, <1>10, <2>1, <2>2, <2>3 DEF WireOrder
<1>12. Calls'
  <2>1. \A x \in Prompt: stage'[x] \notin {"calling", "answered", "busy"} OBVIOUS
  <2>2. ASSUME NEW x \in active', stage'[x] = "there"
        PROVE  turnOf'[x] # 0 /\ Ending(turnOf[x])'
    <3>1. x \in active /\ turnOf[x] # 0 /\ Ending(turnOf[x]) BY <2>2 DEF Calls
    <3>2. wire # << >> /\ wire[1].what = "ended" /\ wire[1].turn = turnOf[x] BY <3>1 DEF Ending
    <3>3. n # 0 BY <1>1, <1>2, <3>2
    <3>4. 1 \in 1..n BY <1>1, <3>3
    <3>5. wire' # << >> /\ wire'[1] = wire[1] BY <1>1, <1>5, <3>4
    <3> QED BY <3>1, <3>2, <3>5 DEF Ending
  <2> QED BY <2>1, <2>2 DEF Calls
<1> QED BY <1>2, <1>5, <1>11, <1>12

LEMMA OwnTurnKeeps ==
    ASSUME IInv, InTurn, OwnTurn
    PROVE  IInv'
<1>1. Typed /\ Queues /\ Places /\ OneStart /\ WireOrder /\ Calls BY DEF IInv
<1>2. /\ running = 0 /\ running' = turns + 1 /\ turns' = turns + 1
      /\ wire' = Append(wire, [what |-> "started", turn |-> turns + 1])
      /\ \A x \in Prompt: ~Starting(x) \/ stage[x] = "checkpoint"
      /\ UNCHANGED << queue, active, turnOf, aborted, stage, queued, cancelling, steering, told,
                      abandoned >>
  BY DEF OwnTurn, Settled, InTurn
<1>3. \A x \in Prompt: stage[x] \notin {"calling", "answered", "busy"} BY <1>2 DEF Starting
<1>4. active \subseteq Prompt BY <1>1 DEF Typed
<1>5. /\ WireOrder' /\ Calls' /\ wire' \in Seq(Messages)
      /\ running' # 0 /\ running' \in Nat /\ turns' \in Nat
  BY <1>1, <1>2, <1>3, <1>4, TurnStarts
<1>6. \A x \in Prompt: (Fresh(x)' <=> Fresh(x)) /\ (Waits(x)' <=> Waits(x))
  BY <1>2 DEF Fresh, Waits
<1>7. Typed' BY <1>1, <1>2, <1>5 DEF Typed
<1>8. Queues' BY <1>1, <1>2, <1>6 DEF Queues
<1>9. Places' BY <1>1, <1>2, <1>6 DEF Places
<1>10. OneStart' BY <1>1, <1>2 DEF OneStart, Starting
<1>11. Served' BY <1>5 DEF Served
<1> QED BY <1>5, <1>7, <1>8, <1>9, <1>10, <1>11 DEF IInv

LEMMA SteerArrivesKeeps ==
    ASSUME IInv, InTurn, SteerArrives
    PROVE  IInv'
<1>1. Typed /\ Queues /\ Places /\ OneStart /\ WireOrder /\ Calls /\ Served BY DEF IInv
<1>2. /\ steering' = << >> /\ Tell({x \in Prompt: Has(steering, x)})
      /\ UNCHANGED << queue, active, turnOf, aborted, stage, queued, cancelling, abandoned >>
  BY DEF SteerArrives, InSteer, Has
<1>3. /\ told' \in [Prompt -> Nat]
      /\ \A x \in Prompt: told'[x] = IF Has(steering, x) THEN told[x] + 1 ELSE told[x]
  <2>1. PICK S: S = {x \in Prompt: Has(steering, x)} OBVIOUS
  <2>2. /\ told' \in [Prompt -> Nat]
        /\ \A x \in Prompt: told'[x] = IF x \in S THEN told[x] + 1 ELSE told[x]
    BY <1>1, <1>2, <2>1, TellIs
  <2>3. \A x \in Prompt: x \in S <=> Has(steering, x) BY <2>1
  <2> QED BY <2>2, <2>3
<1>4. steering' \in Seq(Prompt) /\ Once(steering') /\ \A x: ~Has(steering', x)
  <2>1. << >> \in Seq(Prompt) /\ Once(<< >>) /\ \A x: ~Has(<< >>, x) BY DEF Once, Has
  <2> QED BY <1>2, <2>1
<1>5. \A x \in Prompt: ~Has(steering, x) => (Fresh(x)' <=> Fresh(x)) BY <1>2, <1>3 DEF Fresh
<1>6. \A x \in Prompt: Has(steering, x) => stage[x] = "there" /\ Fresh(x) /\ ~Has(queue, x)
  BY <1>1 DEF Queues, Waits
<1>7. \A x \in Prompt: Waits(x)' <=> Has(queue, x) BY <1>2, <1>4 DEF Waits
<1>8. /\ WireOrder' /\ Calls' /\ wire' \in Seq(Messages) /\ running' \in Nat /\ turns' \in Nat
      /\ running' # 0
  <2>1. CASE running # 0
    <3>1. UNCHANGED << running, turns, wire >> BY <1>2, <2>1 DEF SteerArrives
    <3>2. WireOrder' BY <1>1, <1>2, <3>1, WireStays
    <3>3. Calls' BY <1>1, <1>2, <3>1, CallsStay DEF Typed
    <3> QED BY <1>1, <2>1, <3>1, <3>2, <3>3 DEF Typed
  <2>2. CASE running = 0
    <3>1. /\ running' = turns + 1 /\ turns' = turns + 1
          /\ wire' = Append(wire, [what |-> "started", turn |-> turns + 1])
          /\ \A x \in Prompt: ~Starting(x) \/ stage[x] = "checkpoint"
      BY <2>2 DEF SteerArrives, Settled, InTurn
    <3>2. \A x \in Prompt: stage[x] \notin {"calling", "answered", "busy"} BY <3>1 DEF Starting
    <3>3. active \subseteq Prompt BY <1>1 DEF Typed
    <3> QED BY <1>1, <1>2, <2>2, <3>1, <3>2, <3>3, TurnStarts
  <2> QED BY <2>1, <2>2
<1>9. Typed' BY <1>1, <1>2, <1>3, <1>4, <1>8 DEF Typed
<1>10. Queues'
  <2>1. ASSUME NEW x \in Prompt, Has(queue, x) PROVE stage'[x] = "there" /\ Fresh(x)'
    <3>1. stage[x] = "there" /\ Fresh(x) /\ ~Has(steering, x) BY <1>1, <2>1 DEF Queues, Waits
    <3> QED BY <1>2, <1>5, <3>1
  <2> QED BY <1>1, <1>2, <1>4, <1>7, <2>1 DEF Queues
<1>11. Places'
  <2>1. \A x \in Prompt: stage'[x] \in {"new", "checkpoint", "busy", "failing", "failed"} => Fresh(x)'
    <3> TAKE x \in Prompt
    <3>1. CASE Has(steering, x) BY <1>2, <1>6, <3>1
    <3>2. CASE ~Has(steering, x) BY <1>1, <1>2, <1>5, <3>2 DEF Places
    <3> QED BY <3>1, <3>2
  <2>2. \A x \in Prompt: stage'[x] \in {"calling", "answered"} =>
            x \in active' /\ x \notin aborted' /\ x \notin cancelling' /\ told'[x] = 0
    <3> TAKE x \in Prompt
    <3>1. CASE Has(steering, x) BY <1>2, <1>6, <3>1
    <3>2. CASE ~Has(steering, x) BY <1>1, <1>2, <1>3, <3>2 DEF Places
    <3> QED BY <3>1, <3>2
  <2>3. ASSUME NEW x \in Prompt, stage'[x] = "there", ~Waits(x)'
        PROVE  told'[x] = IF x \in cancelling' \/ (x \in active' /\ x \notin aborted') THEN 0 ELSE 1
    <3>1. CASE Has(steering, x)
      <4>1. told'[x] = 1 /\ x \notin cancelling /\ x \notin active BY <1>3, <1>6, <3>1 DEF Fresh
      <4> QED BY <1>2, <4>1
    <3>2. CASE ~Has(steering, x)
      <4>1. ~Waits(x) BY <1>7, <2>3, <3>2 DEF Waits
      <4> QED BY <1>1, <1>2, <1>3, <2>3, <3>2, <4>1 DEF Places
    <3> QED BY <3>1, <3>2
  <2> QED BY <1>1, <1>2, <2>1, <2>2, <2>3 DEF Places
<1>12. OneStart' BY <1>1, <1>2 DEF OneStart, Starting
<1>13. Served' BY <1>8 DEF Served
<1> QED BY <1>8, <1>9, <1>10, <1>11, <1>12, <1>13 DEF IInv

LEMMA EndTurnKeeps ==
    ASSUME IInv, InTurn, EndTurn
    PROVE  IInv'
<1>1. Typed /\ Queues /\ Places /\ OneStart /\ WireOrder /\ Calls BY DEF IInv
<1>2. /\ running # 0 /\ running' = 0 /\ wire = << >>
      /\ wire' = Append(wire, [what |-> "ended", turn |-> running])
      /\ \A x \in Prompt: ~Starting(x) \/ stage[x] = "checkpoint"
      /\ UNCHANGED << queue, active, turnOf, aborted, stage, queued, cancelling, steering, told,
                      turns, abandoned >>
  BY DEF EndTurn, Settled, InTurn
<1>3. PICK m: m = [what |-> "ended", turn |-> running] OBVIOUS
<1>4. m \in Messages /\ m.what = "ended" /\ m.turn = running /\ running \in Nat /\ turns \in Nat
  <2>1. running \in Nat /\ turns \in Nat BY <1>1 DEF Typed
  <2>2. m \in Messages BY <1>3, <2>1, MessagesAre
  <2> QED BY <1>3, <2>1, <2>2
<1>5. /\ wire' \in Seq(Messages) /\ wire' = << m >>
      /\ wire' # << >> /\ wire'[1] = m /\ DOMAIN wire' = {1}
  <2>1. << m >> \in Seq(Messages) BY <1>4
  <2>2. wire' = << m >> BY <1>2, <1>3
  <2> QED BY <2>1, <2>2
<1>6. running \in 1..turns BY <1>1, <1>2, <1>4 DEF WireOrder
<1>7. ~IsAnswer(m) BY <1>4 DEF IsAnswer
<1>8. WireOrder'
  <2>1. \A i \in DOMAIN wire': i = 1 /\ wire'[i] = m BY <1>5
  <2>2. \A i \in DOMAIN wire': wire'[i].what = "ended" =>
            i = 1 /\ wire'[i].turn \in 1..turns' /\ wire'[i].turn # running'
    BY <1>2, <1>4, <1>6, <2>1
  <2>3. \A i \in DOMAIN wire': wire'[i].what # "started" /\ ~IsAnswer(wire[i])'
    BY <1>4, <1>7, <2>1 DEF IsAnswer
  <2> QED BY <1>2, <2>2, <2>3 DEF WireOrder
<1>9. Calls'
  <2>1. \A x \in Prompt: stage'[x] \notin {"calling", "answered", "busy"} BY <1>2 DEF Starting
  <2>2. ASSUME NEW x \in active', stage'[x] = "there"
        PROVE  turnOf'[x] # 0 /\ Ending(turnOf[x])'
    <3>1. turnOf[x] # 0 /\ turnOf[x] = running BY <1>1, <1>2, <2>2 DEF Calls, Ending
    <3> QED BY <1>2, <1>4, <1>5, <3>1 DEF Ending
  <2> QED BY <2>1, <2>2 DEF Calls
<1>10. \A x \in Prompt: (Fresh(x)' <=> Fresh(x)) /\ (Waits(x)' <=> Waits(x))
  BY <1>2 DEF Fresh, Waits
<1>11. Typed' BY <1>1, <1>2, <1>4, <1>5 DEF Typed
<1>12. Queues' BY <1>1, <1>2, <1>10 DEF Queues
<1>13. Places' BY <1>1, <1>2, <1>10 DEF Places
<1>14. OneStart' BY <1>1, <1>2 DEF OneStart, Starting
<1>15. Served'
  <2>1. \E t \in Nat: Ending(t)' BY <1>4, <1>5 DEF Ending
  <2> QED BY <2>1 DEF Served
<1> QED BY <1>5, <1>8, <1>9, <1>11, <1>12, <1>13, <1>14, <1>15 DEF IInv
-----------------------------------------------------------------------------
LEMMA DeliverKeeps ==
    ASSUME IInv, InTurn, Deliver
    PROVE  IInv'
<1>1. Typed /\ WireOrder BY DEF IInv
<1>2. /\ wire # << >> /\ wire' = Tail(wire) /\ Head(wire) = wire[1]
      /\ UNCHANGED << running, turns >>
  BY <1>1 DEF Deliver, core, Typed
<1>3. \/ wire[1].what = "started" /\ Started(wire[1])
      \/ wire[1].what = "ended" /\ Ended(wire[1])
      \/ IsAnswer(wire[1]) /\ Answered(wire[1])
  BY <1>2 DEF Deliver, IsAnswer
<1>4. CASE wire[1].what = "started" /\ Started(wire[1]) BY <1>2, <1>4, StartedKeeps
<1>5. CASE wire[1].what = "ended" /\ Ended(wire[1]) BY <1>2, <1>5, EndedKeeps
<1>6. CASE IsAnswer(wire[1]) /\ Answered(wire[1]) BY <1>2, <1>6, AnsweredKeeps
<1> QED BY <1>3, <1>4, <1>5, <1>6

LEMMA Start == Init => IInv
<1> SUFFICES ASSUME Init PROVE IInv OBVIOUS
<1>1. /\ queue = << >> /\ steering = << >> /\ wire = << >> /\ active = {} /\ aborted = {}
      /\ queued = {} /\ cancelling = {} /\ running = 0 /\ turns = 0 /\ abandoned = FALSE
      /\ stage = [p \in Prompt |-> "new"] /\ turnOf = [p \in Prompt |-> 0]
      /\ told = [p \in Prompt |-> 0]
  BY DEF Init
<1>2. \A q \in {queue, steering}: q \in Seq(Prompt) /\ Once(q) /\ \A x: ~Has(q, x)
  <2>1. << >> \in Seq(Prompt) /\ Once(<< >>) /\ \A x: ~Has(<< >>, x) BY DEF Once, Has
  <2> QED BY <1>1, <2>1
<1>3. wire \in Seq(Messages) /\ \A i \in DOMAIN wire: FALSE BY <1>1
<1>4. \A x \in Prompt: Fresh(x) /\ ~Waits(x) /\ stage[x] = "new" BY <1>1, <1>2 DEF Fresh, Waits
<1>5. Typed
  <2>1. stage \in [Prompt -> Stages] BY <1>1 DEF Stages
  <2>2. turnOf \in [Prompt -> Nat] /\ told \in [Prompt -> Nat] BY <1>1
  <2> QED BY <1>1, <1>2, <1>3, <2>1, <2>2 DEF Typed
<1>6. Queues BY <1>2, <1>4 DEF Queues
<1>7. Places BY <1>1, <1>4 DEF Places
<1>8. OneStart BY <1>1, <1>4 DEF OneStart, Starting
<1>9. WireOrder BY <1>1, <1>3 DEF WireOrder
<1>10. Calls BY <1>1, <1>4 DEF Calls
<1>11. Served BY <1>1 DEF Served
<1> QED BY <1>5, <1>6, <1>7, <1>8, <1>9, <1>10, <1>11 DEF IInv

LEMMA Stutters ==
    ASSUME IInv, UNCHANGED vars
    PROVE  IInv'
<1>1. Typed /\ Queues /\ Places /\ OneStart /\ WireOrder /\ Calls /\ Served BY DEF IInv
<1>2. UNCHANGED << queue, active, turnOf, aborted, stage, queued, cancelling, steering, told,
                   running, turns, wire, abandoned >>
  BY DEF vars
<1>3. Typed' BY <1>1, <1>2 DEF Typed
<1>4. \A x \in Prompt: (Fresh(x)' <=> Fresh(x)) /\ (Waits(x)' <=> Waits(x))
  BY <1>2 DEF Fresh, Waits
<1>5. Queues' BY <1>1, <1>2, <1>4 DEF Queues
<1>6. Places' BY <1>1, <1>2, <1>4 DEF Places
<1>7. OneStart' BY <1>1, <1>2 DEF OneStart, Starting
<1>8. WireOrder' BY <1>1, <1>2, WireStays
<1>9. Calls' BY <1>1, <1>2, CallsStay DEF Typed
<1>10. Served'
  <2>1. (\A x: Starting(x)' <=> Starting(x)) /\ \A t: Ending(t)' <=> Ending(t)
    BY <1>2 DEF Starting, Ending
  <2> QED BY <1>1, <1>2, <2>1 DEF Served
<1> QED BY <1>3, <1>5, <1>6, <1>7, <1>8, <1>9, <1>10 DEF IInv

LEMMA Step == InTurn /\ IInv /\ [Next]_vars => IInv'
<1> SUFFICES ASSUME InTurn, IInv, [Next]_vars PROVE IInv' OBVIOUS
<1>1. ASSUME NEW p \in Prompt,
             \/ Submit(p) \/ Captured(p) \/ CaptureFails(p)
             \/ Arrive(p) \/ ArriveFails(p) \/ Requeue(p) \/ Failed(p)
             \/ AbortQueued(p) \/ Abort(p) \/ Aborted(p)
      PROVE  IInv'
  <2>1. CASE Submit(p) BY <2>1, SubmitKeeps
  <2>2. CASE Captured(p) BY <2>2, CapturedKeeps
  <2>3. CASE CaptureFails(p) BY <2>3, GiveUpKeeps DEF CaptureFails, core
  <2>4. CASE Failed(p) BY <2>4, GiveUpKeeps DEF Failed, core
  <2>5. CASE Arrive(p) \/ ArriveFails(p) BY <2>5, ArriveKeeps
  <2>6. CASE Requeue(p) BY <2>6, RequeueKeeps
  <2>7. CASE AbortQueued(p) BY <2>7, AbortQueuedKeeps
  <2>8. CASE Abort(p) BY <2>8, AbortKeeps
  <2>9. CASE Aborted(p) BY <2>9, AbortedKeeps
  <2> QED BY <1>1, <2>1, <2>2, <2>3, <2>4, <2>5, <2>6, <2>7, <2>8, <2>9
<1>2. ASSUME NEW ids \in Selections, Steer(ids) PROVE IInv' BY <1>2, SteerKeeps
<1>3. CASE SteerArrives BY <1>3, SteerArrivesKeeps
<1>4. CASE SteerFails BY <1>4, SteerFailsKeeps
<1>5. CASE Deliver BY <1>5, DeliverKeeps
<1>6. CASE OwnTurn BY <1>6, OwnTurnKeeps
<1>7. CASE EndTurn BY <1>7, EndTurnKeeps
<1>8. CASE UNCHANGED vars BY <1>8, Stutters
<1> QED BY <1>1, <1>2, <1>3, <1>4, <1>5, <1>6, <1>7, <1>8 DEF Next

LEMMA Accounts == IInv => PromptAccounted
<1> SUFFICES ASSUME IInv, NEW p \in Prompt, stage[p] # "new"
             PROVE  LET homes == {h \in {"queue", "start", "steer"}:
                                     \/ h = "queue" /\ InQueue(p)
                                     \/ h = "start" /\ stage[p] \in {"checkpoint", "busy"}
                                     \/ h = "steer" /\ InSteer(p)}
                    IN  /\ told[p] <= 1
                        /\ told[p] = 0 => \/ homes # {} /\ p \notin active
                                          \/ p \in active \cup cancelling
                                          \/ stage[p] \in {"failing", "failed"}
                        /\ told[p] = 1 => homes = {}
                        /\ \A g, h \in homes: g = h
  BY DEF PromptAccounted
<1>1. Queues /\ Places /\ stage[p] \in Stages BY DEF IInv, Typed
<1>2. (InQueue(p) <=> Has(queue, p)) /\ (InSteer(p) <=> Has(steering, p))
  BY DEF InQueue, InSteer, Has
<1>3. PICK homes: homes = {h \in {"queue", "start", "steer"}:
                              \/ h = "queue" /\ InQueue(p)
                              \/ h = "start" /\ stage[p] \in {"checkpoint", "busy"}
                              \/ h = "steer" /\ InSteer(p)}
  OBVIOUS
<1>4. /\ \A h \in homes: h \in {"queue", "start", "steer"}
      /\ "queue" \in homes <=> Has(queue, p)
      /\ "start" \in homes <=> stage[p] \in {"checkpoint", "busy"}
      /\ "steer" \in homes <=> Has(steering, p)
  BY <1>2, <1>3
<1>5. CASE Waits(p)
  <2>1. stage[p] = "there" /\ Fresh(p) /\ ~ (Has(queue, p) /\ Has(steering, p))
    BY <1>1, <1>5 DEF Queues
  <2>2. told[p] = 0 /\ p \notin active BY <2>1 DEF Fresh
  <2>3. homes # {} BY <1>4, <1>5 DEF Waits
  <2>4. \A g, h \in homes: g = h BY <1>4, <2>1
  <2> QED BY <1>3, <2>2, <2>3, <2>4
<1>6. CASE ~Waits(p)
  <2>1. \A h \in homes: h = "start" BY <1>4, <1>6 DEF Waits
  <2>2. CASE stage[p] \in {"checkpoint", "busy"}
    <3>1. told[p] = 0 /\ p \notin active BY <1>1, <2>2 DEF Places, Fresh
    <3>2. homes # {} BY <1>4, <2>2
    <3> QED BY <1>3, <2>1, <3>1, <3>2
  <2>3. CASE stage[p] \in {"failing", "failed", "calling", "answered"}
    <3>1. told[p] = 0 /\ (p \in active \/ stage[p] \in {"failing", "failed"})
      BY <1>1, <2>3 DEF Places, Fresh
    <3> QED BY <1>3, <2>1, <3>1
  <2>4. CASE stage[p] = "there"
    <3>1. told[p] = IF p \in cancelling \/ (p \in active /\ p \notin aborted) THEN 0 ELSE 1
      BY <1>1, <1>6, <2>4 DEF Places
    <3>2. homes = {} BY <1>4, <2>1, <2>4
    <3> QED BY <1>3, <3>1, <3>2
  <2> QED BY <1>1, <2>2, <2>3, <2>4 DEF Stages
<1> QED BY <1>5, <1>6

LEMMA Serves == IInv => NotStranded
<1> SUFFICES ASSUME IInv, running = 0, wire = << >>, \A p \in Prompt: ~Starting(p), ~abandoned
             PROVE  queue = << >> /\ active = {}
  BY DEF NotStranded
<1>1. Typed /\ Places /\ Calls /\ Served BY DEF IInv
<1>2. \A t: ~Ending(t) BY DEF Ending
<1>3. active = {}
  <2> SUFFICES ASSUME NEW p \in active PROVE FALSE OBVIOUS
  <2>1. p \in Prompt /\ stage[p] \in Stages BY <1>1 DEF Typed
  <2>2. stage[p] = "there" BY <1>1, <2>1 DEF Places, Fresh, Starting, Stages
  <2> QED BY <1>1, <1>2, <2>2 DEF Calls
<1>4. queue = << >> BY <1>1, <1>2, <1>3 DEF Served
<1> QED BY <1>3, <1>4

\* promptService.ts: every prompt that was submitted is in one place until its end is
\* published, once; and none is left behind when the core falls idle.
THEOREM NoneLost == ASSUME InTurn PROVE Spec => [](PromptAccounted /\ NotStranded)
BY Start, Step, Accounts, Serves, PTL DEF Spec
=============================================================================
