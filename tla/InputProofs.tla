------------------------------ MODULE InputProofs ------------------------------
(***************************************************************************)
(* Proofs about what the program makes of its input: the messages and      *)
(* commands of a channel (ChannelCommands, InboundPolicy), the paths of    *)
(* file tools (FileRouting), the arguments and commands of the tools       *)
(* (ToolArguments, ExecPreflight), and what a turn is reminded of          *)
(* (RecallRanking).                                                        *)
(***************************************************************************)
EXTENDS ChannelCommands, FileRouting, ExecPreflight, RecallRanking,
        FiniteSetTheorems, WellFoundedInduction, SequenceTheorems, TLAPS

-----------------------------------------------------------------------------
(* Numbers                                                                  *)

(* A set of naturals that has a member has a least one.                     *)
LEMMA LeastMember ==
    ASSUME NEW S, S \subseteq Nat, S # {}
    PROVE  \E x \in S : \A y \in S : x <= y
<1> DEFINE R == OpToRel(<, Nat)
<1>1. IsWellFoundedOn(R, Nat)
  BY NatLessThanWellFounded
<1>2. PICK x \in S : \A y \in S : ~(<<y, x>> \in R)
  <2> HIDE DEF R
  <2> QED
    BY <1>1, WFMin
<1>3. \A y \in S : y < x => <<y, x>> \in R
  BY DEF OpToRel
<1>4. \A y \in S : ~(y < x)
  BY <1>2, <1>3
<1> QED
  BY <1>4

(* A set of numbers up to n that has a member has a greatest one.           *)
LEMMA GreatestMember ==
    ASSUME NEW n \in Nat, NEW S, S \subseteq 1..n, S # {}
    PROVE  \E x \in S : \A y \in S : x >= y
<1> DEFINE gaps == {n - x : x \in S}
<1>1. gaps \subseteq Nat /\ gaps # {}
  <2>1. \A x \in S : n - x \in Nat
    OBVIOUS
  <2> QED
    BY <2>1
<1>2. PICK g \in gaps : \A h \in gaps : g <= h
  <2> HIDE DEF gaps
  <2> QED
    BY <1>1, LeastMember
<1>3. PICK x \in S : g = n - x
  BY <1>2
<1>4. \A y \in S : n - x <= n - y
  BY <1>2, <1>3
<1> QED
  BY <1>3, <1>4

(* What holds at 0 and is handed on by each number holds up to n.           *)
LEMMA UpTo ==
    ASSUME NEW n \in Nat, NEW P, 0 \in P, \A i \in 0..(n - 1) : i \in P => i + 1 \in P
    PROVE  \A i \in 0..n : i \in P
<1> DEFINE bad == {i \in 0..n : i \notin P}
<1>1. SUFFICES ASSUME bad # {} PROVE FALSE
  OBVIOUS
<1>2. bad \subseteq Nat
  OBVIOUS
<1>3. PICK x \in bad : \A y \in bad : x <= y
  <2> HIDE DEF bad
  <2> QED
    BY <1>1, <1>2, LeastMember
<1>4. x \in 0..n /\ x \notin P /\ x # 0
  OBVIOUS
<1>5. x - 1 \in 0..(n - 1) /\ ~(x <= x - 1) /\ (x - 1) + 1 = x
  BY <1>4
<1>6. x - 1 \in P
  BY <1>3, <1>5
<1> QED
  BY <1>4, <1>5, <1>6

-----------------------------------------------------------------------------
(* Folds                                                                    *)

(* The greatest of some of the numbers up to n.                             *)
LEMMA MaxOfSome ==
    ASSUME NEW n \in Nat, NEW s \in SUBSET (1..n), s # {}
    PROVE  Max(s) \in s /\ \A y \in s : Max(s) >= y
BY GreatestMember DEF Max

(* The greatest of all of them.                                             *)
LEMMA MaxOfAll ==
    ASSUME NEW k \in Nat, k # 0
    PROVE  Max(1..k) = k /\ (1..k) \ {k} = 1..(k - 1) /\ 1..k # {}
<1>1. 1..k # {} /\ k \in 1..k /\ (1..k) \in SUBSET (1..k)
  OBVIOUS
<1>2. Max(1..k) \in 1..k /\ Max(1..k) >= k
  BY <1>1, MaxOfSome
<1> QED
  BY <1>1, <1>2

\* The function that a fold over 1..n is defined by, its step given as a
\* function of the value so far and the position.
IsFold(h, n, base, step) ==
    h = [s \in SUBSET (1..n) |->
            IF s = {} THEN base ELSE step[<<h[s \ {Max(s)}], Max(s)>>]]

(* There is such a function.                                                *)
LEMMA FoldExists ==
    ASSUME NEW n \in Nat, NEW V, NEW base \in V, NEW step \in [V \X (1..n) -> V]
    PROVE  \E h \in [SUBSET (1..n) -> V] : IsFold(h, n, base, step)
<1> DEFINE P == {k \in 0..n : \E h \in [SUBSET (1..k) -> V] : IsFold(h, k, base, step)}
<1>1. 0 \in P
  <2> DEFINE h == [s \in SUBSET (1..0) |-> base]
  <2>1. h \in [SUBSET (1..0) -> V]
    OBVIOUS
  <2>2. \A s \in SUBSET (1..0) : s = {}
    OBVIOUS
  <2>3. h = [s \in SUBSET (1..0) |->
                IF s = {} THEN base ELSE step[<<h[s \ {Max(s)}], Max(s)>>]]
    BY <2>2
  <2>4. IsFold(h, 0, base, step)
    BY <2>3 DEF IsFold
  <2>5. 0 \in 0..n
    OBVIOUS
  <2> HIDE DEF h
  <2> QED
    BY <2>1, <2>4, <2>5
<1>2. ASSUME NEW k \in 0..(n - 1), k \in P PROVE k + 1 \in P
  <2>1. PICK h \in [SUBSET (1..k) -> V] : IsFold(h, k, base, step)
    BY <1>2
  <2> DEFINE m == k + 1
             g == [s \in SUBSET (1..m) |->
                      IF m \in s THEN step[<<h[s \ {m}], m>>] ELSE h[s]]
  <2>2. k \in Nat /\ m \in 1..n
    OBVIOUS
  <2>3. ASSUME NEW s \in SUBSET (1..m)
        PROVE  /\ s \ {m} \in SUBSET (1..k) /\ (m \notin s => s \in SUBSET (1..k))
               /\ g[s] \in V
    <3>1. \A i \in 1..m : i # m => i \in 1..k
      BY <2>2
    <3>2. s \ {m} \in SUBSET (1..k) /\ (m \notin s => s \in SUBSET (1..k))
      BY <3>1
    <3>3. m \in s => g[s] = step[<<h[s \ {m}], m>>]
      OBVIOUS
    <3>4. m \notin s => g[s] = h[s]
      OBVIOUS
    <3>5. h[s \ {m}] \in V
      BY <3>2
    <3>6. step[<<h[s \ {m}], m>>] \in V
      BY <2>2, <3>5
    <3> HIDE DEF g
    <3> QED
      BY <3>2, <3>3, <3>4, <3>6
  <2>4. ASSUME NEW s \in SUBSET (1..m)
        PROVE  g[s] = IF s = {} THEN base ELSE step[<<g[s \ {Max(s)}], Max(s)>>]
    <3>1. CASE m \in s
      <4>1. Max(s) \in 1..m /\ Max(s) >= m
        <5>1. m \in Nat /\ s # {} /\ s \in SUBSET (1..m)
          BY <2>2, <3>1
        <5> HIDE DEF m
        <5> QED
          BY <3>1, <5>1, MaxOfSome
      <4>2. Max(s) = m
        BY <2>2, <4>1
      <4>3. s \ {m} \in SUBSET (1..m) /\ m \notin s \ {m}
        OBVIOUS
      <4>4. g[s \ {m}] = h[s \ {m}]
        BY <4>3
      <4>5. g[s] = step[<<h[s \ {m}], m>>]
        BY <3>1
      <4> HIDE DEF g
      <4> QED
        BY <3>1, <4>2, <4>4, <4>5
    <3>2. CASE m \notin s
      <4>1. s \in SUBSET (1..k) /\ g[s] = h[s]
        BY <2>3, <3>2
      <4>2. h[s] = IF s = {} THEN base ELSE step[<<h[s \ {Max(s)}], Max(s)>>]
        BY <2>1, <4>1 DEF IsFold
      <4>3. s \ {Max(s)} \in SUBSET (1..m) /\ m \notin s \ {Max(s)}
        BY <3>2
      <4>4. g[s \ {Max(s)}] = h[s \ {Max(s)}]
        BY <4>3
      <4> HIDE DEF g
      <4> QED
        BY <4>1, <4>2, <4>4
    <3> QED
      BY <3>1, <3>2
  <2>5. g \in [SUBSET (1..m) -> V]
    BY <2>3
  <2>6. IsFold(g, m, base, step)
    <3>1. g = [s \in SUBSET (1..m) |-> g[s]]
      OBVIOUS
    <3> HIDE DEF g
    <3> QED
      BY <2>4, <3>1 DEF IsFold
  <2> HIDE DEF g
  <2> QED
    BY <2>2, <2>5, <2>6
<1>3. \A i \in 0..n : i \in P
  <2> HIDE DEF P
  <2> QED
    BY <1>1, <1>2, UpTo
<1>4. n \in 0..n
  OBVIOUS
<1>5. n \in P
  <2> HIDE DEF P
  <2> QED
    BY <1>3, <1>4
<1> QED
  BY <1>5

(* What holds of the empty sequence and is kept by one element more holds of *)
(* every sequence.                                                          *)
LEMMA EverySequence ==
    ASSUME NEW X, NEW P, <<>> \in P, \A s \in Seq(X) : s \in P => \A x \in X : Append(s, x) \in P
    PROVE  Seq(X) \subseteq P
<1>1. SUFFICES ASSUME NEW s \in Seq(X) PROVE s \in P
  OBVIOUS
<1> DEFINE n == Len(s)
           Q == {k \in 0..n : SubSeq(s, 1, k) \in P}
<1>2. /\ n \in Nat /\ SubSeq(s, 1, n) = s /\ SubSeq(s, 1, 0) = <<>>
      /\ \A k \in 0..n : SubSeq(s, 1, k) \in Seq(X)
      /\ \A k \in 0..(n - 1) : SubSeq(s, 1, k + 1) = Append(SubSeq(s, 1, k), s[k + 1])
      /\ \A k \in 0..(n - 1) : s[k + 1] \in X
  OBVIOUS
<1> HIDE DEF n
<1>3. 0 \in Q
  <2>1. 0 \in 0..n
    BY <1>2
  <2> QED
    BY <1>2, <2>1
<1>4. ASSUME NEW k \in 0..(n - 1), k \in Q PROVE k + 1 \in Q
  <2>1. SubSeq(s, 1, k) \in P /\ SubSeq(s, 1, k) \in Seq(X) /\ k + 1 \in 0..n
    BY <1>2, <1>4
  <2>2. Append(SubSeq(s, 1, k), s[k + 1]) \in P
    BY <1>2, <2>1
  <2>3. SubSeq(s, 1, k + 1) \in P
    BY <1>2, <2>2
  <2> QED
    BY <2>1, <2>3
<1>5. \A k \in 0..n : k \in Q
  <2> HIDE DEF Q
  <2> QED
    BY <1>2, <1>3, <1>4, UpTo
<1>6. n \in Q
  BY <1>2, <1>5
<1> QED
  BY <1>2, <1>6

\* A fold told step by step: what it has made of the first k elements of s.
IsRun(g, f, V, base, s) ==
    /\ g \in [0..Len(s) -> V] /\ g[0] = base
    /\ \A k \in 1..Len(s) : g[k] = f[<<g[k - 1], s[k]>>]

(* Values that follow from one another by steps of a fold are its run.      *)
LEMMA ChainIsRun ==
    ASSUME NEW V, NEW X, NEW f \in [V \X X -> V], NEW s \in Seq(X), NEW g,
           g = [k \in 0..Len(s) |-> g[k]], g[0] \in V,
           \A k \in 1..Len(s) : g[k - 1] \in V => g[k] = f[<<g[k - 1], s[k]>>]
    PROVE  IsRun(g, f, V, g[0], s)
<1> DEFINE n == Len(s)
           P == {k \in 0..n : g[k] \in V}
<1>1. n \in Nat /\ \A k \in 1..n : s[k] \in X
  OBVIOUS
<1> HIDE DEF n
<1>2. 0 \in P
  BY <1>1
<1>3. ASSUME NEW k \in 0..(n - 1), k \in P PROVE k + 1 \in P
  <2>1. k + 1 \in 1..n /\ (k + 1) - 1 = k /\ k + 1 \in 0..n /\ g[k] \in V
    BY <1>1, <1>3
  <2>2. g[k + 1] = f[<<g[k], s[k + 1]>>]
    BY <2>1 DEF n
  <2>3. s[k + 1] \in X
    BY <1>1, <2>1
  <2>4. f[<<g[k], s[k + 1]>>] \in V
    BY <2>1, <2>3
  <2> QED
    BY <2>1, <2>2, <2>4
<1>4. \A k \in 0..n : k \in P
  <2> HIDE DEF P
  <2> QED
    BY <1>1, <1>2, <1>3, UpTo
<1>5. \A k \in 0..n : g[k] \in V
  BY <1>4
<1>6. \A k \in 1..n : k - 1 \in 0..n
  BY <1>1
<1> QED
  BY <1>5, <1>6 DEF n, IsRun

(* One element more is one step more.                                       *)
LEMMA RunOfMore ==
    ASSUME NEW V, NEW X, NEW f, NEW base, NEW s \in Seq(X), NEW x \in X, NEW g, NEW h,
           IsRun(g, f, V, base, s), IsRun(h, f, V, base, Append(s, x))
    PROVE  h[Len(Append(s, x))] = f[<<g[Len(s)], x>>]
<1> DEFINE n == Len(s)
           t == Append(s, x)
           P == {k \in 0..n : g[k] = h[k]}
<1>1. n \in Nat /\ Len(t) = n + 1 /\ t[n + 1] = x /\ \A k \in 1..n : t[k] = s[k]
  OBVIOUS
<1>2. /\ g[0] = h[0]
      /\ \A k \in 1..n : g[k] = f[<<g[k - 1], s[k]>>]
      /\ \A k \in 1..(n + 1) : h[k] = f[<<h[k - 1], t[k]>>]
  BY <1>1 DEF IsRun
<1> HIDE DEF n, t
<1>3. 0 \in P
  BY <1>1, <1>2
<1>4. ASSUME NEW k \in 0..(n - 1), k \in P PROVE k + 1 \in P
  <2>1. k + 1 \in 1..n /\ k + 1 \in 1..(n + 1) /\ (k + 1) - 1 = k /\ g[k] = h[k]
    BY <1>1, <1>4
  <2>2. g[k + 1] = f[<<g[k], s[k + 1]>>] /\ h[k + 1] = f[<<h[k], t[k + 1]>>]
    BY <1>2, <2>1
  <2> QED
    BY <1>1, <2>1, <2>2
<1>5. \A k \in 0..n : k \in P
  <2> HIDE DEF P
  <2> QED
    BY <1>1, <1>3, <1>4, UpTo
<1>6. g[n] = h[n]
  BY <1>1, <1>5
<1>7. n + 1 \in 1..(n + 1) /\ (n + 1) - 1 = n
  BY <1>1
<1> QED
  BY <1>1, <1>2, <1>6, <1>7 DEF n, t

-----------------------------------------------------------------------------
(* Routing                                                                  *)

Options(S) == {{}} \cup {{v} : v \in S}
Levels(agents, people) ==
    [agent : Options(agents), allow : Options(SUBSET people),
     mentions : Options(BOOLEAN)]
Routings(agents, people) ==
    [configured : BOOLEAN,
     defaults : Levels(agents, people), channelDefaults : Levels(agents, people),
     dm : Levels(agents, people), workspace : Levels(agents, people),
     channel : Levels(agents, people)]
Messages(people) == [place : Places, user : people, mentioned : BOOLEAN]
Fields == {"agent", "allow", "mentions"}

\* What the last of the levels that says anything about a field says of it.
LastSaid(levels, field) ==
    LET said == {i \in DOMAIN levels : levels[i][field] # {}}
    IN IF said = {} THEN {}
       ELSE levels[CHOOSE i \in said : \A k \in said : k <= i][field]

(* One more level has the last word, if it says anything.                   *)
LEMMA LastSaidOfMore ==
    ASSUME NEW S, NEW old \in Seq(S), NEW x \in S, NEW field
    PROVE  LastSaid(Append(old, x), field) = IF x[field] = {} THEN LastSaid(old, field)
                                             ELSE x[field]
<1> DEFINE n == Len(old)
           new == Append(old, x)
<1> DEFINE was == {i \in DOMAIN old : old[i][field] # {}}
           said == {i \in DOMAIN new : new[i][field] # {}}
           top == CHOOSE i \in said : \A k \in said : k <= i
           wasTop == CHOOSE i \in was : \A k \in was : k <= i
<1>n. /\ n \in Nat /\ DOMAIN old = 1..n /\ DOMAIN new = 1..(n + 1)
      /\ new[n + 1] = x /\ \A i \in 1..n : new[i] = old[i]
  OBVIOUS
<1> USE <1>n
<1> HIDE DEF n, new
<1>0. /\ LastSaid(new, field) = IF said = {} THEN {} ELSE new[top][field]
      /\ LastSaid(old, field) = IF was = {} THEN {} ELSE old[wasTop][field]
  BY DEF LastSaid
<1>1. CASE x[field] # {}
  <2>1. n + 1 \in said /\ \A k \in said : k <= n + 1
    BY <1>1
  <2>2. top \in said /\ \A k \in said : k <= top
    <3> HIDE DEF said
    <3> QED
      BY <2>1
  <2>3. top = n + 1
    <3>1. said \subseteq 1..(n + 1)
      OBVIOUS
    <3> HIDE DEF said, top
    <3> QED
      BY <2>1, <2>2, <3>1
  <2> HIDE DEF said, top, was, wasTop
  <2> QED
    BY <1>0, <1>1, <2>1, <2>3 DEF new
<1>2. CASE x[field] = {}
  <2>1. said = was
    BY <1>2
  <2>2. CASE was = {}
    BY <1>0, <1>2, <2>1, <2>2 DEF new
  <2>3. CASE was # {}
    <3>1. was \subseteq 1..n
      OBVIOUS
    <3>2. PICK z \in was : \A y \in was : y <= z
      <4> HIDE DEF was
      <4>1. PICK z \in was : \A y \in was : z >= y
        BY <2>3, <3>1, GreatestMember
      <4> QED
        BY <3>1, <4>1
    <3>3. wasTop \in was
      <4> HIDE DEF was
      <4> QED
        BY <3>2
    <3>4. top = wasTop
      BY <2>1
    <3>5. new[wasTop] = old[wasTop]
      BY <3>1, <3>3
    <3> HIDE DEF said, top, was, wasTop
    <3> QED
      BY <1>0, <1>2, <2>1, <2>3, <3>4, <3>5 DEF new
  <2> QED
    BY <2>2, <2>3
<1> QED
  BY <1>1, <1>2 DEF new

Over(higher, lower) == IF lower = {} THEN higher ELSE lower

(* What the overrides leave of a field is what the most specific level says. *)
LEMMA ResolvedIsDecisive ==
    ASSUME NEW agents, NEW people, NEW r \in Routings(agents, people),
           NEW place \in Places, NEW field \in Fields
    PROVE  Decisive(r, place, field) =
             LET kind == Over(r.defaults[field], r.channelDefaults[field])
                 place2 == Over(kind, r.workspace[field])
             IN IF ~r.configured THEN r.defaults[field]
                ELSE IF place = "dm" THEN Over(kind, r.dm[field])
                ELSE IF place = "other workspace" THEN kind
                ELSE IF place = "other channel" THEN place2
                ELSE Over(place2, r.channel[field])
<1> DEFINE level == Levels(agents, people)
           one == <<r.defaults>>
           two == Append(one, r.channelDefaults)
           direct == Append(two, r.dm)
           three == Append(two, r.workspace)
           four == Append(three, r.channel)
<1>0. /\ r.defaults \in level /\ r.channelDefaults \in level /\ r.dm \in level
      /\ r.workspace \in level /\ r.channel \in level
  <2> HIDE DEF level
  <2> QED
    BY DEF Routings, level
<1> HIDE DEF level
<1>1. LevelsOf(r, place) =
          IF ~r.configured THEN one
          ELSE IF place = "dm" THEN direct
          ELSE IF place = "other workspace" THEN two
          ELSE IF place = "other channel" THEN three
          ELSE four
  <2>1. CASE ~r.configured
    BY <2>1 DEF LevelsOf
  <2>2. CASE r.configured /\ place = "dm"
    BY <2>2 DEF LevelsOf
  <2>3. CASE r.configured /\ place = "other workspace"
    <3>1. LevelsOf(r, place) = one \o (<<r.channelDefaults>> \o <<>>)
      BY <2>3 DEF LevelsOf
    <3>2. one \o (<<r.channelDefaults>> \o <<>>) = two
      OBVIOUS
    <3> HIDE DEF one, two
    <3> QED
      BY <2>3, <3>1, <3>2
  <2>4. CASE r.configured /\ place = "other channel"
    <3>1. LevelsOf(r, place) = one \o (<<r.channelDefaults>> \o <<r.workspace>>)
      BY <2>4 DEF LevelsOf
    <3>2. one \o (<<r.channelDefaults>> \o <<r.workspace>>) = three
      OBVIOUS
    <3> HIDE DEF one, three
    <3> QED
      BY <2>4, <3>1, <3>2
  <2>5. CASE r.configured /\ place = "channel"
    BY <2>5 DEF LevelsOf
  <2> QED
    BY <2>1, <2>2, <2>3, <2>4, <2>5 DEF Places
<1>2. Decisive(r, place, field) = LastSaid(LevelsOf(r, place), field)
  BY DEF Decisive, LastSaid
<1>3. LastSaid(one, field) = r.defaults[field]
  <2> DEFINE none == <<>>
  <2>1. one = Append(none, r.defaults) /\ none \in Seq(level)
    OBVIOUS
  <2>2. LastSaid(none, field) = {}
    BY DEF LastSaid
  <2> HIDE DEF one, none
  <2>3. LastSaid(Append(none, r.defaults), field)
            = Over(LastSaid(none, field), r.defaults[field])
    BY <1>0, <2>1, LastSaidOfMore DEF Over
  <2> QED
    BY <2>1, <2>2, <2>3 DEF Over
<1>4. one \in Seq(level) /\ two \in Seq(level) /\ three \in Seq(level)
  BY <1>0
<1> HIDE DEF one
<1>5. LastSaid(two, field) = Over(r.defaults[field], r.channelDefaults[field])
  BY <1>0, <1>3, <1>4, LastSaidOfMore DEF Over
<1> HIDE DEF two
<1>6. LastSaid(direct, field) = Over(LastSaid(two, field), r.dm[field])
  BY <1>0, <1>4, LastSaidOfMore DEF Over
<1>7. LastSaid(three, field) = Over(LastSaid(two, field), r.workspace[field])
  BY <1>0, <1>4, LastSaidOfMore DEF Over
<1> HIDE DEF three
<1>8. LastSaid(four, field) = Over(LastSaid(three, field), r.channel[field])
  BY <1>0, <1>4, LastSaidOfMore DEF Over
<1> QED
  BY <1>1, <1>2, <1>3, <1>5, <1>6, <1>7, <1>8

(* What is sent where                                                       *)

(* The policy of a place has, in each of its parts, what the decisive level  *)
(* says of it (resolve, src/config/routing.rs:62-93).                        *)
LEMMA PolicyIsDecisive ==
    ASSUME NEW agents, NEW people, NEW r \in Routings(agents, people),
           NEW place \in Places
    PROVE  LET policy == Resolve(r, place)
           IN /\ policy.agent = OneOf(Decisive(r, place, "agent"), "default")
              /\ policy.allow = Decisive(r, place, "allow")
              /\ policy.requireMentions <=>
                     place # "dm" /\ OneOf(Decisive(r, place, "mentions"), FALSE)
<1> DEFINE kind == ApplyOverride(r.defaults, r.channelDefaults)
           work == ApplyOverride(kind, r.workspace)
           direct == ApplyOverride(kind, r.dm)
           chan == ApplyOverride(work, r.channel)
           effective == IF ~r.configured THEN r.defaults
                        ELSE IF place = "dm" THEN direct
                        ELSE IF place = "other workspace" THEN kind
                        ELSE IF place = "other channel" THEN work
                        ELSE chan
<1>1. DOMAIN r.defaults = Fields
  BY DEF Routings, Levels, Fields
<1>2. DOMAIN kind = Fields /\ DOMAIN work = Fields
  BY <1>1 DEF ApplyOverride
<1>3. \A field \in Fields :
          /\ kind[field] = Over(r.defaults[field], r.channelDefaults[field])
          /\ work[field] = Over(kind[field], r.workspace[field])
          /\ direct[field] = Over(kind[field], r.dm[field])
          /\ chan[field] = Over(work[field], r.channel[field])
  BY <1>1, <1>2 DEF ApplyOverride, Over
<1>4. Resolve(r, place) = FinalizePolicy(effective, place = "dm")
  BY DEF Resolve
<1> HIDE DEF kind, work, direct, chan
<1>5. \A field \in Fields : effective[field] = Decisive(r, place, field)
  <2> TAKE field \in Fields
  <2> DEFINE said == Over(r.defaults[field], r.channelDefaults[field])
             here == Over(said, r.workspace[field])
  <2>1. Decisive(r, place, field) =
            IF ~r.configured THEN r.defaults[field]
            ELSE IF place = "dm" THEN Over(said, r.dm[field])
            ELSE IF place = "other workspace" THEN said
            ELSE IF place = "other channel" THEN here
            ELSE Over(here, r.channel[field])
    BY ResolvedIsDecisive
  <2>2. /\ kind[field] = said /\ work[field] = here
        /\ direct[field] = Over(said, r.dm[field])
        /\ chan[field] = Over(here, r.channel[field])
    BY <1>3
  <2> HIDE DEF said, here
  <2> QED
    BY <2>1, <2>2
<1> HIDE DEF effective
<1>6. /\ effective["agent"] = Decisive(r, place, "agent")
      /\ effective["allow"] = Decisive(r, place, "allow")
      /\ effective["mentions"] = Decisive(r, place, "mentions")
  BY <1>5 DEF Fields
<1>7. FinalizePolicy(effective, place = "dm") =
          [agent |-> OneOf(Decisive(r, place, "agent"), "default"),
           allow |-> Decisive(r, place, "allow"),
           requireMentions |->
               place # "dm" /\ OneOf(Decisive(r, place, "mentions"), FALSE)]
  BY <1>6 DEF FinalizePolicy
<1> DEFINE needs == place # "dm" /\ OneOf(Decisive(r, place, "mentions"), FALSE)
<1>8. Resolve(r, place) = [agent |-> OneOf(Decisive(r, place, "agent"), "default"),
                           allow |-> Decisive(r, place, "allow"),
                           requireMentions |-> needs]
  BY <1>4, <1>7
<1> HIDE DEF needs
<1>9. /\ Resolve(r, place).agent = OneOf(Decisive(r, place, "agent"), "default")
      /\ Resolve(r, place).allow = Decisive(r, place, "allow")
      /\ Resolve(r, place).requireMentions = needs
  BY <1>8
<1> QED
  BY <1>9 DEF needs

(* What is decisive is one of the settings or nothing.                      *)
LEMMA DecisiveType ==
    ASSUME NEW agents, NEW people, NEW r \in Routings(agents, people),
           NEW place \in Places
    PROVE  /\ Decisive(r, place, "agent") \in Options(agents)
           /\ Decisive(r, place, "allow") \in Options(SUBSET people)
           /\ Decisive(r, place, "mentions") \in Options(BOOLEAN)
<1>1. \A level \in {r.defaults, r.channelDefaults, r.dm, r.workspace, r.channel} :
          /\ level["agent"] \in Options(agents)
          /\ level["allow"] \in Options(SUBSET people)
          /\ level["mentions"] \in Options(BOOLEAN)
  BY DEF Routings, Levels
<1>2. /\ "agent" \in Fields /\ "allow" \in Fields /\ "mentions" \in Fields
  BY DEF Fields
<1>3. ASSUME NEW field \in Fields, NEW S,
             r.defaults[field] \in S, r.channelDefaults[field] \in S,
             r.dm[field] \in S, r.workspace[field] \in S, r.channel[field] \in S
      PROVE  Decisive(r, place, field) \in S
  <2> DEFINE said == Over(r.defaults[field], r.channelDefaults[field])
             here == Over(said, r.workspace[field])
  <2>1. Decisive(r, place, field) =
            IF ~r.configured THEN r.defaults[field]
            ELSE IF place = "dm" THEN Over(said, r.dm[field])
            ELSE IF place = "other workspace" THEN said
            ELSE IF place = "other channel" THEN here
            ELSE Over(here, r.channel[field])
    BY <1>3, ResolvedIsDecisive
  <2>2. /\ said \in S /\ here \in S /\ Over(said, r.dm[field]) \in S
        /\ Over(here, r.channel[field]) \in S
    BY <1>3 DEF Over
  <2> HIDE DEF said, here
  <2> QED
    BY <1>3, <2>1, <2>2
<1> QED
  BY <1>1, <1>2, <1>3

(* For every table of settings over any agents and people, and for every     *)
(* message: it wakes the agent exactly when the decisive level allows its    *)
(* sender and it carries the mention that level asks for, it is dropped      *)
(* exactly when it is direct and not allowed, it joins the conversation of   *)
(* the decisive agent, and a command acts on that conversation or on none    *)
(* (resolve, classify_inbound, resolve_route, resolve_command_target).       *)
THEOREM RoutesFollowPolicy ==
    ASSUME NEW agents, NEW people, NEW r \in Routings(agents, people),
           NEW m \in Messages(people)
    PROVE  RouteIsRight(r, m, people)
<1> DEFINE agent == Decisive(r, m.place, "agent")
           allow == Decisive(r, m.place, "allow")
           mentions == Decisive(r, m.place, "mentions")
           policy == Resolve(r, m.place)
           allowed == \A list \in allow : m.user \in list
           needsMention == m.place # "dm" /\ mentions = {TRUE}
<1>1. m.place \in Places /\ m.user \in people /\ m.mentioned \in BOOLEAN
  BY DEF Messages
<1>2. /\ policy.agent = OneOf(agent, "default") /\ policy.allow = allow
      /\ policy.requireMentions <=> m.place # "dm" /\ OneOf(mentions, FALSE)
  BY <1>1, PolicyIsDecisive
<1>3. /\ agent \in Options(agents) /\ allow \in Options(SUBSET people)
      /\ mentions \in Options(BOOLEAN)
  BY <1>1, DecisiveType
<1>4. policy.requireMentions <=> needsMention
  BY <1>2, <1>3 DEF Options, OneOf
<1>5. \A x : x \in agent => policy.agent = x
  BY <1>2, <1>3 DEF Options, OneOf
<1>6. ASSUME NEW user PROVE AllowsUser(policy, user) <=> \A list \in allow : user \in list
  BY <1>2, <1>3 DEF Options, OneOf, AllowsUser
<1> DEFINE scope == BuildSessionScopeKey(policy.agent, m.place)
           Invokes(user, mentioned) == /\ \A list \in allow : user \in list
                                       /\ needsMention => mentioned
<1>7. scope # <<>> /\ scope[1] = policy.agent
  BY DEF BuildSessionScopeKey
<1>8. ASSUME NEW user, NEW mentioned \in BOOLEAN
      PROVE  ResolveRoute(r, [place |-> m.place, user |-> user, mentioned |-> mentioned])
             = IF Invokes(user, mentioned) THEN [scope |-> scope, invoke |-> TRUE]
               ELSE IF m.place = "dm" THEN NoRoute
               ELSE [scope |-> scope, invoke |-> FALSE]
  <2> DEFINE d == ClassifyInbound(r, [place |-> m.place, user |-> user,
                                      mentioned |-> mentioned])
  <2>1. d = [agent |-> policy.agent,
             verdict |-> IF Invokes(user, mentioned) THEN "invoke"
                         ELSE IF m.place = "dm" THEN "drop" ELSE "context"]
    <3> HIDE DEF agent, allow, mentions, needsMention, policy
    <3> QED
      BY <1>4, <1>6, <1>8 DEF ClassifyInbound, policy
  <2>2. ResolveRoute(r, [place |-> m.place, user |-> user, mentioned |-> mentioned])
        = IF d.verdict = "drop" THEN NoRoute
          ELSE [scope |-> BuildSessionScopeKey(d.agent, m.place),
                invoke |-> d.verdict = "invoke"]
    BY DEF ResolveRoute
  <2> HIDE DEF d, Invokes, policy
  <2> QED
    BY <2>1, <2>2
<1> HIDE DEF scope, agent, allow, mentions, policy
<1>9. m = [place |-> m.place, user |-> m.user, mentioned |-> m.mentioned]
  BY DEF Messages
<1> DEFINE route == ResolveRoute(r, m)
<1>10. /\ route.invoke <=> allowed /\ (needsMention => m.mentioned)
       /\ route = NoRoute <=> m.place = "dm" /\ ~allowed
       /\ route # NoRoute => route.scope = scope
  <2>1. route = IF Invokes(m.user, m.mentioned) THEN [scope |-> scope, invoke |-> TRUE]
                ELSE IF m.place = "dm" THEN NoRoute
                ELSE [scope |-> scope, invoke |-> FALSE]
    <3> HIDE DEF Invokes
    <3> QED
      BY <1>1, <1>8, <1>9
  <2>2. NoRoute.scope = <<>> /\ NoRoute.invoke = FALSE
    BY DEF NoRoute
  <2>3. Invokes(m.user, m.mentioned) <=> allowed /\ (needsMention => m.mentioned)
    OBVIOUS
  <2>4. m.place = "dm" => ~needsMention
    OBVIOUS
  <2> HIDE DEF route, Invokes, allowed, needsMention
  <2>5. CASE Invokes(m.user, m.mentioned)
    <3>1. route.scope = scope /\ route.invoke = TRUE
      BY <2>1, <2>5
    <3> QED
      BY <1>7, <2>2, <2>3, <2>5, <3>1
  <2>6. CASE ~Invokes(m.user, m.mentioned) /\ m.place = "dm"
    BY <2>1, <2>2, <2>3, <2>4, <2>6
  <2>7. CASE ~Invokes(m.user, m.mentioned) /\ m.place # "dm"
    <3>1. route.scope = scope /\ route.invoke = FALSE
      BY <2>1, <2>7
    <3> QED
      BY <1>7, <2>2, <2>3, <2>7, <3>1
  <2> QED
    BY <2>5, <2>6, <2>7
<1>11. ASSUME NEW user \in people
       PROVE  ResolveCommandTarget(r, [place |-> m.place, user |-> user])
                  \in {scope, <<>>}
  <2> DEFINE to == ResolveRoute(r, [place |-> m.place, user |-> user,
                                    mentioned |-> TRUE])
  <2>1. \/ to = [scope |-> scope, invoke |-> TRUE] \/ to = NoRoute
        \/ to = [scope |-> scope, invoke |-> FALSE]
    <3> HIDE DEF Invokes
    <3> QED
      BY <1>8
  <2>2. to.scope \in {scope, <<>>}
    <3> HIDE DEF to
    <3> QED
      BY <2>1 DEF NoRoute
  <2>3. ResolveCommandTarget(r, [place |-> m.place, user |-> user]) = to.scope
    BY DEF ResolveCommandTarget
  <2> QED
    BY <2>2, <2>3
<1> HIDE DEF route
<1>12. /\ route # NoRoute => \A x \in agent : route.scope[1] = x
       /\ \A user \in people :
             ResolveCommandTarget(r, [place |-> m.place, user |-> user])
                 \in {route.scope, <<>>} \/ route = NoRoute
  BY <1>5, <1>7, <1>10, <1>11
<1> QED
  BY <1>10, <1>12 DEF RouteIsRight, route, agent, allow, mentions

DiscordMessages(people) ==
    [bot : BOOLEAN, blank : BOOLEAN, listed : BOOLEAN, inText : BOOLEAN,
     place : Places, user : people]

(* Whatever the settings say, a message on Discord wakes the agent exactly    *)
(* when a person wrote something, may do so, and mentions the bot where that *)
(* is asked for, once the bot knows who it is (message of                    *)
(* src/channels/discord.rs, classify_inbound, resolve_route).                *)
THEOREM DiscordMessagesWakeRightly ==
    ASSUME NEW agents, NEW people, NEW r \in Routings(agents, people),
           NEW message \in DiscordMessages(people), NEW botKnown \in BOOLEAN
    PROVE  WakesRightly(r, message, botKnown)
<1> DEFINE mentioned == botKnown /\ (message.listed \/ message.inText)
           m == [place |-> message.place, user |-> message.user, mentioned |-> mentioned]
<1>1. DiscordMessage(message, botKnown) = IF message.bot \/ message.blank THEN {} ELSE {m}
  BY DEF DiscordMessage
<1>2. m \in Messages(people) /\ m.place = message.place /\ m.user = message.user
      /\ (m.mentioned <=> mentioned)
  BY DEF Messages, DiscordMessages
<1> HIDE DEF m, mentioned
<1>3. RouteIsRight(r, m, people)
  BY <1>2, RoutesFollowPolicy
<1>4. ResolveRoute(r, m).invoke <=>
          /\ \A list \in Decisive(r, m.place, "allow") : m.user \in list
          /\ m.place # "dm" /\ Decisive(r, m.place, "mentions") = {TRUE} => m.mentioned
  BY <1>3 DEF RouteIsRight
<1>5. CASE message.bot \/ message.blank
  BY <1>1, <1>5 DEF WakesRightly
<1>6. CASE ~(message.bot \/ message.blank)
  <2>1. (\E n \in DiscordMessage(message, botKnown) : ResolveRoute(r, n).invoke)
            <=> ResolveRoute(r, m).invoke
    BY <1>1, <1>6
  <2> QED
    BY <1>2, <1>4, <1>6, <2>1 DEF WakesRightly, mentioned
<1> QED
  BY <1>5, <1>6

-----------------------------------------------------------------------------
(* Commands                                                                 *)

Answers == {"none", "timed out", "failed", "not allowed here", "owners only", "done",
            "renewed", "stopped", "none found"}
Commands ==
    [phase : {"idle", "waiting", "answered", "shown", "lost"},
     kind : {"none", "new", "status", "stop", "tools"}, user : Users \cup {"none"},
     place : {"none", "dm", "channel"}, answer : Answers, count : Nat, did : BOOLEAN,
     found : SUBSET BackgroundRuns, spared : SUBSET BackgroundRuns]
Executions ==
    [stage : {"idle", "removing", "stopping"}, command : Interactions \cup {"none"},
     listed : SUBSET BackgroundRuns, killed : Nat]
CommandTypes ==
    /\ slash \in [Interactions -> Commands]
    /\ commandQueue \in Seq(Interactions)
    /\ executing \in Executions
    /\ sequence \in Nat
    /\ toolRuns \in [BackgroundRuns -> [kind : {"process", "delegated"}, session : Nat,
                                        status : {"none", "running", "ended"}]]

\* A command is in hand when it is queued or being executed: once, at one place.
Queued(c) == \E i \in DOMAIN commandQueue : commandQueue[i] = c
Executed(c) == executing.stage # "idle" /\ executing.command = c
HandledOnce ==
    /\ \A i, k \in DOMAIN commandQueue : commandQueue[i] = commandQueue[k] => i = k
    /\ \A c \in Interactions : Queued(c) => ~Executed(c) /\ ~slash[c].did
    /\ executing.stage # "idle" => executing.command \in Interactions

\* A command in hand was given, and answered only by its time running out.
InHandUnanswered ==
    \A c \in Interactions : Queued(c) \/ Executed(c) =>
        /\ slash[c].phase # "idle"
        /\ slash[c].phase = "waiting" \/ slash[c].answer = "timed out"

\* What the command task is in the middle of.
ExecutingRight ==
    \A c \in Interactions : Executed(c) =>
        /\ executing.stage = "removing" => slash[c].did
        /\ executing.stage = "stopping" => ~slash[c].did /\ slash[c].user \in Owners

CommandsInv ==
    /\ CommandTypes /\ HandledOnce /\ InHandUnanswered /\ ExecutingRight
    /\ CommandsAreAccountedFor

Done == {c \in Interactions : slash[c].did}

\* CommandsAreAccountedFor without the count.
DoneRight ==
    /\ \A c \in Done : slash[c].kind = "new" /\ slash[c].user \in Owners
    /\ \A c \in Interactions :
           /\ slash[c].answer = "renewed" => c \in Done
           /\ slash[c].answer \in {"stopped", "none found", "done"} =>
                  slash[c].user \in Owners
           /\ c \in Done =>
                  \/ slash[c].answer \in {"renewed", "timed out"}
                  \/ executing.stage = "removing" /\ executing.command = c

(* The two parts of the property.                                           *)
LEMMA AccountedParts ==
    CommandsAreAccountedFor <=> sequence = 1 + Cardinality(Done) /\ DoneRight
BY DEF CommandsAreAccountedFor, Done, DoneRight

(* A step that leaves every did alone leaves the count alone.               *)
LEMMA CountStays ==
    ASSUME CommandsInv, UNCHANGED sequence,
           \A c \in Interactions : slash'[c].did = slash[c].did
    PROVE  Done' = Done /\ sequence' = 1 + Cardinality(Done')
<1>1. Done' = Done
  BY DEF Done
<1> QED
  BY <1>1, AccountedParts DEF CommandsInv

(* The first of the queue leaves it.                                        *)
LEMMA FirstLeaves ==
    ASSUME CommandsInv, commandQueue # <<>>, commandQueue' = Tail(commandQueue),
           NEW c, c = Head(commandQueue)
    PROVE  /\ c \in Interactions /\ Queued(c) /\ ~Queued(c)'
           /\ \A d \in Interactions : Queued(d)' => Queued(d)
           /\ commandQueue' \in Seq(Interactions)
           /\ \A i, k \in DOMAIN commandQueue' :
                  commandQueue'[i] = commandQueue'[k] => i = k
<1> DEFINE q == commandQueue
           t == commandQueue'
<1>1. q \in Seq(Interactions)
  BY DEF CommandsInv, CommandTypes
<1>2. /\ Len(q) \in Nat \ {0} /\ DOMAIN q = 1..Len(q) /\ Head(q) = q[1]
      /\ q[1] \in Interactions
      /\ t \in Seq(Interactions) /\ DOMAIN t = 1..(Len(q) - 1)
      /\ \A i \in 1..(Len(q) - 1) : t[i] = q[i + 1]
  BY <1>1
<1>3. \A i, k \in DOMAIN q : q[i] = q[k] => i = k
  BY DEF CommandsInv, HandledOnce
<1> HIDE DEF q, t
<1>4. \A i \in DOMAIN t : i + 1 \in DOMAIN q /\ t[i] = q[i + 1] /\ i + 1 # 1
  BY <1>2
<1>5. 1 \in DOMAIN q
  BY <1>2
<1>6. \A i, k \in DOMAIN t : t[i] = t[k] => i = k
  <2>1. SUFFICES ASSUME NEW i \in DOMAIN t, NEW k \in DOMAIN t, t[i] = t[k] PROVE i = k
    OBVIOUS
  <2>2. i + 1 = k + 1
    BY <1>3, <1>4, <2>1
  <2> QED
    BY <1>2, <2>2
<1>7. ~\E i \in DOMAIN t : t[i] = q[1]
  BY <1>3, <1>4, <1>5
<1>8. \A d : (\E i \in DOMAIN t : t[i] = d) => \E i \in DOMAIN q : q[i] = d
  BY <1>4
<1>9. c = q[1] /\ Queued(c) /\ ~Queued(c)'
  BY <1>2, <1>5, <1>7 DEF Queued, q, t
<1>10. \A d \in Interactions : Queued(d)' => Queued(d)
  BY <1>8 DEF Queued, q, t
<1> QED
  BY <1>2, <1>6, <1>9, <1>10 DEF q, t

(* A command is answered.                                                   *)
LEMMA ResponseIs ==
    ASSUME CommandTypes, NEW c \in Interactions, NEW answer \in Answers, NEW count \in Nat
    PROVE  LET after == SendCommandResponse(slash, c, answer, count)
           IN /\ after \in [Interactions -> Commands]
              /\ \A d \in Interactions : d # c => after[d] = slash[d]
              /\ after[c].did = slash[c].did /\ after[c].kind = slash[c].kind
              /\ after[c].user = slash[c].user
              /\ after[c].found = slash[c].found /\ after[c].spared = slash[c].spared
              /\ after[c].answer = IF slash[c].phase = "waiting" THEN answer
                                   ELSE slash[c].answer
              /\ after[c].count = IF slash[c].phase = "waiting" THEN count
                                  ELSE slash[c].count
              /\ after[c].phase = IF slash[c].phase = "waiting" THEN "answered"
                                  ELSE slash[c].phase
<1> DEFINE after == SendCommandResponse(slash, c, answer, count)
<1>1. slash \in [Interactions -> Commands] /\ slash[c] \in Commands
  BY DEF CommandTypes
<1>2. CASE slash[c].phase # "waiting"
  BY <1>1, <1>2 DEF SendCommandResponse
<1>3. CASE slash[c].phase = "waiting"
  <2> DEFINE x == [slash[c] EXCEPT !.phase = "answered", !.answer = answer, !.count = count]
  <2>1. after = [slash EXCEPT ![c] = x]
    BY <1>1, <1>3 DEF SendCommandResponse
  <2>2. /\ x \in Commands /\ x.did = slash[c].did /\ x.kind = slash[c].kind
        /\ x.user = slash[c].user /\ x.answer = answer /\ x.phase = "answered"
        /\ x.found = slash[c].found /\ x.spared = slash[c].spared /\ x.count = count
    BY <1>1 DEF Commands
  <2> HIDE DEF x
  <2>3. after \in [Interactions -> Commands] /\ after[c] = x
        /\ \A d \in Interactions : d # c => after[d] = slash[d]
    BY <1>1, <2>1, <2>2
  <2> HIDE DEF after
  <2> QED
    BY <1>3, <2>2, <2>3 DEF after
<1> QED
  BY <1>2, <1>3

\* All that is so of one command, and of the queue.
CommandRight(c) ==
    /\ Queued(c) => ~Executed(c) /\ ~slash[c].did
    /\ Queued(c) \/ Executed(c) =>
           /\ slash[c].phase # "idle"
           /\ slash[c].phase = "waiting" \/ slash[c].answer = "timed out"
    /\ Executed(c) =>
           /\ executing.stage = "removing" => slash[c].did
           /\ executing.stage = "stopping" => ~slash[c].did /\ slash[c].user \in Owners
    /\ slash[c].did => slash[c].kind = "new" /\ slash[c].user \in Owners
    /\ slash[c].answer = "renewed" => slash[c].did
    /\ slash[c].answer \in {"stopped", "none found", "done"} => slash[c].user \in Owners
    /\ slash[c].did => \/ slash[c].answer \in {"renewed", "timed out"}
                       \/ Executed(c) /\ executing.stage = "removing"
NoRepeats ==
    \A i, k \in DOMAIN commandQueue : commandQueue[i] = commandQueue[k] => i = k

(* The invariant is shown command by command,                               *)
LEMMA CommandsInvFrom ==
    ASSUME CommandTypes', sequence' = 1 + Cardinality(Done'), NoRepeats',
           executing'.stage # "idle" => executing'.command \in Interactions,
           \A c \in Interactions : CommandRight(c)'
    PROVE  CommandsInv'
<1>1. HandledOnce'
  BY DEF HandledOnce, CommandRight, NoRepeats
<1>2. InHandUnanswered'
  BY DEF InHandUnanswered, CommandRight
<1>3. ExecutingRight'
  BY DEF ExecutingRight, CommandRight
<1>4. DoneRight'
  BY DEF DoneRight, Done, Executed, CommandRight
<1>5. CommandsAreAccountedFor'
  BY <1>4 DEF CommandsAreAccountedFor, DoneRight, Done
<1> QED
  BY <1>1, <1>2, <1>3, <1>5 DEF CommandsInv

(* and used command by command.                                             *)
LEMMA CommandsInvGives ==
    ASSUME CommandsInv
    PROVE  /\ CommandTypes /\ sequence = 1 + Cardinality(Done) /\ NoRepeats
           /\ executing.stage # "idle" => executing.command \in Interactions
           /\ \A c \in Interactions : CommandRight(c)
<1>1. CommandTypes /\ HandledOnce /\ InHandUnanswered /\ ExecutingRight
  BY DEF CommandsInv
<1>2. sequence = 1 + Cardinality(Done) /\ DoneRight
  BY AccountedParts DEF CommandsInv
<1>3. \A c \in Interactions :
         /\ slash[c].did => slash[c].kind = "new" /\ slash[c].user \in Owners
         /\ slash[c].answer = "renewed" => slash[c].did
         /\ slash[c].answer \in {"stopped", "none found", "done"} => slash[c].user \in Owners
         /\ slash[c].did => \/ slash[c].answer \in {"renewed", "timed out"}
                            \/ Executed(c) /\ executing.stage = "removing"
  BY <1>2 DEF DoneRight, Done, Executed
<1> QED
  BY <1>1, <1>2, <1>3 DEF HandledOnce, InHandUnanswered, ExecutingRight, NoRepeats,
     CommandRight

(* A command that was not given yet, and an idle command task.              *)
LEMMA NotGivenIs ==
    /\ NotGiven \in Commands /\ NotGiven.phase = "idle" /\ NotGiven.did = FALSE
    /\ NotGiven.answer = "none" /\ NotGiven.found = {} /\ NotGiven.spared = {}
<1> DEFINE no == FALSE
<1>1. no \in BOOLEAN
  OBVIOUS
<1>2. NotGiven = [phase |-> "idle", kind |-> "none", user |-> "none", place |-> "none",
                  answer |-> "none", count |-> 0, did |-> no,
                  found |-> {}, spared |-> {}]
  BY DEF NotGiven
<1> HIDE DEF no
<1>3. /\ NotGiven.did = no /\ NotGiven.phase = "idle" /\ NotGiven.answer = "none"
      /\ NotGiven.found = {} /\ NotGiven.spared = {}
  BY <1>2
<1>4. "none" \in Answers /\ 0 \in Nat /\ "none" \in Users \cup {"none"}
  BY DEF Answers
<1>5. NotGiven \in Commands
  BY <1>1, <1>2, <1>4 DEF Commands
<1> QED
  BY <1>3, <1>5 DEF no

(* The command task that does nothing.                                      *)
LEMMA IdleIs ==
    Idle \in Executions /\ Idle.stage = "idle"
BY DEF Idle, Executions

(* At first no command is in hand.                                          *)
LEMMA CommandsInitInv ==
    ASSUME CommandsInit PROVE CommandsInv
<1>1. NotGiven \in Commands /\ Idle \in Executions
  BY NotGivenIs, IdleIs
<1>2. CommandTypes
  BY <1>1 DEF CommandsInit, CommandTypes
<1>3. /\ \A c \in Interactions : ~Queued(c) /\ ~Executed(c) /\ slash[c] = NotGiven
      /\ DOMAIN commandQueue = {} /\ executing.stage = "idle"
  BY DEF CommandsInit, Queued, Executed, Idle
<1>4. HandledOnce /\ InHandUnanswered /\ ExecutingRight
  BY <1>3 DEF HandledOnce, InHandUnanswered, ExecutingRight
<1>5. Done = {}
  BY <1>3, NotGivenIs DEF Done
<1>6. sequence = 1 + Cardinality(Done)
  BY <1>5, FS_EmptySet DEF CommandsInit
<1>7. DoneRight
  BY <1>3, <1>5, NotGivenIs DEF DoneRight
<1> QED
  BY <1>2, <1>4, <1>6, <1>7, AccountedParts DEF CommandsInv

(* A command is given, and queued once the answer is deferred.               *)
LEMMA HandleSlashKeeps ==
    ASSUME CommandsInv, NEW c \in Interactions, HandleSlashCommand(c)
    PROVE  CommandsInv'
<1> DEFINE q == commandQueue
<1>1. PICK kind \in {"new", "status", "stop", "tools"}, user \in Users,
           place \in {"dm", "channel"}, deferred \in BOOLEAN :
           /\ slash' = [slash EXCEPT ![c] =
                  [NotGiven EXCEPT !.phase = IF deferred THEN "waiting" ELSE "lost",
                                   !.kind = kind, !.user = user, !.place = place]]
           /\ q' = IF deferred THEN Append(q, c) ELSE q
  BY DEF HandleSlashCommand
<1>2. /\ slash[c] = NotGiven /\ UNCHANGED <<executing, sequence, toolRuns>>
  BY DEF HandleSlashCommand
<1> DEFINE x == [NotGiven EXCEPT !.phase = IF deferred THEN "waiting" ELSE "lost",
                                 !.kind = kind, !.user = user, !.place = place]
<1>3. /\ x \in Commands /\ x.phase = IF deferred THEN "waiting" ELSE "lost"
      /\ x.did = FALSE /\ x.answer = "none"
  BY NotGivenIs DEF Commands
<1>4. /\ CommandTypes
      /\ slash \in [Interactions -> Commands] /\ q \in Seq(Interactions)
  BY DEF CommandsInv, CommandTypes
<1>5. slash' = [slash EXCEPT ![c] = x]
  BY <1>1
<1> HIDE DEF x
<1>6. /\ slash' \in [Interactions -> Commands] /\ slash'[c] = x
      /\ \A d \in Interactions : d # c => slash'[d] = slash[d]
  BY <1>3, <1>4, <1>5
<1>7. slash[c].phase = "idle" /\ slash[c].did = FALSE
  BY <1>2 DEF NotGiven
<1>8. ~Queued(c) /\ ~Executed(c) /\ ~Executed(c)'
  BY <1>2, <1>7, CommandsInvGives DEF Executed, CommandRight
<1>9. CommandTypes'
  BY <1>1, <1>2, <1>4, <1>6 DEF CommandTypes
<1>10. Done' = Done /\ sequence' = 1 + Cardinality(Done')
  BY <1>2, <1>3, <1>6, <1>7, CountStays
<1>11. /\ \A d \in Interactions : Queued(d)' => Queued(d) \/ (d = c /\ deferred)
       /\ \A i, k \in DOMAIN q' : q'[i] = q'[k] => i = k
  <2>1. \A i, k \in DOMAIN q : q[i] = q[k] => i = k
    BY CommandsInvGives DEF NoRepeats
  <2>2. CASE ~deferred
    <3>1. q' = q
      BY <1>1, <2>2
    <3> QED
      BY <2>1, <3>1 DEF Queued
  <2>3. CASE deferred
    <3>1. q' = Append(q, c)
      BY <1>1, <2>3
    <3>2. /\ Len(q) \in Nat /\ DOMAIN q = 1..Len(q)
          /\ DOMAIN q' = 1..(Len(q) + 1) /\ q'[Len(q) + 1] = c
          /\ \A i \in 1..Len(q) : q'[i] = q[i]
      BY <1>4, <3>1
    <3>3. \A i \in 1..Len(q) : q[i] # c
      BY <1>8, <3>2 DEF Queued
    <3>4. \A d \in Interactions : Queued(d)' => Queued(d) \/ d = c
      BY <3>2 DEF Queued
    <3> HIDE DEF q
    <3>5. \A i \in DOMAIN q' : i \in 1..Len(q) \/ i = Len(q) + 1
      BY <3>2
    <3>6. \A i, k \in DOMAIN q' : q'[i] = q'[k] => i = k
      BY <2>1, <3>2, <3>3, <3>5
    <3> QED
      BY <2>3, <3>4, <3>6
  <2> QED
    BY <2>2, <2>3
<1>12. ASSUME NEW d \in Interactions
       PROVE  /\ Executed(d)' => Executed(d) /\ executing' = executing
              /\ d # c => (Queued(d)' => Queued(d)) /\ slash'[d] = slash[d]
  BY <1>2, <1>6, <1>11 DEF Executed
<1>13. ASSUME NEW d \in Interactions PROVE CommandRight(d)'
  <2>1. CommandRight(d)
    BY CommandsInvGives
  <2>2. CASE d # c
    BY <1>2, <1>12, <2>1, <2>2 DEF CommandRight, Executed
  <2>3. CASE d = c
    BY <1>2, <1>3, <1>6, <1>8, <1>11, <2>3 DEF CommandRight
  <2> QED
    BY <2>2, <2>3
<1> QED
  BY <1>2, <1>9, <1>10, <1>11, <1>13, CommandsInvGives, CommandsInvFrom DEF NoRepeats

(* The ten seconds are over, or the answer is shown: one command changes.   *)
LEMMA ChannelStepKeeps ==
    ASSUME CommandsInv, NEW c \in Interactions, CommandTimesOut(c) \/ ShowAnswer(c)
    PROVE  CommandsInv'
<1>1. /\ slash \in [Interactions -> Commands] /\ slash[c] \in Commands /\ CommandTypes
      /\ UNCHANGED <<commandQueue, executing, sequence, toolRuns>>
  BY DEF CommandsInv, CommandTypes, CommandTimesOut, ShowAnswer
<1>2. PICK x \in Commands :
          /\ slash' = [slash EXCEPT ![c] = x]
          /\ x.did = slash[c].did /\ x.kind = slash[c].kind /\ x.user = slash[c].user
          /\ \/ slash[c].phase = "waiting" /\ x.phase = "answered" /\ x.answer = "timed out"
             \/ slash[c].phase = "answered" /\ x.phase \in {"shown", "lost"}
                /\ x.answer = slash[c].answer
  <2>1. CASE CommandTimesOut(c)
    <3> DEFINE x == [slash[c] EXCEPT !.phase = "answered", !.answer = "timed out"]
    <3>1. slash' = [slash EXCEPT ![c] = x]
      BY <1>1, <2>1 DEF CommandTimesOut
    <3>2. /\ x \in Commands /\ x.did = slash[c].did /\ x.kind = slash[c].kind
          /\ x.user = slash[c].user /\ x.phase = "answered" /\ x.answer = "timed out"
      BY <1>1 DEF Commands, Answers
    <3> QED
      BY <2>1, <3>1, <3>2 DEF CommandTimesOut
  <2>2. CASE ShowAnswer(c)
    <3>1. PICK phase \in {"shown", "lost"} : slash' = [slash EXCEPT ![c].phase = phase]
      BY <2>2 DEF ShowAnswer
    <3> DEFINE x == [slash[c] EXCEPT !.phase = phase]
    <3>2. slash' = [slash EXCEPT ![c] = x]
      BY <1>1, <3>1
    <3>3. /\ x \in Commands /\ x.did = slash[c].did /\ x.kind = slash[c].kind
          /\ x.user = slash[c].user /\ x.phase = phase /\ x.answer = slash[c].answer
      BY <1>1 DEF Commands
    <3> QED
      BY <2>2, <3>2, <3>3 DEF ShowAnswer
  <2> QED
    BY <2>1, <2>2
<1>3. /\ slash' \in [Interactions -> Commands] /\ slash'[c] = x
      /\ \A d \in Interactions : d # c => slash'[d] = slash[d]
  BY <1>1, <1>2
<1>4. CommandTypes'
  BY <1>1, <1>3 DEF CommandTypes
<1>5. Done' = Done /\ sequence' = 1 + Cardinality(Done')
  BY <1>1, <1>2, <1>3, CountStays
<1>6. \A d \in Interactions : (Queued(d)' <=> Queued(d)) /\ (Executed(d)' <=> Executed(d))
  BY <1>1 DEF Queued, Executed
<1>7. ASSUME NEW d \in Interactions PROVE CommandRight(d)'
  <2>1. CommandRight(d)
    BY CommandsInvGives
  <2>2. CASE d # c
    BY <1>1, <1>3, <1>6, <2>1, <2>2 DEF CommandRight
  <2>3. CASE d = c
    BY <1>1, <1>2, <1>3, <1>6, <2>1, <2>3 DEF CommandRight
  <2> QED
    BY <2>2, <2>3
<1> QED
  BY <1>1, <1>4, <1>5, <1>7, CommandsInvGives, CommandsInvFrom DEF NoRepeats

(* The command task answers the command it has in hand and is idle again.   *)
LEMMA AnswerKeeps ==
    ASSUME CommandsInv, NEW c \in Interactions, Queued(c) \/ Executed(c),
           CommandTypes', NoRepeats', ~Queued(c)',
           \A d \in Interactions : Queued(d)' => Queued(d),
           \A d \in Interactions : Executed(d) => d = c,
           NEW answer \in Answers, NEW count \in Nat,
           slash' = SendCommandResponse(slash, c, answer, count),
           executing' = Idle, UNCHANGED sequence,
           answer = "renewed" <=> slash[c].did, answer # "timed out",
           answer \in {"stopped", "none found", "done"} => slash[c].user \in Owners
    PROVE  CommandsInv'
<1>1. /\ slash' \in [Interactions -> Commands]
      /\ \A d \in Interactions : d # c => slash'[d] = slash[d]
      /\ slash'[c].did = slash[c].did /\ slash'[c].kind = slash[c].kind
      /\ slash'[c].user = slash[c].user
      /\ slash'[c].answer = IF slash[c].phase = "waiting" THEN answer ELSE slash[c].answer
  <2>1. CommandTypes
    BY CommandsInvGives
  <2> QED
    BY ZenonT(60), <2>1, ResponseIs
<1>2. Done' = Done /\ sequence' = 1 + Cardinality(Done')
  BY <1>1, CountStays
<1>3. executing'.stage = "idle" /\ \A d \in Interactions : ~Executed(d)'
  BY IdleIs DEF Executed
<1>4. ASSUME NEW d \in Interactions PROVE CommandRight(d)'
  <2>1. CommandRight(d)
    BY CommandsInvGives
  <2>2. CASE d # c
    BY <1>1, <1>3, <2>1, <2>2 DEF CommandRight
  <2>3. CASE d = c
    BY <1>1, <1>3, <2>1, <2>3 DEF CommandRight
  <2> QED
    BY <2>2, <2>3
<1> QED
  BY <1>2, <1>3, <1>4, CommandsInvFrom

(* One command is taken off the queue and answered, moves the conversation  *)
(* on, or begins to stop the runs.                                          *)
LEMMA ExecuteKeeps ==
    ASSUME CommandsInv, ExecuteCommand PROVE CommandsInv'
<1>0. executing = Idle /\ commandQueue # <<>> /\ commandQueue' = Tail(commandQueue)
  BY DEF ExecuteCommand
<1>1. PICK c : c = Head(commandQueue)
  OBVIOUS
<1>2. /\ c \in Interactions /\ Queued(c) /\ ~Queued(c)'
      /\ \A d \in Interactions : Queued(d)' => Queued(d)
      /\ commandQueue' \in Seq(Interactions) /\ NoRepeats'
  BY <1>0, <1>1, FirstLeaves DEF NoRepeats
<1>3. CommandTypes /\ CommandRight(c) /\ \A d \in Interactions : ~Executed(d)
  BY <1>0, <1>2, CommandsInvGives, IdleIs DEF Executed
<1>4. slash \in [Interactions -> Commands] /\ slash[c] \in Commands /\ sequence \in Nat
  BY <1>2, <1>3 DEF CommandTypes
<1>5. ~slash[c].did
  BY <1>2, <1>3 DEF CommandRight
<1>6. ASSUME NEW answer \in Answers \ {"renewed", "stopped", "none found", "timed out"},
             Respond(c, answer), answer = "done" => slash[c].user \in Owners
      PROVE  CommandsInv'
  <2>1. /\ slash' = SendCommandResponse(slash, c, answer, 0) /\ executing' = Idle
        /\ UNCHANGED <<sequence, toolRuns>>
    BY <1>6 DEF Respond
  <2>2. slash' \in [Interactions -> Commands]
    BY <1>2, <1>3, <2>1, ResponseIs
  <2>3. CommandTypes'
    BY <1>2, <1>3, <2>1, <2>2, IdleIs DEF CommandTypes
  <2> QED
    BY <1>2, <1>3, <1>5, <1>6, <2>1, <2>3, AnswerKeeps
<1>7. ASSUME NewSession(c), slash[c].kind = "new", slash[c].user \in Owners
      PROVE  CommandsInv'
  <2>1. CASE Respond(c, "failed")
    BY <1>6, <2>1 DEF Answers
  <2>2. CASE ~Respond(c, "failed")
    <3> DEFINE x == [slash[c] EXCEPT !.did = TRUE]
    <3>1. /\ sequence' = sequence + 1 /\ UNCHANGED toolRuns
          /\ slash' = [slash EXCEPT ![c].did = TRUE]
          /\ executing' = [Idle EXCEPT !.stage = "removing", !.command = c]
      BY <1>7, <2>2 DEF NewSession
    <3>2. slash' = [slash EXCEPT ![c] = x]
      BY <1>4, <3>1
    <3>3. /\ x \in Commands /\ x.did = TRUE /\ x.kind = slash[c].kind
          /\ x.user = slash[c].user /\ x.phase = slash[c].phase /\ x.answer = slash[c].answer
      BY <1>4 DEF Commands
    <3> HIDE DEF x
    <3>4. /\ slash' \in [Interactions -> Commands] /\ slash'[c] = x
          /\ \A d \in Interactions : d # c => slash'[d] = slash[d]
      BY <1>2, <1>4, <3>2, <3>3
    <3>5. /\ executing' \in Executions /\ executing'.stage = "removing"
          /\ executing'.command = c
      BY <1>2, <3>1, IdleIs DEF Executions
    <3>6. CommandTypes'
      BY <1>2, <1>3, <1>4, <3>1, <3>4, <3>5 DEF CommandTypes
    <3>7. sequence' = 1 + Cardinality(Done')
      <4>1. Done' = Done \cup {c} /\ c \notin Done
        BY <1>2, <1>5, <3>3, <3>4 DEF Done
      <4>2. Done \subseteq Interactions
        BY DEF Done
      <4>3. IsFiniteSet(Done)
        BY <4>2, CommandsAssumption, FS_Subset
      <4>4. Cardinality(Done') = Cardinality(Done) + 1 /\ Cardinality(Done) \in Nat
        BY <4>1, <4>3, FS_AddElement, FS_CardinalityType
      <4> QED
        BY <3>1, <4>4, CommandsInvGives
    <3>8. \A d \in Interactions : Executed(d)' <=> d = c
      BY <3>5 DEF Executed
    <3>9. ASSUME NEW d \in Interactions PROVE CommandRight(d)'
      <4>1. CommandRight(d)
        BY CommandsInvGives
      <4>2. CASE d # c
        BY <1>2, <1>3, <3>4, <3>8, <4>1, <4>2 DEF CommandRight
      <4>3. CASE d = c
        BY <1>2, <1>5, <1>7, <3>3, <3>4, <3>5, <3>8, <4>1, <4>3 DEF CommandRight
      <4> QED
        BY <4>2, <4>3
    <3> QED
      BY <1>2, <3>5, <3>6, <3>7, <3>9, CommandsInvFrom
  <2> QED
    BY <2>1, <2>2
<1>8. ASSUME StopCommand(c), slash[c].user \in Owners PROVE CommandsInv'
  <2> DEFINE x == [slash[c] EXCEPT !.found = RunningRuns]
  <2>1. /\ executing' = [Idle EXCEPT !.stage = "stopping", !.command = c,
                                     !.listed = RunningRuns]
        /\ slash' = [slash EXCEPT ![c] = x] /\ UNCHANGED <<sequence, toolRuns>>
    BY <1>4, <1>8 DEF StopCommand
  <2>a. RunningRuns \subseteq BackgroundRuns
    BY DEF RunningRuns
  <2>2. /\ executing' \in Executions /\ executing'.stage = "stopping"
        /\ executing'.command = c
    BY <1>2, <2>1, <2>a, IdleIs DEF Executions
  <2>b. /\ x \in Commands /\ x.did = slash[c].did /\ x.kind = slash[c].kind
        /\ x.user = slash[c].user /\ x.phase = slash[c].phase /\ x.answer = slash[c].answer
    BY <1>4, <2>a DEF Commands
  <2> HIDE DEF x
  <2>c. /\ slash' \in [Interactions -> Commands] /\ slash'[c] = x
        /\ \A d \in Interactions : d # c => slash'[d] = slash[d]
    BY <1>2, <1>4, <2>1, <2>b
  <2>3. CommandTypes'
    BY <1>2, <1>3, <2>1, <2>2, <2>c DEF CommandTypes
  <2>4. Done' = Done /\ sequence' = 1 + Cardinality(Done')
    BY <2>1, <2>b, <2>c, CountStays
  <2>5. \A d \in Interactions : Executed(d)' <=> d = c
    BY <2>2 DEF Executed
  <2>6. ASSUME NEW d \in Interactions PROVE CommandRight(d)'
    <3>1. CommandRight(d)
      BY CommandsInvGives
    <3>2. CASE d # c
      BY <1>2, <1>3, <2>5, <2>c, <3>1, <3>2 DEF CommandRight
    <3>3. CASE d = c
      BY <1>2, <1>3, <1>5, <1>8, <2>2, <2>5, <2>b, <2>c, <3>1, <3>3 DEF CommandRight
    <3> QED
      BY <3>2, <3>3
  <2> QED
    BY <1>2, <2>2, <2>3, <2>4, <2>6, CommandsInvFrom
<1> QED
  BY <1>1, <1>6, <1>7, <1>8 DEF ExecuteCommand, Answers

(* The command in hand ends, or a run of the conversation is killed, starts *)
(* or ends.                                                                 *)
LEMMA RestKeeps ==
    ASSUME CommandsInv,
           \/ FinishNewSession \/ FinishStop
           \/ \E r \in BackgroundRuns : KillForSession(r) \/ StartRun(r) \/ RunEnds(r)
    PROVE  CommandsInv'
<1>1. /\ CommandTypes /\ NoRepeats /\ \A c \in Interactions : CommandRight(c)
      /\ executing.stage # "idle" => executing.command \in Interactions
  BY CommandsInvGives
<1>2. PICK c : c = executing.command
  OBVIOUS
<1>3. ASSUME executing.stage # "idle"
      PROVE  /\ c \in Interactions /\ Executed(c) /\ ~Queued(c)
             /\ \A d \in Interactions : Executed(d) => d = c
             /\ executing.killed \in Nat
  BY <1>1, <1>2, <1>3 DEF Executed, CommandRight, CommandTypes, Executions
<1>4. CASE FinishNewSession
  <2>1. /\ executing.stage = "removing" /\ UNCHANGED <<commandQueue, sequence, toolRuns>>
        /\ slash' = SendCommandResponse(slash, c, "renewed", 0) /\ executing' = Idle
    BY <1>2, <1>4 DEF FinishNewSession, Respond
  <2>2. "renewed" \in Answers /\ 0 \in Nat
    BY DEF Answers
  <2>3. slash' \in [Interactions -> Commands]
    BY <1>1, <1>3, <2>1, <2>2, ResponseIs
  <2>4. CommandTypes' /\ NoRepeats' /\ \A d \in Interactions : Queued(d)' <=> Queued(d)
    BY <1>1, <2>1, <2>3, IdleIs DEF CommandTypes, NoRepeats, Queued
  <2>5. slash[c].did
    BY <1>1, <1>3, <2>1 DEF CommandRight
  <2> QED
    BY <1>3, <2>1, <2>2, <2>4, <2>5, AnswerKeeps
<1>5. CASE FinishStop
  <2>1. /\ executing.stage = "stopping" /\ UNCHANGED <<commandQueue, sequence, toolRuns>>
        /\ executing' = Idle
    BY <1>5 DEF FinishStop
  <2>2. PICK answer \in {"stopped", "none found"} :
            slash' = SendCommandResponse(slash, c, answer, executing.killed)
    BY <1>2, <1>5 DEF FinishStop
  <2>7. answer \in Answers
    BY DEF Answers
  <2>3. slash' \in [Interactions -> Commands]
    BY <1>1, <1>3, <2>1, <2>2, <2>7, ResponseIs
  <2>4. CommandTypes' /\ NoRepeats' /\ \A d \in Interactions : Queued(d)' <=> Queued(d)
    BY <1>1, <2>1, <2>3, IdleIs DEF CommandTypes, NoRepeats, Queued
  <2>5. ~slash[c].did /\ slash[c].user \in Owners
    BY <1>1, <1>3, <2>1 DEF CommandRight
  <2> DEFINE killed == executing.killed
  <2>6. killed \in Nat
    BY <1>3, <2>1
  <2> HIDE DEF killed
  <2> QED
    BY <1>3, <2>1, <2>2, <2>4, <2>5, <2>6, <2>7, AnswerKeeps DEF killed
<1>6. ASSUME NEW r \in BackgroundRuns, KillForSession(r) \/ StartRun(r) \/ RunEnds(r)
      PROVE  CommandsInv'
  <2>0. executing \in Executions /\ slash \in [Interactions -> Commands]
    BY <1>1 DEF CommandTypes
  <2>1. /\ UNCHANGED <<commandQueue, sequence>>
        /\ executing' \in Executions /\ executing'.stage = executing.stage
        /\ executing'.command = executing.command
        /\ slash' \in [Interactions -> Commands]
        /\ \A d \in Interactions :
               /\ slash'[d].did = slash[d].did /\ slash'[d].kind = slash[d].kind
               /\ slash'[d].user = slash[d].user /\ slash'[d].phase = slash[d].phase
               /\ slash'[d].answer = slash[d].answer
    <3>1. CASE KillForSession(r) /\ UNCHANGED slash
      <4>1. PICK n \in Nat : executing' = [executing EXCEPT !.listed = @ \ {r}, !.killed = n]
        <5>1. executing.killed \in Nat /\ executing.killed + 1 \in Nat
          BY <2>0 DEF Executions
        <5>2. \/ executing' = [executing EXCEPT !.listed = @ \ {r}, !.killed = executing.killed + 1]
              \/ executing' = [executing EXCEPT !.listed = @ \ {r},
                                                !.killed = executing.killed]
          BY <2>0, <3>1 DEF KillForSession, Executions
        <5> QED
          BY <5>1, <5>2
      <4>2. /\ executing' \in Executions /\ executing'.stage = executing.stage
            /\ executing'.command = executing.command
        BY <2>0, <4>1 DEF Executions
      <4> QED
        BY <2>0, <3>1, <4>2 DEF KillForSession
    <3>2. CASE KillForSession(r) /\ ~UNCHANGED slash
      <4> DEFINE x == [slash[c] EXCEPT !.spared = @ \cup {r}]
      <4>1. /\ executing' = [executing EXCEPT !.listed = @ \ {r}]
            /\ slash' = [slash EXCEPT ![c].spared = @ \cup {r}]
            /\ UNCHANGED <<commandQueue, sequence>>
        BY <1>2, <3>2 DEF KillForSession
      <4>2. /\ executing' \in Executions /\ executing'.stage = executing.stage
            /\ executing'.command = executing.command
        BY <2>0, <4>1 DEF Executions
      <4>3. c \in Interactions /\ slash[c] \in Commands
        BY <1>3, <2>0, <3>2 DEF KillForSession
      <4>4. slash' = [slash EXCEPT ![c] = x]
        BY <2>0, <4>1, <4>3
      <4>5. /\ x \in Commands /\ x.did = slash[c].did /\ x.kind = slash[c].kind
            /\ x.user = slash[c].user /\ x.phase = slash[c].phase /\ x.answer = slash[c].answer
        BY <4>3 DEF Commands
      <4> HIDE DEF x
      <4>6. /\ slash' \in [Interactions -> Commands] /\ slash'[c] = x
            /\ \A d \in Interactions : d # c => slash'[d] = slash[d]
        BY <2>0, <4>3, <4>4, <4>5
      <4> QED
        BY <4>1, <4>2, <4>5, <4>6
    <3>3. CASE StartRun(r) \/ RunEnds(r)
      BY <2>0, <3>3 DEF StartRun, RunEnds
    <3> QED
      BY <1>6, <3>1, <3>2, <3>3
  <2>2. CommandTypes' /\ NoRepeats'
    <3>1. toolRuns \in [BackgroundRuns -> [kind : {"process", "delegated"}, session : Nat,
                                           status : {"none", "running", "ended"}]]
      BY <1>1 DEF CommandTypes
    <3>2. toolRuns' \in [BackgroundRuns -> [kind : {"process", "delegated"}, session : Nat,
                                            status : {"none", "running", "ended"}]]
      <4>1. CASE UNCHANGED toolRuns
        BY <3>1, <4>1
      <4>2. CASE toolRuns' = [toolRuns EXCEPT ![r].status = "ended"]
        BY <3>1, <4>2
      <4>3. CASE StartRun(r)
        <5>1. sequence \in Nat
          BY <1>1 DEF CommandTypes
        <5> QED
          BY <3>1, <4>3, <5>1 DEF StartRun
      <4> QED
        BY <1>6, <4>1, <4>2, <4>3 DEF KillForSession, RunEnds
    <3> QED
      BY <1>1, <2>1, <3>2 DEF CommandTypes, NoRepeats
  <2>3. Done' = Done /\ sequence' = 1 + Cardinality(Done')
    BY <2>1, CountStays
  <2>4. ASSUME NEW d \in Interactions PROVE CommandRight(d)'
    <3>1. CommandRight(d) /\ (Queued(d)' <=> Queued(d)) /\ (Executed(d)' <=> Executed(d))
      BY <1>1, <2>1 DEF Queued, Executed
    <3> QED
      BY <2>1, <3>1 DEF CommandRight
  <2> QED
    BY <1>1, <2>1, <2>2, <2>3, <2>4, CommandsInvFrom
<1> QED
  BY <1>4, <1>5, <1>6

(* Every step of the commands keeps the invariant.                          *)
LEMMA CommandsStep ==
    ASSUME CommandsInv, [CommandsNext]_commandVars PROVE CommandsInv'
<1>1. CASE UNCHANGED commandVars
  <2>1. UNCHANGED <<slash, commandQueue, executing, sequence, toolRuns>>
    BY <1>1 DEF commandVars
  <2> QED
    BY ZenonT(60), <2>1 DEF CommandsInv, CommandTypes, HandledOnce, InHandUnanswered, ExecutingRight,
       Queued, Executed, CommandsAreAccountedFor
<1>2. CASE CommandsNext
  BY <1>2, HandleSlashKeeps, ChannelStepKeeps, ExecuteKeeps, RestKeeps DEF CommandsNext
<1> QED
  BY <1>1, <1>2

-----------------------------------------------------------------------------
(* What /stop counts                                                        *)

\* The runs that a command has stopped once those of left are left.
Stopped(c, left) == (slash[c].found \ left) \ slash[c].spared
\* Nothing is found that never ran; what counts as stopped has ended; and the
\* count is of these, on the way and in the answer.
StopRight(c) ==
    /\ \A r \in slash[c].found : toolRuns[r].status # "none"
    /\ slash[c].phase \in {"idle", "waiting"} => slash[c].answer = "none"
    /\ Queued(c) => slash[c].spared = {}
    /\ executing.stage = "stopping" /\ executing.command = c =>
           /\ executing.listed \subseteq slash[c].found
           /\ executing.listed \cap slash[c].spared = {}
           /\ executing.killed = Cardinality(Stopped(c, executing.listed))
           /\ \A r \in Stopped(c, executing.listed) : toolRuns[r].status = "ended"
    /\ slash[c].answer \in {"stopped", "none found"} =>
           /\ slash[c].count = Cardinality(Stopped(c, {}))
           /\ slash[c].answer = "none found" <=> Stopped(c, {}) = {}
           /\ \A r \in Stopped(c, {}) : toolRuns[r].status = "ended"
StopsInv == \A c \in Interactions : StopRight(c)

(* At first nothing was stopped.                                            *)
LEMMA StopsAtFirst == CommandsInit => StopsInv
<1> SUFFICES ASSUME CommandsInit, NEW c \in Interactions PROVE StopRight(c)
  BY DEF StopsInv
<1>1. slash[c] = NotGiven /\ executing.stage # "stopping"
  BY IdleIs DEF CommandsInit
<1>2. slash[c].found = {} /\ slash[c].spared = {} /\ slash[c].answer = "none"
  BY <1>1, NotGivenIs
<1> QED
  BY <1>1, <1>2 DEF StopRight

(* The invariant says what the property does.                               *)
LEMMA StopsInvImplies == StopsInv => StopsAreCounted
<1>1. \A c \in Interactions : Stopped(c, {}) = slash[c].found \ slash[c].spared
  BY DEF Stopped
<1> QED
  BY <1>1 DEF StopsInv, StopRight, StopsAreCounted

\* Runs begin and end, and do neither again.
RunsGoOn ==
    \A r \in BackgroundRuns :
        /\ toolRuns[r].status # "none" => toolRuns[r].status' # "none"
        /\ toolRuns[r].status = "ended" => toolRuns[r].status' = "ended"

(* A command that is not about to be stopped by the step stays right.       *)
LEMMA StopStays ==
    ASSUME CommandTypes, NEW d \in Interactions, StopRight(d), RunsGoOn,
           slash'[d].found = slash[d].found, slash'[d].spared = slash[d].spared,
           slash[d].spared = {} \/ (Queued(d)' => Queued(d)),
           slash'[d].phase \in {"idle", "waiting"} =>
               slash[d].phase \in {"idle", "waiting"} /\ slash'[d].answer = slash[d].answer,
           slash'[d].answer \in {"stopped", "none found"} =>
               slash'[d].answer = slash[d].answer /\ slash'[d].count = slash[d].count,
           executing'.stage = "stopping" /\ executing'.command = d => executing' = executing
    PROVE  StopRight(d)'
<1>1. slash[d].found \subseteq BackgroundRuns
  BY DEF CommandTypes, Commands
<1>2. /\ Stopped(d, {})' = Stopped(d, {})
      /\ executing' = executing => Stopped(d, executing.listed)' = Stopped(d, executing.listed)
  BY DEF Stopped
<1>3. Stopped(d, {}) \subseteq BackgroundRuns /\ Stopped(d, executing.listed) \subseteq BackgroundRuns
  BY <1>1 DEF Stopped
<1>4. \A r \in slash[d].found : toolRuns[r].status' # "none"
  BY <1>1 DEF StopRight, RunsGoOn
<1>5. /\ slash'[d].phase \in {"idle", "waiting"} => slash'[d].answer = "none"
      /\ Queued(d)' => slash'[d].spared = {}
  BY DEF StopRight
<1>6. ASSUME executing'.stage = "stopping", executing'.command = d
      PROVE  /\ executing'.listed \subseteq slash'[d].found
             /\ executing'.listed \cap slash'[d].spared = {}
             /\ executing'.killed = Cardinality(Stopped(d, executing.listed)')
             /\ \A r \in Stopped(d, executing.listed)' : toolRuns[r].status' = "ended"
  <2>1. executing' = executing
    BY <1>6
  <2>2. /\ executing.listed \subseteq slash[d].found
        /\ executing.listed \cap slash[d].spared = {}
        /\ executing.killed = Cardinality(Stopped(d, executing.listed))
        /\ \A r \in Stopped(d, executing.listed) : toolRuns[r].status = "ended"
    BY <1>6, <2>1 DEF StopRight
  <2> QED
    BY <1>2, <1>3, <2>1, <2>2 DEF RunsGoOn
<1>7. ASSUME slash'[d].answer \in {"stopped", "none found"}
      PROVE  /\ slash'[d].count = Cardinality(Stopped(d, {})')
             /\ slash'[d].answer = "none found" <=> Stopped(d, {})' = {}
             /\ \A r \in Stopped(d, {})' : toolRuns[r].status' = "ended"
  BY <1>2, <1>3, <1>7 DEF StopRight, RunsGoOn
<1> QED
  BY <1>4, <1>5, <1>6, <1>7 DEF StopRight

(* What the gateway answers to a command that is no /stop.                  *)
LEMMA AnsweredStaysRight ==
    ASSUME CommandTypes, StopsInv, NEW c \in Interactions, NEW answer \in Answers,
           answer \notin {"stopped", "none found"},
           slash' = SendCommandResponse(slash, c, answer, 0), executing' = Idle,
           UNCHANGED toolRuns, \A d \in Interactions : Queued(d)' => Queued(d)
    PROVE  StopsInv'
<1>1. SUFFICES ASSUME NEW d \in Interactions PROVE StopRight(d)'
  BY DEF StopsInv
<1>2. 0 \in Nat
  OBVIOUS
<1>3. /\ \A e \in Interactions : e # c => slash'[e] = slash[e]
      /\ slash'[c].found = slash[c].found /\ slash'[c].spared = slash[c].spared
      /\ slash'[c].answer = IF slash[c].phase = "waiting" THEN answer ELSE slash[c].answer
      /\ slash'[c].count = IF slash[c].phase = "waiting" THEN 0 ELSE slash[c].count
      /\ slash'[c].phase = IF slash[c].phase = "waiting" THEN "answered" ELSE slash[c].phase
  BY ZenonT(60), <1>2, ResponseIs
<1>4. executing'.stage # "stopping"
  BY IdleIs
<1>5. RunsGoOn /\ StopRight(d)
  BY DEF RunsGoOn, StopsInv
<1>6. CASE d = c
  <2>1. /\ slash'[d].phase \in {"idle", "waiting"} =>
               slash[d].phase \in {"idle", "waiting"} /\ slash'[d].answer = slash[d].answer
        /\ slash'[d].answer \in {"stopped", "none found"} =>
               slash'[d].answer = slash[d].answer /\ slash'[d].count = slash[d].count
    BY <1>3, <1>6
  <2> QED
    BY <1>3, <1>4, <1>5, <1>6, <2>1, StopStays
<1>7. CASE d # c
  BY <1>3, <1>4, <1>5, <1>7, StopStays
<1> QED
  BY <1>6, <1>7

(* One run is worked through.                                               *)
LEMMA KilledIsCounted ==
    ASSUME CommandsInv, StopsInv, NEW r \in BackgroundRuns, KillForSession(r)
    PROVE  StopsInv'
<1> DEFINE left == executing.listed \ {r}
<1>1. PICK c \in Interactions : c = executing.command
  BY CommandsInvGives DEF KillForSession
<1>2. /\ CommandTypes /\ StopRight(c) /\ executing \in Executions
      /\ slash \in [Interactions -> Commands] /\ slash[c] \in Commands
      /\ toolRuns \in [BackgroundRuns -> [kind : {"process", "delegated"}, session : Nat,
                                          status : {"none", "running", "ended"}]]
  BY CommandsInvGives DEF StopsInv, CommandTypes
<1>a. /\ \A d \in Interactions : Queued(d)' <=> Queued(d)
      /\ ~Queued(c)
  <2>1. UNCHANGED commandQueue /\ Executed(c) /\ CommandRight(c)
    BY <1>1, CommandsInvGives DEF KillForSession, Executed
  <2> QED
    BY <2>1 DEF Queued, CommandRight
<1>3. executing.stage = "stopping" /\ r \in executing.listed
  BY DEF KillForSession
<1>4. /\ executing.listed \subseteq slash[c].found /\ executing.listed \cap slash[c].spared = {}
      /\ executing.killed = Cardinality(Stopped(c, executing.listed))
      /\ \A q \in Stopped(c, executing.listed) : toolRuns[q].status = "ended"
      /\ slash[c].found \subseteq BackgroundRuns
  BY <1>1, <1>2, <1>3 DEF StopRight, Commands
<1>5. RunsGoOn
  <2>1. UNCHANGED toolRuns \/ toolRuns' = [toolRuns EXCEPT ![r].status = "ended"]
    BY DEF KillForSession
  <2> QED
    BY <1>2, <2>1 DEF RunsGoOn
<1>6. /\ executing'.stage = "stopping" /\ executing'.command = c /\ executing'.listed = left
      /\ \A d \in Interactions : d # c => slash'[d] = slash[d]
      /\ slash'[c].found = slash[c].found /\ slash'[c].answer = slash[c].answer
      /\ slash'[c].count = slash[c].count /\ slash'[c].phase = slash[c].phase
      /\ \/ /\ slash'[c].spared = slash[c].spared /\ executing'.killed = executing.killed + 1
            /\ toolRuns'[r].status = "ended"
         \/ /\ slash'[c].spared = slash[c].spared \cup {r}
            /\ executing'.killed = executing.killed
  <2>1. CASE /\ executing' = [executing EXCEPT !.listed = @ \ {r}, !.killed = @ + 1]
             /\ toolRuns' = [toolRuns EXCEPT ![r].status = "ended"] /\ UNCHANGED slash
    <3>1. toolRuns'[r].status = "ended"
      BY <1>2, <2>1
    <3>2. /\ executing'.stage = executing.stage /\ executing'.command = executing.command
          /\ executing'.listed = left /\ executing'.killed = executing.killed + 1
      BY <1>2, <2>1 DEF Executions
    <3> QED
      BY <1>1, <1>3, <2>1, <3>1, <3>2
  <2>2. CASE /\ executing' = [executing EXCEPT !.listed = @ \ {r}]
             /\ slash' = [slash EXCEPT ![c].spared = @ \cup {r}]
    <3>1. /\ executing'.stage = executing.stage /\ executing'.command = executing.command
          /\ executing'.listed = left /\ executing'.killed = executing.killed
      BY <1>2, <2>2 DEF Executions
    <3> DEFINE x == [slash[c] EXCEPT !.spared = @ \cup {r}]
    <3>2. slash' = [slash EXCEPT ![c] = x]
      BY <1>2, <2>2
    <3>3. /\ x.found = slash[c].found /\ x.answer = slash[c].answer
          /\ x.count = slash[c].count /\ x.phase = slash[c].phase
          /\ x.spared = slash[c].spared \cup {r}
      BY <1>2 DEF Commands
    <3> HIDE DEF x
    <3>4. slash'[c] = x /\ \A d \in Interactions : d # c => slash'[d] = slash[d]
      BY <1>2, <3>2
    <3> QED
      BY <1>1, <1>3, <3>1, <3>3, <3>4
  <2> QED
    BY <1>1, <2>1, <2>2 DEF KillForSession
<1>7. slash[c].answer \notin {"stopped", "none found"}
  <2>1. CommandRight(c) /\ Executed(c)
    BY <1>1, <1>3, CommandsInvGives DEF Executed
  <2> QED
    BY <1>2, <2>1 DEF CommandRight, StopRight
<1>8. ASSUME NEW d \in Interactions, d # c PROVE StopRight(d)'
  BY <1>2, <1>5, <1>6, <1>8, <1>a, StopStays DEF StopsInv
<1>9. StopRight(c)'
  <2> DEFINE stopped == Stopped(c, executing.listed)
  <2>1. Stopped(c, executing.listed)' = (slash'[c].found \ left) \ slash'[c].spared
    BY <1>6 DEF Stopped
  <2>2. stopped = (slash[c].found \ executing.listed) \ slash[c].spared
    BY DEF Stopped
  <2>3. r \in slash[c].found /\ r \notin slash[c].spared /\ r \notin stopped
        /\ stopped \subseteq BackgroundRuns
    BY <1>3, <1>4, <2>2
  <2>4. IsFiniteSet(stopped)
    BY <2>3, CommandsAssumption, FS_Subset
  <2>5. Cardinality(stopped \cup {r}) = Cardinality(stopped) + 1
    BY <2>3, <2>4, FS_AddElement
  <2>6. /\ executing'.killed = Cardinality(Stopped(c, executing.listed)')
        /\ \A q \in Stopped(c, executing.listed)' : toolRuns'[q].status = "ended"
    <3>1. CASE /\ slash'[c].spared = slash[c].spared /\ toolRuns'[r].status = "ended"
               /\ executing'.killed = executing.killed + 1
      <4>1. Stopped(c, executing.listed)' = stopped \cup {r}
        BY <1>6, <2>1, <2>2, <2>3, <3>1
      <4> HIDE DEF stopped
      <4>2. \A q \in stopped : toolRuns'[q].status = "ended"
        BY <1>4, <1>5, <2>3 DEF RunsGoOn, stopped
      <4>3. \A q \in stopped \cup {r} : toolRuns'[q].status = "ended"
        BY <3>1, <4>2
      <4>4. executing.killed = Cardinality(stopped)
        BY <1>4 DEF stopped
      <4> QED
        BY <2>5, <3>1, <4>1, <4>3, <4>4
    <3>2. CASE /\ slash'[c].spared = slash[c].spared \cup {r}
               /\ executing'.killed = executing.killed
      <4>1. Stopped(c, executing.listed)' = stopped
        <5>1. /\ Stopped(c, executing.listed)' = (slash[c].found \ left) \ (slash[c].spared \cup {r})
              /\ r \in executing.listed
          BY <1>3, <1>6, <2>1, <3>2
        <5> HIDE DEF stopped
        <5>2. (slash[c].found \ left) \ (slash[c].spared \cup {r})
                  = (slash[c].found \ executing.listed) \ slash[c].spared
          BY <5>1
        <5> QED
          BY <2>2, <5>1, <5>2
      <4>2. /\ executing.killed = Cardinality(stopped)
            /\ \A q \in stopped : toolRuns[q].status = "ended"
        BY <1>4
      <4> HIDE DEF stopped
      <4>3. \A q \in stopped : toolRuns'[q].status = "ended"
        BY <1>5, <2>3, <4>2 DEF RunsGoOn
      <4> QED
        BY <3>2, <4>1, <4>2, <4>3
    <3> QED
      BY <1>6, <3>1, <3>2
  <2>7. /\ \A q \in slash'[c].found : toolRuns'[q].status # "none"
        /\ slash'[c].phase \in {"idle", "waiting"} => slash'[c].answer = "none"
    BY <1>2, <1>4, <1>5, <1>6 DEF StopRight, RunsGoOn
  <2>8. /\ executing'.listed \subseteq slash'[c].found
        /\ executing'.listed \cap slash'[c].spared = {}
    BY <1>4, <1>6
  <2> QED
    BY <1>6, <1>7, <1>a, <2>6, <2>7, <2>8 DEF StopRight
<1> QED
  BY <1>8, <1>9 DEF StopsInv

(* Stopping begins with nothing stopped yet,                                *)
LEMMA StopBegins ==
    ASSUME CommandsInv, StopsInv, NEW c \in Interactions, Queued(c), StopCommand(c),
           ~Queued(c)', \A d \in Interactions : Queued(d)' => Queued(d)
    PROVE  StopsInv'
<1>1. /\ CommandTypes /\ StopRight(c) /\ slash \in [Interactions -> Commands]
      /\ slash[c] \in Commands
  BY CommandsInvGives DEF StopsInv, CommandTypes
<1>2. /\ executing'.stage = "stopping" /\ executing'.command = c
      /\ executing'.listed = RunningRuns /\ executing'.killed = 0 /\ UNCHANGED toolRuns
      /\ slash' = [slash EXCEPT ![c].found = RunningRuns]
  BY DEF StopCommand, Idle
<1>3. /\ \A d \in Interactions : d # c => slash'[d] = slash[d]
      /\ slash'[c].found = RunningRuns /\ slash'[c].spared = slash[c].spared
      /\ slash'[c].answer = slash[c].answer /\ slash'[c].phase = slash[c].phase
  BY <1>1, <1>2 DEF Commands
<1>4. slash[c].answer \notin {"stopped", "none found"} /\ slash[c].spared = {}
  BY <1>1, CommandsInvGives DEF CommandRight, StopRight
<1>5. RunsGoOn
  BY <1>2 DEF RunsGoOn
<1>6. ASSUME NEW d \in Interactions, d # c PROVE StopRight(d)'
  BY <1>1, <1>2, <1>3, <1>5, <1>6, StopStays DEF StopsInv
<1>7. StopRight(c)'
  <2>1. Stopped(c, executing.listed)' = {}
    BY <1>2, <1>3 DEF Stopped
  <2>2. \A r \in RunningRuns : toolRuns[r].status # "none"
    BY DEF RunningRuns
  <2>3. slash'[c].phase \in {"idle", "waiting"} => slash'[c].answer = "none"
    BY <1>1, <1>3 DEF StopRight
  <2>4. Cardinality({}) = 0
    BY FS_EmptySet
  <2> QED
    BY <1>2, <1>3, <1>4, <2>1, <2>2, <2>3, <2>4 DEF StopRight
<1> QED
  BY <1>6, <1>7 DEF StopsInv

(* and ends with the count of those that are.                               *)
LEMMA StopEnds ==
    ASSUME CommandsInv, StopsInv, FinishStop PROVE StopsInv'
<1>1. PICK c \in Interactions : c = executing.command
  BY CommandsInvGives DEF FinishStop
<1>2. /\ CommandTypes /\ StopRight(c) /\ executing.stage = "stopping" /\ executing.listed = {}
      /\ executing.killed \in Nat /\ executing' = Idle /\ UNCHANGED toolRuns
  BY CommandsInvGives DEF StopsInv, FinishStop, CommandTypes, Executions
<1>3. PICK answer, count :
          /\ answer = IF executing.killed = 0 THEN "none found" ELSE "stopped"
          /\ count = executing.killed /\ answer \in Answers /\ count \in Nat
  BY <1>2 DEF Answers
<1>4. slash' = SendCommandResponse(slash, c, answer, count)
  BY <1>1, <1>3 DEF FinishStop
<1>5. /\ \A d \in Interactions : d # c => slash'[d] = slash[d]
      /\ slash'[c].found = slash[c].found /\ slash'[c].spared = slash[c].spared
      /\ slash'[c].answer = IF slash[c].phase = "waiting" THEN answer ELSE slash[c].answer
      /\ slash'[c].count = IF slash[c].phase = "waiting" THEN count ELSE slash[c].count
      /\ slash'[c].phase = IF slash[c].phase = "waiting" THEN "answered" ELSE slash[c].phase
  BY ZenonT(60), <1>2, <1>3, <1>4, ResponseIs
<1>6. executing'.stage # "stopping" /\ RunsGoOn
  BY <1>2, IdleIs DEF RunsGoOn
<1>a. \A d \in Interactions : Queued(d)' <=> Queued(d)
  BY DEF FinishStop, Queued
<1>7. ASSUME NEW d \in Interactions, d # c PROVE StopRight(d)'
  BY <1>2, <1>5, <1>6, <1>7, <1>a, StopStays DEF StopsInv
<1>8. StopRight(c)'
  <2>1. CASE slash[c].phase # "waiting"
    BY <1>2, <1>5, <1>6, <1>a, <2>1, StopStays
  <2>2. CASE slash[c].phase = "waiting"
    <3>1. Stopped(c, {})' = Stopped(c, {})
      BY <1>5 DEF Stopped
    <3>2. /\ executing.killed = Cardinality(Stopped(c, {}))
          /\ \A r \in Stopped(c, {}) : toolRuns[r].status = "ended"
          /\ \A r \in slash[c].found : toolRuns[r].status # "none"
      BY <1>1, <1>2 DEF StopRight
    <3>3. IsFiniteSet(Stopped(c, {}))
      <4>1. Stopped(c, {}) \subseteq BackgroundRuns
        BY <1>2 DEF Stopped, CommandTypes, Commands
      <4> QED
        BY <4>1, CommandsAssumption, FS_Subset
    <3>4. Cardinality(Stopped(c, {})) = 0 <=> Stopped(c, {}) = {}
      BY <3>3, FS_EmptySet
    <3>5. answer = "none found" <=> Stopped(c, {}) = {}
      BY <1>3, <3>2, <3>4
    <3>6. Queued(c)' => slash'[c].spared = {}
      BY <1>2, <1>5, <1>a DEF StopRight
    <3> QED
      BY <1>2, <1>3, <1>5, <1>6, <2>2, <3>1, <3>2, <3>5, <3>6 DEF StopRight
  <2> QED
    BY <2>1, <2>2
<1> QED
  BY <1>7, <1>8 DEF StopsInv

(* A command that is taken off the queue.                                   *)
LEMMA TakenStaysRight ==
    ASSUME CommandsInv, StopsInv, ExecuteCommand PROVE StopsInv'
<1>1. PICK c : c = Head(commandQueue)
  OBVIOUS
<1>2. /\ c \in Interactions /\ Queued(c) /\ CommandTypes
      /\ ~Queued(c)' /\ \A d \in Interactions : Queued(d)' => Queued(d)
  BY <1>1, CommandsInvGives, FirstLeaves DEF ExecuteCommand
<1>3. ASSUME NEW answer \in Answers, answer \notin {"stopped", "none found"}, Respond(c, answer)
      PROVE  StopsInv'
  BY <1>2, <1>3, AnsweredStaysRight DEF Respond
<1>4. ASSUME NewSession(c) PROVE StopsInv'
  <2>1. CASE Respond(c, "failed")
    BY <1>3, <2>1 DEF Answers
  <2>2. CASE ~Respond(c, "failed")
    <3>1. slash \in [Interactions -> Commands] /\ slash[c] \in Commands
      BY <1>2 DEF CommandTypes
    <3>2. /\ slash' = [slash EXCEPT ![c].did = TRUE] /\ UNCHANGED toolRuns
          /\ executing'.stage = "removing"
      BY <1>4, <2>2 DEF NewSession, Idle
    <3>3. \A d \in Interactions :
             /\ slash'[d].found = slash[d].found /\ slash'[d].spared = slash[d].spared
             /\ slash'[d].answer = slash[d].answer /\ slash'[d].count = slash[d].count
             /\ slash'[d].phase = slash[d].phase
      BY <3>1, <3>2 DEF Commands
    <3>4. RunsGoOn
      BY <3>2 DEF RunsGoOn
    <3>5. ASSUME NEW d \in Interactions PROVE StopRight(d)'
      BY <1>2, <3>2, <3>3, <3>4, StopStays DEF StopsInv
    <3> QED
      BY <3>5 DEF StopsInv
  <2> QED
    BY <2>1, <2>2
<1>5. StopCommand(c) => StopsInv'
  BY <1>2, StopBegins
<1> QED
  BY <1>1, <1>3, <1>4, <1>5 DEF ExecuteCommand, Answers

(* Every step counts what /stop stops.                                      *)
LEMMA StopsStep ==
    ASSUME CommandsInv, StopsInv, [CommandsNext]_commandVars PROVE StopsInv'
<1>1. /\ CommandTypes /\ slash \in [Interactions -> Commands]
      /\ toolRuns \in [BackgroundRuns -> [kind : {"process", "delegated"}, session : Nat,
                                          status : {"none", "running", "ended"}]]
  BY CommandsInvGives DEF CommandTypes
<1>a. UNCHANGED commandQueue => \A d \in Interactions : Queued(d)' <=> Queued(d)
  BY DEF Queued
<1>2. ASSUME NEW c \in Interactions, HandleSlashCommand(c) PROVE StopsInv'
  <2>1. slash[c] = NotGiven /\ UNCHANGED <<executing, toolRuns>>
    BY <1>2 DEF HandleSlashCommand
  <2>2. \E x : /\ slash' = [slash EXCEPT ![c] = x] /\ x.found = {} /\ x.spared = {}
               /\ x.answer = "none"
    <3> DEFINE q == commandQueue
    <3>1. PICK kind \in {"new", "status", "stop", "tools"}, user \in Users,
               place \in {"dm", "channel"}, deferred \in BOOLEAN :
           /\ slash' = [slash EXCEPT ![c] =
                  [NotGiven EXCEPT !.phase = IF deferred THEN "waiting" ELSE "lost",
                                   !.kind = kind, !.user = user, !.place = place]]
           /\ q' = IF deferred THEN Append(q, c) ELSE q
      BY <1>2 DEF HandleSlashCommand
    <3> DEFINE x == [NotGiven EXCEPT !.phase = IF deferred THEN "waiting" ELSE "lost",
                                     !.kind = kind, !.user = user, !.place = place]
    <3>2. x.found = {} /\ x.spared = {} /\ x.answer = "none"
      BY NotGivenIs DEF Commands
    <3> HIDE DEF x
    <3> QED
      BY <3>1, <3>2 DEF x
  <2>3. /\ slash'[c].found = {} /\ slash'[c].spared = {} /\ slash'[c].answer = "none"
        /\ \A d \in Interactions : d # c => slash'[d] = slash[d]
    BY <1>1, <2>2
  <2>4. /\ slash[c].found = {} /\ slash[c].spared = {} /\ slash[c].answer = "none"
        /\ slash[c].phase = "idle" /\ RunsGoOn
    BY <2>1, NotGivenIs DEF RunsGoOn
  <2>5. StopRight(c)'
    <3>1. slash'[c].phase \in {"idle", "waiting"} =>
              slash[c].phase \in {"idle", "waiting"} /\ slash'[c].answer = slash[c].answer
      BY <2>3, <2>4
    <3>2. slash'[c].answer \notin {"stopped", "none found"}
      BY <2>3
    <3> QED
      BY <1>1, <2>1, <2>3, <2>4, <3>1, <3>2, StopStays DEF StopsInv
  <2>7. ASSUME NEW d \in Interactions, d # c PROVE Queued(d)' => Queued(d)
    <3>1. commandQueue' = commandQueue \/ commandQueue' = Append(commandQueue, c)
      BY <1>2 DEF HandleSlashCommand
    <3>2. commandQueue \in Seq(Interactions)
      BY <1>1 DEF CommandTypes
    <3> QED
      BY <2>7, <3>1, <3>2 DEF Queued
  <2>6. ASSUME NEW d \in Interactions, d # c PROVE StopRight(d)'
    BY <1>1, <2>1, <2>3, <2>4, <2>6, <2>7, StopStays DEF StopsInv
  <2> QED
    BY <2>5, <2>6 DEF StopsInv
<1>3. ASSUME NEW c \in Interactions, CommandTimesOut(c) \/ ShowAnswer(c) PROVE StopsInv'
  <2>1. UNCHANGED <<executing, toolRuns, commandQueue>> /\ slash[c] \in Commands
    BY <1>1, <1>3 DEF CommandTimesOut, ShowAnswer
  <2>2. /\ \A d \in Interactions : d # c => slash'[d] = slash[d]
        /\ slash'[c].found = slash[c].found /\ slash'[c].spared = slash[c].spared
        /\ slash'[c].phase \in {"answered", "shown", "lost"}
        /\ slash'[c].count = slash[c].count
        /\ slash'[c].answer = slash[c].answer \/ slash'[c].answer = "timed out"
    <3>1. CASE CommandTimesOut(c)
      <4> DEFINE x == [slash[c] EXCEPT !.phase = "answered", !.answer = "timed out"]
      <4>1. slash' = [slash EXCEPT ![c] = x]
        BY <1>1, <3>1 DEF CommandTimesOut
      <4>2. /\ x.found = slash[c].found /\ x.spared = slash[c].spared
            /\ x.phase = "answered" /\ x.count = slash[c].count /\ x.answer = "timed out"
        BY <2>1 DEF Commands
      <4> HIDE DEF x
      <4> QED
        BY <1>1, <4>1, <4>2
    <3>2. CASE ShowAnswer(c)
      <4>1. PICK phase \in {"shown", "lost"} : slash' = [slash EXCEPT ![c].phase = phase]
        BY <3>2 DEF ShowAnswer
      <4> DEFINE x == [slash[c] EXCEPT !.phase = phase]
      <4>2. slash' = [slash EXCEPT ![c] = x]
        BY <1>1, <4>1
      <4>3. /\ x.found = slash[c].found /\ x.spared = slash[c].spared
            /\ x.phase = phase /\ x.count = slash[c].count /\ x.answer = slash[c].answer
        BY <2>1 DEF Commands
      <4> HIDE DEF x
      <4> QED
        BY <1>1, <4>1, <4>2, <4>3
    <3> QED
      BY <1>3, <3>1, <3>2
  <2>3. RunsGoOn
    BY <2>1 DEF RunsGoOn
  <2>4. ASSUME NEW d \in Interactions PROVE StopRight(d)'
    <3>1. CASE d # c
      BY <1>1, <1>a, <2>1, <2>2, <2>3, <3>1, StopStays DEF StopsInv
    <3>2. CASE d = c
      BY <1>1, <1>a, <2>1, <2>2, <2>3, <3>2, StopStays DEF StopsInv
    <3> QED
      BY <3>1, <3>2
  <2> QED
    BY <2>4 DEF StopsInv
<1>4. ASSUME FinishNewSession PROVE StopsInv'
  <2>1. PICK c \in Interactions : c = executing.command
    BY <1>4, CommandsInvGives DEF FinishNewSession
  <2>2. /\ slash' = SendCommandResponse(slash, c, "renewed", 0) /\ executing' = Idle
        /\ UNCHANGED <<toolRuns, commandQueue>>
    BY <1>4, <2>1 DEF FinishNewSession, Respond
  <2> QED
    BY <1>1, <1>a, <2>2, AnsweredStaysRight DEF Answers
<1>5. ASSUME NEW r \in BackgroundRuns, StartRun(r) \/ RunEnds(r) PROVE StopsInv'
  <2>1. RunsGoOn /\ UNCHANGED <<slash, executing, commandQueue>>
    BY <1>1, <1>5 DEF RunsGoOn, StartRun, RunEnds
  <2>2. ASSUME NEW d \in Interactions PROVE StopRight(d)'
    BY <1>1, <1>a, <2>1, StopStays DEF StopsInv
  <2> QED
    BY <2>2 DEF StopsInv
<1>6. ASSUME UNCHANGED commandVars PROVE StopsInv'
  <2>1. RunsGoOn /\ UNCHANGED <<slash, executing, commandQueue>>
    BY <1>6 DEF RunsGoOn, commandVars
  <2>2. ASSUME NEW d \in Interactions PROVE StopRight(d)'
    BY <1>1, <1>a, <2>1, StopStays DEF StopsInv
  <2> QED
    BY <2>2 DEF StopsInv
<1> QED
  BY <1>2, <1>3, <1>4, <1>5, <1>6, TakenStaysRight, StopEnds, KilledIsCounted DEF CommandsNext

-----------------------------------------------------------------------------
(* The inbound side                                                         *)

\* A question about a message is about settings and messages the theorems cover.
RouteAsked ==
    question.topic = "route" =>
        /\ question.input.routing \in Routings({"a", "b"}, Users)
        /\ question.input.inbound \in Messages(Users)
DiscordAsked ==
    question.topic = "discord" =>
        /\ question.input.message \in DiscordMessages(Users)
        /\ question.input.botKnown \in BOOLEAN
        /\ question.input.routing \in Routings({"a", "b"}, Users)

(* One level of a table is set.                                             *)
LEMMA LevelIsSet ==
    ASSUME NEW agents, NEW people, NEW r \in Routings(agents, people),
           NEW i \in 1..5, NEW level \in Levels(agents, people)
    PROVE  [r EXCEPT ![LevelNames[i]] = level] \in Routings(agents, people)
<1> DEFINE L == Levels(agents, people)
<1> HIDE DEF L
<1>1. CASE i = 1
  BY <1>1 DEF LevelNames, Routings, L
<1>2. CASE i = 2
  BY <1>2 DEF LevelNames, Routings, L
<1>3. CASE i = 3
  BY <1>3 DEF LevelNames, Routings, L
<1>4. CASE i = 4
  BY <1>4 DEF LevelNames, Routings, L
<1>5. CASE i = 5
  BY <1>5 DEF LevelNames, Routings, L
<1> QED
  BY <1>1, <1>2, <1>3, <1>4, <1>5

(* A table that says nothing, and what the questions set in it.              *)
LEMMA EmptyIsRouting ==
    /\ EmptyRouting \in Routings({"a", "b"}, Users)
    /\ Settings \subseteq Levels({"a", "b"}, Users)
<1> DEFINE L == Levels({"a", "b"}, Users)
<1>1. Unset \in L
  BY DEF Unset, Levels, Options
<1>2. Settings \subseteq L
  BY DEF Settings, Unset, Levels, Options, Users
<1> HIDE DEF L
<1>3. EmptyRouting \in Routings({"a", "b"}, Users)
  <2> DEFINE yes == TRUE
  <2>1. yes \in BOOLEAN
    OBVIOUS
  <2>2. EmptyRouting = [configured |-> yes, defaults |-> Unset, channelDefaults |-> Unset,
                        dm |-> Unset, workspace |-> Unset, channel |-> Unset]
    BY DEF EmptyRouting
  <2> HIDE DEF yes
  <2> QED
    BY <1>1, <2>1, <2>2 DEF Routings, L
<1> QED
  BY <1>2, <1>3 DEF L

(* The questions asked about a route are about tables of settings.          *)
LEMMA RouteQuestions ==
    ASSUME AskRoute
    PROVE  RouteAsked' /\ question'.topic = "route"
<1> DEFINE A == {"a", "b"}
           L == Levels(A, Users)
           R == Routings(A, Users)
<1>1. PICK i, k \in 1..5, one, two \in Settings, configured \in BOOLEAN,
           place \in Places, user \in Users, mentioned \in BOOLEAN :
        /\ i < k /\ (k > 2 => configured)
        /\ Put("route",
               [routing |-> [EmptyRouting EXCEPT ![LevelNames[i]] = one,
                                                 ![LevelNames[k]] = two,
                                                 !.configured = configured],
                inbound |-> [place |-> place, user |-> user, mentioned |-> mentioned]])
  BY DEF AskRoute
<1> DEFINE r1 == [EmptyRouting EXCEPT ![LevelNames[i]] = one]
           r2 == [r1 EXCEPT ![LevelNames[k]] = two]
           r3 == [r2 EXCEPT !.configured = configured]
           m == [place |-> place, user |-> user, mentioned |-> mentioned]
<1>3. Settings \subseteq L
  BY EmptyIsRouting
<1> HIDE DEF L
<1>4. EmptyRouting \in R
  BY EmptyIsRouting
<1>5. r1 \in R
  BY <1>3, <1>4, LevelIsSet DEF L
<1>6. r2 \in R
  <2> HIDE DEF r1
  <2> QED
    BY <1>3, <1>5, LevelIsSet DEF L
<1>7. r3 \in R
  <2> HIDE DEF r2
  <2> QED
    BY <1>6 DEF Routings
<1>8. m \in Messages(Users)
  BY DEF Messages
<1>9. question' = [topic |-> "route", input |-> [routing |-> r3, inbound |-> m]]
  BY <1>1 DEF Put
<1> HIDE DEF r3, m, R
<1>10. /\ question'.topic = "route" /\ question'.input.routing = r3
       /\ question'.input.inbound = m
  BY <1>9
<1> QED
  BY <1>7, <1>8, <1>10 DEF RouteAsked, R

(* The questions asked about Discord are about messages and settings.        *)
LEMMA DiscordQuestions ==
    ASSUME AskDiscord
    PROVE  DiscordAsked' /\ question'.topic = "discord"
<1> DEFINE limits == {[Unset EXCEPT !.allow = {{"ann"}}], [Unset EXCEPT !.mentions = {TRUE}]}
<1>1. PICK bot, blank, listed, inText, botKnown \in BOOLEAN, place \in {"dm", "channel"},
           user \in Users, i \in 1..5, level \in limits :
        Put("discord", [message |-> [bot |-> bot, blank |-> blank, listed |-> listed,
                                     inText |-> inText, place |-> place, user |-> user],
                        botKnown |-> botKnown,
                        routing |-> [EmptyRouting EXCEPT ![LevelNames[i]] = level]])
  BY DEF AskDiscord
<1> DEFINE message == [bot |-> bot, blank |-> blank, listed |-> listed,
                       inText |-> inText, place |-> place, user |-> user]
           routing == [EmptyRouting EXCEPT ![LevelNames[i]] = level]
<1>2. routing \in Routings({"a", "b"}, Users)
  <2>1. level \in Settings
    BY DEF Settings
  <2> QED
    BY <2>1, EmptyIsRouting, LevelIsSet
<1>3. message \in DiscordMessages(Users)
  BY DEF DiscordMessages, Places
<1>4. question' = [topic |-> "discord",
                   input |-> [message |-> message, botKnown |-> botKnown,
                              routing |-> routing]]
  BY <1>1 DEF Put
<1> HIDE DEF message, routing
<1>5. /\ question'.topic = "discord" /\ question'.input.message = message
      /\ question'.input.botKnown = botKnown /\ question'.input.routing = routing
  BY <1>4
<1> QED
  BY <1>2, <1>3, <1>5 DEF DiscordAsked

InboundInv == CommandsInv /\ StopsInv /\ RouteAsked /\ DiscordAsked

(* The invariant is enough.                                                 *)
LEMMA InboundInvImplies ==
    ASSUME InboundInv PROVE InboundIsGoverned
<1>1. RouteFollowsPolicy
  BY RoutesFollowPolicy DEF InboundInv, RouteAsked, RouteFollowsPolicy, Asked
<1>2. DiscordWakesRightly
  BY DiscordMessagesWakeRightly DEF InboundInv, DiscordAsked, DiscordWakesRightly, Asked
<1> QED
  BY <1>1, <1>2, StopsInvImplies DEF InboundInv, CommandsInv, InboundIsGoverned

(* Every message goes where the most specific setting says, every session of *)
(* the conversation was asked for by one /new of an owner, and a /stop        *)
(* answers with the number of runs it found and that have stopped: for any    *)
(* number of commands, of runs and of sessions (resolve, classify_inbound,    *)
(* execute_command, stop_command_response, handle_slash_command).             *)
THEOREM InboundGoverned == InboundSpec => []InboundIsGoverned
<1>1. CommandsInit /\ QuestionInit => InboundInv
  <2> SUFFICES ASSUME CommandsInit, QuestionInit PROVE InboundInv
    OBVIOUS
  <2>1. question.topic = "none"
    BY DEF QuestionInit, NoQuestion
  <2> QED
    BY <2>1, CommandsInitInv, StopsAtFirst DEF InboundInv, RouteAsked, DiscordAsked
<1>2. InboundInv /\ [InboundNext]_<<commandVars, question>> => InboundInv'
  <2> SUFFICES ASSUME InboundInv, [InboundNext]_<<commandVars, question>>
               PROVE  InboundInv'
    OBVIOUS
  <2>1. CASE CommandsNext /\ UNCHANGED question
    BY <2>1, CommandsStep, StopsStep DEF InboundInv, RouteAsked, DiscordAsked
  <2>2. CASE (AskRoute \/ AskDiscord) /\ UNCHANGED commandVars
    <3>1. CommandsInv' /\ StopsInv'
      BY <2>2, CommandsStep, StopsStep DEF InboundInv
    <3>2. CASE AskRoute
      BY <3>1, <3>2, RouteQuestions DEF InboundInv, DiscordAsked
    <3>3. CASE AskDiscord
      BY <3>1, <3>3, DiscordQuestions DEF InboundInv, RouteAsked
    <3> QED
      BY <2>2, <3>2, <3>3
  <2>3. CASE UNCHANGED <<commandVars, question>>
    BY <2>3, CommandsStep, StopsStep DEF InboundInv, RouteAsked, DiscordAsked
  <2> QED
    BY <2>1, <2>2, <2>3 DEF InboundNext
<1>3. InboundInv => InboundIsGoverned
  BY InboundInvImplies
<1> QED
  BY <1>1, <1>2, <1>3, PTL DEF InboundSpec

-----------------------------------------------------------------------------
(* Paths                                                                    *)

(* One component more or less is still a path.                              *)
LEMMA PushComponentIs ==
    ASSUME NEW S, NEW done \in Seq(S), NEW part
    PROVE  /\ part \in S => PushComponent(done, part) \in Seq(S)
           /\ part \notin {".", ".."} => PushComponent(done, part) = Append(done, part)
           /\ part = "." => PushComponent(done, part) = done
           /\ part = ".." => /\ PushComponent(done, part) \in Seq(S)
                             /\ done = <<>> => PushComponent(done, part) = done
                             /\ done # <<>> => PushComponent(done, part) = Front(done)
<1>1. done # <<>> => Front(done) \in Seq(S)
  BY DEF Front
<1>2. CASE part = "."
  BY <1>2 DEF PushComponent
<1>3. CASE part = ".."
  BY <1>1, <1>3 DEF PushComponent
<1>4. CASE part \notin {".", ".."}
  <2>1. PushComponent(done, part) = Append(done, part)
    BY <1>4 DEF PushComponent
  <2> QED
    BY <1>4, <2>1
<1> QED
  BY <1>2, <1>3, <1>4

(* The normalization goes through the components one by one.                *)
LEMMA NormalizeRun ==
    ASSUME NEW S, NEW path \in Seq(S)
    PROVE  \E g : /\ g[0] = <<>>
                  /\ \A k \in 1..Len(path) : g[k] = PushComponent(g[k - 1], path[k])
                  /\ NormalizeAbsolutePath(path) = g[Len(path)]
<1> DEFINE n == Len(path)
           V == Seq(S)
           empty == <<>>
           step == [p \in V \X (1..n) |-> PushComponent(p[1], path[p[2]])]
           F(f) == [s \in SUBSET DOMAIN path |->
                       IF s = {} THEN empty ELSE PushComponent(f[s \ {Max(s)}], path[Max(s)])]
           d == CHOOSE f : f = F(f)
<1>1. n \in Nat /\ DOMAIN path = 1..n /\ empty \in V /\ \A i \in 1..n : path[i] \in S
  OBVIOUS
<1>2. \A p \in V \X (1..n) : PushComponent(p[1], path[p[2]]) \in V
  BY <1>1, PushComponentIs
<1>3. step \in [V \X (1..n) -> V]
  BY <1>2
<1>4. PICK h \in [SUBSET (1..n) -> V] : IsFold(h, n, empty, step)
  <2> HIDE DEF n, V, step, empty
  <2> QED
    BY <1>1, <1>3, FoldExists
<1>5. h = F(h)
  <2>1. ASSUME NEW s \in SUBSET (1..n), s # {}
        PROVE  step[<<h[s \ {Max(s)}], Max(s)>>] = PushComponent(h[s \ {Max(s)}], path[Max(s)])
    <3>1. Max(s) \in 1..n /\ s \ {Max(s)} \in SUBSET (1..n)
      BY <1>1, <2>1, MaxOfSome
    <3>2. h[s \ {Max(s)}] \in V
      BY <1>4, <3>1
    <3> QED
      BY <3>1, <3>2
  <2>2. h = [s \in SUBSET (1..n) |->
               IF s = {} THEN empty ELSE step[<<h[s \ {Max(s)}], Max(s)>>]]
    BY <1>4 DEF IsFold
  <2> HIDE DEF n, V, step, empty
  <2> QED
    BY <1>1, <2>1, <2>2
<1>6. d = F(d)
  <2> HIDE DEF F
  <2> QED
    BY <1>5
<1>7. NormalizeAbsolutePath(path) = d[DOMAIN path]
  BY DEF NormalizeAbsolutePath, FoldLeft, MapThenFoldSet
<1> HIDE DEF d, step, V, n, empty
<1> DEFINE g == [k \in 0..n |-> d[1..k]]
<1>8. d[1..0] = empty
  <2>1. 1..0 = {} /\ (1..0) \in SUBSET DOMAIN path
    OBVIOUS
  <2> QED
    BY <1>6, <2>1
<1>9. ASSUME NEW k \in 1..n PROVE d[1..k] = PushComponent(d[1..(k - 1)], path[k])
  <2>1. Max(1..k) = k /\ (1..k) \ {k} = 1..(k - 1) /\ 1..k # {}
    <3>1. k \in Nat /\ k # 0
      BY <1>1
    <3> QED
      BY <3>1, MaxOfAll
  <2>2. (1..k) \in SUBSET DOMAIN path
    BY <1>1
  <2> QED
    BY <1>6, <2>1, <2>2
<1>10. /\ g[0] = empty /\ g[n] = d[DOMAIN path]
       /\ \A k \in 1..n : g[k] = PushComponent(g[k - 1], path[k])
  BY <1>1, <1>8, <1>9
<1> HIDE DEF g
<1> QED
  BY <1>7, <1>10 DEF n, empty

Names(S) == S \ {".", ".."}

(* What is left has neither kind of dots,                                   *)
LEMMA NormalizeIsClean ==
    ASSUME NEW S, NEW path \in Seq(S)
    PROVE  NormalizeAbsolutePath(path) \in Seq(Names(S))
<1> DEFINE n == Len(path)
<1>1. PICK g : /\ g[0] = <<>>
               /\ \A k \in 1..n : g[k] = PushComponent(g[k - 1], path[k])
               /\ NormalizeAbsolutePath(path) = g[n]
  BY NormalizeRun
<1>2. n \in Nat /\ \A i \in 1..n : path[i] \in S
  OBVIOUS
<1> HIDE DEF n
<1> DEFINE P == {k \in 0..n : g[k] \in Seq(Names(S))}
<1>3. 0 \in P
  <2>1. 0 \in 0..n /\ <<>> \in Seq(Names(S))
    BY <1>2
  <2> QED
    BY <1>1, <2>1
<1>4. ASSUME NEW k \in 0..(n - 1), k \in P PROVE k + 1 \in P
  <2>1. k + 1 \in 1..n /\ (k + 1) - 1 = k
    BY <1>2
  <2>2. g[k + 1] = PushComponent(g[k], path[k + 1]) /\ path[k + 1] \in S
    BY <1>1, <1>2, <2>1
  <2>3. g[k] \in Seq(Names(S))
    BY <1>4
  <2>4. path[k + 1] \in Names(S) \/ path[k + 1] \in {".", ".."}
    BY <2>2 DEF Names
  <2>5. PushComponent(g[k], path[k + 1]) \in Seq(Names(S))
    BY <2>3, <2>4, PushComponentIs
  <2> QED
    BY <2>1, <2>2, <2>5
<1>5. \A k \in 0..n : k \in P
  <2> HIDE DEF P
  <2> QED
    BY <1>2, <1>3, <1>4, UpTo
<1>6. n \in P
  BY <1>2, <1>5
<1> QED
  BY <1>1, <1>6

(* and a path without dots stays as it is.                                  *)
LEMMA NormalizeKeeps ==
    ASSUME NEW S, NEW path \in Seq(Names(S))
    PROVE  NormalizeAbsolutePath(path) = path
<1> DEFINE n == Len(path)
<1>1. PICK g : /\ g[0] = <<>>
               /\ \A k \in 1..n : g[k] = PushComponent(g[k - 1], path[k])
               /\ NormalizeAbsolutePath(path) = g[n]
  BY NormalizeRun
<1>2. /\ n \in Nat /\ SubSeq(path, 1, n) = path /\ SubSeq(path, 1, 0) = <<>>
      /\ \A k \in 0..n : SubSeq(path, 1, k) \in Seq(Names(S))
      /\ \A k \in 0..(n - 1) : SubSeq(path, 1, k + 1) = Append(SubSeq(path, 1, k), path[k + 1])
      /\ \A i \in 1..n : path[i] \in Names(S)
  OBVIOUS
<1> HIDE DEF n
<1> DEFINE P == {k \in 0..n : g[k] = SubSeq(path, 1, k)}
<1>3. 0 \in P
  <2>1. 0 \in 0..n /\ g[0] = SubSeq(path, 1, 0)
    BY <1>1, <1>2
  <2> QED
    BY <2>1
<1>4. ASSUME NEW k \in 0..(n - 1), k \in P PROVE k + 1 \in P
  <2>1. k + 1 \in 1..n /\ (k + 1) - 1 = k /\ k \in 0..n
    BY <1>2
  <2>2. g[k + 1] = PushComponent(g[k], path[k + 1]) /\ path[k + 1] \notin {".", ".."}
    BY <1>1, <1>2, <2>1 DEF Names
  <2>3. g[k] \in Seq(Names(S)) /\ g[k] = SubSeq(path, 1, k)
    BY <1>2, <1>4, <2>1
  <2>4. PushComponent(g[k], path[k + 1]) = Append(g[k], path[k + 1])
    BY ZenonT(60), <2>2, <2>3, PushComponentIs
  <2>5. g[k + 1] = SubSeq(path, 1, k + 1) /\ k + 1 \in 0..n
    <3>1. SubSeq(path, 1, k + 1) = Append(SubSeq(path, 1, k), path[k + 1])
      BY <1>2
    <3>2. g[k + 1] = Append(SubSeq(path, 1, k), path[k + 1])
      BY <2>2, <2>3, <2>4, Zenon
    <3>3. k + 1 \in 0..n
      BY <1>2, <2>1
    <3> QED
      BY <3>1, <3>2, <3>3, Zenon
  <2> QED
    BY <2>5
<1>5. \A k \in 0..n : k \in P
  <2> HIDE DEF P
  <2> QED
    BY <1>2, <1>3, <1>4, UpTo
<1>6. n \in P
  BY <1>2, <1>5
<1> QED
  BY <1>1, <1>2, <1>6

(* A path below a root is the root and what is relative to it.              *)
LEMMA RootAndRest ==
    ASSUME NEW S, NEW path \in Seq(S), NEW root \in Seq(S), Below(path, root)
    PROVE  /\ Relative(path, root) \in Seq(S)
           /\ root \o Relative(path, root) = path
<1> DEFINE r == Len(root)
           n == Len(path)
           rest == Relative(path, root)
           whole == root \o rest
<1>1. /\ r \in Nat /\ n \in Nat /\ r <= n
      /\ SubSeq(root, 1, r) = SubSeq(path, 1, r)
  BY DEF Below, IsPrefix
<1>2. \A i \in 1..r : root[i] = path[i]
  <2>1. SUFFICES ASSUME NEW i \in 1..r PROVE root[i] = path[i]
    OBVIOUS
  <2>2. SubSeq(root, 1, r)[i] = root[i] /\ SubSeq(path, 1, r)[i] = path[i]
    BY <1>1
  <2> QED
    BY <1>1, <2>2
<1>3. /\ rest \in Seq(S) /\ Len(rest) = n - r
      /\ \A i \in 1..(n - r) : rest[i] = path[r + i]
  BY <1>1 DEF Relative
<1>4. /\ whole \in Seq(S) /\ Len(whole) = n
      /\ \A i \in 1..r : whole[i] = root[i]
      /\ \A i \in (r + 1)..n : whole[i] = rest[i - r]
  <2> HIDE DEF rest
  <2> QED
    BY <1>1, <1>3
<1>5. \A i \in 1..n : whole[i] = path[i]
  <2>1. SUFFICES ASSUME NEW i \in 1..n PROVE whole[i] = path[i]
    OBVIOUS
  <2> HIDE DEF rest, whole, r, n
  <2>2. CASE i <= r
    BY <1>1, <1>2, <1>4, <2>2
  <2>3. CASE i > r
    <3>1. i - r \in 1..(n - r) /\ i \in (r + 1)..n /\ r + (i - r) = i
      BY <1>1, <2>3
    <3> QED
      BY <1>3, <1>4, <3>1
  <2> QED
    BY <1>1, <2>2, <2>3
<1>6. whole = path
  <2> HIDE DEF whole, rest
  <2> QED
    BY <1>4, <1>5, SeqEqual
<1> QED
  BY <1>3, <1>6

(* A path put below a mount is below it, with the same rest,                *)
LEMMA BelowMount ==
    ASSUME NEW S, NEW mount \in Seq(S), NEW rest \in Seq(S)
    PROVE  /\ Below(mount \o rest, mount) /\ Relative(mount \o rest, mount) = rest
           /\ mount \o rest \in Seq(S)
<1> DEFINE m == Len(mount)
           n == Len(rest)
           path == mount \o rest
           back == Relative(path, mount)
<1>1. /\ m \in Nat /\ n \in Nat /\ path \in Seq(S) /\ Len(path) = m + n
      /\ \A i \in 1..m : path[i] = mount[i]
      /\ \A i \in 1..n : path[m + i] = rest[i]
  OBVIOUS
<1> HIDE DEF path
<1>2. back \in Seq(S) /\ Len(back) = n /\ \A i \in 1..n : back[i] = rest[i]
  BY <1>1 DEF Relative
<1>3. back = rest
  <2> HIDE DEF back
  <2> QED
    BY <1>2, SeqEqual
<1>4. SubSeq(mount, 1, m) = SubSeq(path, 1, m)
  BY <1>1
<1>5. Below(path, mount)
  BY <1>1, <1>4 DEF Below, IsPrefix
<1> QED
  BY <1>1, <1>3, <1>5 DEF path

(* and not below a mount of another name.                                   *)
LEMMA OtherMount ==
    ASSUME NEW S, NEW mount \in Seq(S), NEW rest \in Seq(S), NEW other \in Seq(S),
           mount # <<>>, other # <<>>, mount[1] # other[1]
    PROVE  ~Below(mount \o rest, other)
<1> DEFINE path == mount \o rest
<1>1. /\ Len(other) \in Nat \ {0} /\ Len(mount) \in Nat \ {0} /\ path \in Seq(S)
      /\ Len(path) >= Len(mount) /\ path[1] = mount[1]
  OBVIOUS
<1> HIDE DEF path
<1>2. ASSUME Len(other) <= Len(path)
      PROVE  SubSeq(other, 1, Len(other))[1] = other[1] /\ SubSeq(path, 1, Len(other))[1] = path[1]
  BY <1>1, <1>2
<1> QED
  BY <1>1, <1>2 DEF Below, IsPrefix, path

RootNames == {"h", "w", "p", "e", "x", "o"}

(* The roots are paths.                                                     *)
LEMMA RootsArePaths ==
    ASSUME NEW S, RootNames \subseteq S
    PROVE  /\ Home \in Seq(S) /\ EnvValue \in Seq(S) /\ Workspace \in Seq(S)
           /\ Persona \in Seq(S)
           /\ ExtraReadable \in Seq(Seq(S)) /\ ExtraWritable \in Seq(Seq(S))
<1>1. "h" \in S /\ "w" \in S /\ "p" \in S /\ "e" \in S /\ "x" \in S /\ "o" \in S
  BY DEF RootNames
<1>2. /\ <<"h">> \in Seq(S) /\ <<"h", "w">> \in Seq(S) /\ <<"h", "p">> \in Seq(S)
      /\ <<"h", "e">> \in Seq(S) /\ <<"h", "e", "x">> \in Seq(S) /\ <<"h", "o">> \in Seq(S)
  BY <1>1
<1>3. ExtraReadable \in Seq(Seq(S))
  <2> DEFINE a == <<"h", "e">>
             b == <<"h", "e", "x">>
             Q == Seq(S)
  <2>1. a \in Q /\ b \in Q
    BY <1>2
  <2>2. ExtraReadable = <<a, b>>
    BY DEF ExtraReadable
  <2> HIDE DEF a, b, Q
  <2> QED
    BY <2>1, <2>2 DEF Q
<1>4. ExtraWritable \in Seq(Seq(S))
  <2> DEFINE a == <<"h", "o">>
             Q == Seq(S)
  <2>1. a \in Q
    BY <1>2
  <2>2. ExtraWritable = <<a>>
    BY DEF ExtraWritable
  <2> HIDE DEF a, Q
  <2> QED
    BY <2>1, <2>2 DEF Q
<1> QED
  BY <1>2, <1>3, <1>4 DEF Home, EnvValue, Workspace, Persona

(* The mount under which a path is handed over is the only one of the        *)
(* guest's that holds it, so the guest opens the host's file.               *)
LEMMA GuestOpensHost ==
    ASSUME NEW S, NEW host \in Seq(S), NEW root \in Seq(S), Below(host, root), NEW mount,
           \/ mount = <<"workspace">> /\ root = Workspace
           \/ mount = <<"persona">> /\ root = Persona
           \/ \E name : mount = <<"__extra", name>>
    PROVE  GuestOpens(Sandboxed(root, mount, host)) = {host}
<1> DEFINE rest == Relative(host, root)
           access == Sandboxed(root, mount, host)
           guest == mount \o rest
           ws == <<"workspace">>
           ps == <<"persona">>
<1>1. PICK name : \/ mount = ws /\ root = Workspace
                  \/ mount = ps /\ root = Persona
                  \/ mount = <<"__extra", name>>
  OBVIOUS
<1> DEFINE T == S \cup {"workspace", "persona", "__extra", name}
<1>2. rest \in Seq(S) /\ root \o rest = host
  BY RootAndRest
<1>3. S \subseteq T
  OBVIOUS
<1>4. rest \in Seq(T)
  <2> HIDE DEF rest, T
  <2> QED
    BY <1>2, <1>3, SeqMonotonic
<1>5. /\ "workspace" \in T /\ "persona" \in T /\ "__extra" \in T /\ name \in T
  OBVIOUS
<1> HIDE DEF T, rest
<1>6. /\ ws \in Seq(T) /\ ps \in Seq(T) /\ ws # <<>> /\ ps # <<>>
      /\ ws[1] = "workspace" /\ ps[1] = "persona"
  BY <1>5
<1>7. /\ mount \in Seq(T) /\ mount # <<>>
      /\ mount # ws => mount[1] # "workspace"
      /\ mount # ps => mount[1] # "persona"
  <2>1. CASE mount = <<"__extra", name>>
    BY <1>5, <2>1
  <2>2. CASE mount = ws
    BY <1>6, <2>2
  <2>3. CASE mount = ps
    BY <1>6, <2>3
  <2> QED
    BY <1>1, <2>1, <2>2, <2>3
<1> HIDE DEF ws, ps
<1>8. /\ access.mount = mount /\ access.root = root /\ access.guest = guest
  BY DEF Sandboxed, rest
<1>9. Mounts(access) = {[mount |-> ws, host |-> Workspace], [mount |-> ps, host |-> Persona],
                        [mount |-> mount, host |-> root]}
  BY <1>8 DEF Mounts, ws, ps
<1> HIDE DEF access
<1>10. Below(guest, mount) /\ Relative(guest, mount) = rest
  BY <1>4, <1>7, BelowMount
<1>11. mount # ws => ~Below(guest, ws)
  BY <1>4, <1>6, <1>7, OtherMount
<1>12. mount # ps => ~Below(guest, ps)
  BY <1>4, <1>6, <1>7, OtherMount
<1> HIDE DEF guest
<1>13. ASSUME NEW m \in Mounts(access), Below(guest, m.mount)
       PROVE  m.mount = mount /\ m.host = root
  <2>1. CASE m = [mount |-> ws, host |-> Workspace]
    <3>1. mount = ws
      BY <1>11, <1>13, <2>1
    <3>2. root = Workspace
      BY <1>1, <1>6, <3>1
    <3> QED
      BY <2>1, <3>1, <3>2
  <2>2. CASE m = [mount |-> ps, host |-> Persona]
    <3>1. mount = ps
      BY <1>12, <1>13, <2>2
    <3>2. root = Persona
      BY <1>1, <1>6, <3>1
    <3> QED
      BY <2>2, <3>1, <3>2
  <2>3. CASE m = [mount |-> mount, host |-> root]
    BY <2>3
  <2> QED
    BY <1>9, <1>13, <2>1, <2>2, <2>3
<1>14. PICK own : /\ own \in Mounts(access) /\ own.mount = mount /\ own.host = root
  <2> DEFINE own == [mount |-> mount, host |-> root]
  <2>1. own \in Mounts(access)
    BY <1>9
  <2>2. own.mount = mount /\ own.host = root
    OBVIOUS
  <2> QED
    BY <2>1, <2>2
<1>15. GuestOpens(access) =
         {m.host \o Relative(guest, m.mount) :
              m \in {n \in Mounts(access) : Below(guest, n.mount)}}
  BY <1>8 DEF GuestOpens
<1>16. GuestOpens(access) = {host}
  BY <1>2, <1>10, <1>13, <1>14, <1>15
<1> QED
  BY <1>16 DEF access

(* The guest takes a path below the workspace, and one below the persona     *)
(* that the host would take.                                                *)
LEMMA GuestResolves ==
    ASSUME NEW S, NEW host \in Seq(Names(S)), NEW root \in Seq(Names(S)), Below(host, root),
           NEW mount,
           \/ mount = <<"workspace">>
           \/ /\ mount = <<"persona">>
              /\ PersonaRelativePathAllowed(Relative(host, root))
    PROVE  LET guest == mount \o Relative(host, root)
           IN /\ ResolveGuestPath(guest)
              /\ mount = <<"workspace">> => DisplayRoot(guest)
<1> DEFINE rest == Relative(host, root)
           guest == mount \o rest
           T == S \cup {"workspace", "persona"}
<1>1. rest \in Seq(Names(S))
  BY RootAndRest
<1>2. Names(S) \subseteq Names(T) /\ "workspace" \in Names(T) /\ "persona" \in Names(T)
  BY DEF Names
<1> HIDE DEF T
<1>3. rest \in Seq(Names(T))
  <2> HIDE DEF rest
  <2> QED
    BY <1>1, <1>2, SeqMonotonic
<1>4. mount \in Seq(Names(T))
  <2>1. <<"workspace">> \in Seq(Names(T)) /\ <<"persona">> \in Seq(Names(T))
    BY <1>2
  <2> QED
    BY <2>1
<1>5. /\ Below(guest, mount) /\ Relative(guest, mount) = rest /\ guest \in Seq(Names(T))
  <2> HIDE DEF rest
  <2> QED
    BY <1>3, <1>4, BelowMount
<1>6. NormalizeAbsolutePath(guest) = guest
  <2> HIDE DEF guest
  <2> QED
    BY <1>5, NormalizeKeeps
<1> HIDE DEF guest
<1>7. CASE mount = <<"workspace">>
  BY <1>5, <1>6, <1>7 DEF ResolveGuestPath, DisplayRoot, guest
<1>8. CASE mount = <<"persona">> /\ PersonaRelativePathAllowed(rest)
  <2>1. GuestPersonaPathAllowed(guest)
    BY <1>5, <1>6, <1>8 DEF GuestPersonaPathAllowed
  <2>2. mount # <<"workspace">>
    BY <1>8
  <2> QED
    BY <1>6, <2>1, <2>2 DEF ResolveGuestPath, guest
<1> QED
  BY <1>7, <1>8

(* The guest has no mount for an extra root, nor, to show it as the root of a *)
(* list, for the persona.                                                   *)
LEMMA GuestRefuses ==
    ASSUME NEW S, NEW host \in Seq(Names(S)), NEW root \in Seq(Names(S)), Below(host, root),
           NEW mount, NEW name \in {"0", "1", "2"},
           mount = <<"persona">> \/ mount = <<"__extra", name>>
    PROVE  LET guest == mount \o Relative(host, root)
           IN /\ ~DisplayRoot(guest)
              /\ mount # <<"persona">> => ~ResolveGuestPath(guest)
<1> DEFINE rest == Relative(host, root)
           guest == mount \o rest
           T == S \cup {"workspace", "persona", "__extra", "0", "1", "2"}
           N == Names(T)
           ws == <<"workspace">>
           ps == <<"persona">>
<1>1. rest \in Seq(Names(S))
  BY RootAndRest
<1>2. Names(S) \subseteq N /\ "workspace" \in N /\ "persona" \in N /\ "__extra" \in N
      /\ name \in N
  BY DEF Names
<1> HIDE DEF T, N, rest
<1>3. rest \in Seq(N)
  BY <1>1, <1>2, SeqMonotonic
<1>4. /\ ws \in Seq(N) /\ ps \in Seq(N) /\ <<"__extra", name>> \in Seq(N)
      /\ ws # <<>> /\ ps # <<>> /\ ws[1] = "workspace" /\ ps[1] = "persona"
  BY <1>2
<1>5. /\ mount \in Seq(N) /\ mount # <<>> /\ mount[1] # "workspace"
      /\ mount # ps => mount[1] # "persona"
  <2>1. CASE mount = <<"__extra", name>>
    BY <1>4, <2>1
  <2>2. CASE mount = ps
    BY <1>4, <2>2
  <2> QED
    BY <2>1, <2>2
<1> HIDE DEF ws, ps
<1>6. guest \in Seq(N)
  BY <1>3, <1>5, BelowMount
<1>7. NormalizeAbsolutePath(guest) = guest
  <2> HIDE DEF guest
  <2> QED
    BY <1>6, NormalizeKeeps DEF N
<1>8. ~Below(guest, ws)
  BY <1>3, <1>4, <1>5, OtherMount
<1>9. mount # ps => ~Below(guest, ps)
  BY <1>3, <1>4, <1>5, OtherMount
<1> HIDE DEF guest
<1>10. ~DisplayRoot(guest)
  BY <1>7, <1>8 DEF DisplayRoot, ws
<1>11. mount # ps => ~ResolveGuestPath(guest)
  BY <1>7, <1>8, <1>9 DEF ResolveGuestPath, GuestPersonaPathAllowed, ws, ps
<1> QED
  BY <1>10, <1>11 DEF guest, rest, ps

(* Where some root holds the path, one is found.                            *)
LEMMA ExtraRootFound ==
    ASSUME NEW S, NEW path \in Seq(S), NEW roots \in Seq(Seq(S))
    PROVE  LET i == FindMatchingExtraRoot(path, roots)
           IN \/ i = 0 /\ \A k \in DOMAIN roots : ~Below(path, roots[k])
              \/ i \in DOMAIN roots /\ i # 0 /\ Below(path, roots[i])
<1> DEFINE holding == {i \in DOMAIN roots : Below(path, roots[i])}
           n == Len(roots)
           Best(i) == \A k \in holding :
                          \/ Len(roots[k]) < Len(roots[i])
                          \/ Len(roots[k]) = Len(roots[i]) /\ k <= i
<1>1. n \in Nat /\ DOMAIN roots = 1..n /\ \A i \in 1..n : roots[i] \in Seq(S)
  OBVIOUS
<1>2. CASE holding = {}
  BY <1>2 DEF FindMatchingExtraRoot
<1>3. CASE holding # {}
  <2> DEFINE lens == {Len(roots[i]) : i \in holding}
  <2>1. \A i \in holding : i \in 1..n /\ Len(roots[i]) \in Nat /\ Len(roots[i]) <= Len(path)
    BY <1>1 DEF Below, IsPrefix
  <2> HIDE DEF holding
  <2>2. PICK long \in holding : \A k \in holding : Len(roots[k]) <= Len(roots[long])
    <3> DEFINE m == Len(path)
               gaps == {m - Len(roots[i]) : i \in holding}
    <3>1. m \in Nat
      OBVIOUS
    <3>2. \A i \in holding : m - Len(roots[i]) \in Nat
      BY <2>1, <3>1
    <3>3. gaps \subseteq Nat /\ gaps # {}
      BY <1>3, <3>2
    <3>4. PICK x \in gaps : \A y \in gaps : x <= y
      <4> HIDE DEF gaps
      <4> QED
        BY <3>3, LeastMember
    <3>5. PICK i \in holding : x = m - Len(roots[i])
      OBVIOUS
    <3>6. \A k \in holding : x <= m - Len(roots[k])
      BY <3>4
    <3> QED
      BY <2>1, <3>1, <3>5, <3>6
  <2> DEFINE longest == {i \in holding : Len(roots[i]) = Len(roots[long])}
  <2>3. longest \subseteq 1..n /\ longest # {}
    BY <2>1
  <2>4. PICK i \in longest : \A k \in longest : i >= k
    <3> HIDE DEF longest
    <3> QED
      BY <1>1, <2>3, GreatestMember
  <2>5. i \in holding /\ Best(i)
    <3>1. i \in holding /\ Len(roots[i]) = Len(roots[long])
      OBVIOUS
    <3>2. ASSUME NEW k \in holding
          PROVE  Len(roots[k]) < Len(roots[i]) \/ (Len(roots[k]) = Len(roots[i]) /\ k <= i)
      <4>1. Len(roots[k]) \in Nat /\ Len(roots[i]) \in Nat /\ k \in 1..n /\ i \in 1..n
        BY <2>1, <3>1
      <4>2. Len(roots[k]) <= Len(roots[i])
        BY <2>2, <3>1
      <4>3. CASE Len(roots[k]) = Len(roots[i])
        <5>1. i >= k
          BY <2>4, <3>1, <4>3
        <5> QED
          BY <1>1, <4>1, <4>3, <5>1
      <4> QED
        BY <4>1, <4>2, <4>3
    <3> QED
      BY <3>1, <3>2
  <2>6. FindMatchingExtraRoot(path, roots) = CHOOSE j \in holding : Best(j)
    BY <1>3 DEF FindMatchingExtraRoot, holding
  <2> HIDE DEF Best
  <2>7. FindMatchingExtraRoot(path, roots) \in holding
    BY <2>5, <2>6
  <2> QED
    BY <1>1, <2>7 DEF holding
<1> QED
  BY <1>2, <1>3

Tools == {"read", "edit", "glob", "grep", "list"}

(* A raw path resolves to a path without dots.                              *)
LEMMA ResolvedIsClean ==
    ASSUME NEW S, RootNames \subseteq S, NEW raw, raw.parts \in Seq(S)
    PROVE  ResolvePathForRead(raw) \in Seq(Names(S))
<1> DEFINE one == ExpandEnvVars(raw)
           two == ExpandHomeDir(one)
           full == IF two.anchor = "root" THEN two.parts ELSE Workspace \o two.parts
<1>1. Home \in Seq(S) /\ EnvValue \in Seq(S) /\ Workspace \in Seq(S)
  BY RootsArePaths
<1>2. one.parts \in Seq(S)
  <2>1. CASE raw.anchor = "$V"
    <3>1. one.parts = EnvValue \o raw.parts
      BY <2>1 DEF ExpandEnvVars
    <3> QED
      BY <1>1, <3>1
  <2>2. CASE raw.anchor = "$unset"
    <3>1. one.parts = raw.parts
      BY <2>2 DEF ExpandEnvVars
    <3> QED
      BY <3>1
  <2>3. CASE raw.anchor \notin {"$V", "$unset"}
    <3>1. one = raw
      BY <2>3 DEF ExpandEnvVars
    <3> QED
      BY <3>1
  <2> QED
    BY <2>1, <2>2, <2>3
<1> HIDE DEF one
<1>3. two.parts \in Seq(S)
  <2>1. CASE one.anchor = "~"
    <3>1. two.parts = Home \o one.parts
      BY <2>1 DEF ExpandHomeDir
    <3> QED
      BY <1>1, <1>2, <3>1
  <2>2. CASE one.anchor # "~"
    BY <1>2, <2>2 DEF ExpandHomeDir
  <2> QED
    BY <2>1, <2>2
<1>4. full \in Seq(S)
  <2> HIDE DEF two
  <2> QED
    BY <1>1, <1>3
<1>5. ResolvePathForRead(raw) = NormalizeAbsolutePath(full)
  BY DEF ResolvePathForRead, one
<1> HIDE DEF full
<1> QED
  BY <1>4, <1>5, NormalizeIsClean

(* What the plan of a call is made of, and what its guest will ask for.     *)
LEMMA PlanIs ==
    ASSUME NEW S, "." \in S, NEW args, args.tool \in Tools,
           args.path = NoPath \/ args.path.parts \in Seq(S),
           ToolPlan(args).route = "planned"
    PROVE  /\ \E raw, capability, window :
                 /\ ToolPlan(args) = PlanAt(raw, capability, window)
                 /\ raw.parts \in Seq(S)
                 /\ capability = IF args.tool = "edit" THEN "write" ELSE "read"
           /\ \A guest : GuestAccepts(args, guest) <=>
                  ResolveGuestPath(guest) /\ (args.tool = "list" => DisplayRoot(guest))
<1>0. OrHere(args.path).parts \in Seq(S)
  <2>1. CASE args.path = NoPath
    <3>1. OrHere(args.path).parts = <<".">>
      BY <2>1 DEF OrHere
    <3>2. <<".">> \in Seq(S)
      OBVIOUS
    <3> QED
      BY <3>1, <3>2
  <2>2. CASE args.path # NoPath
    BY <2>2 DEF OrHere
  <2> QED
    BY <2>1, <2>2
<1>a. Rejected.route # "planned"
  BY DEF Rejected
<1>1. CASE args.tool = "read"
  <2>1. ToolPlan(args) = ReadPlan(args)
    BY <1>1 DEF ToolPlan
  <2>2. /\ args.path # NoPath /\ args.offset # 0 /\ args.limit # 0
        /\ ToolPlan(args) = PlanAt(args.path, "read", <<args.offset, args.limit>>)
    BY <1>a, <2>1 DEF ReadPlan
  <2>3. \A guest : GuestAccepts(args, guest) <=> ResolveGuestPath(guest)
    BY <1>1, <2>2 DEF GuestAccepts, ReadGuest
  <2> QED
    BY <1>1, <2>2, <2>3
<1>2. CASE args.tool = "edit"
  <2>1. ToolPlan(args) = EditPlan(args)
    BY <1>2 DEF ToolPlan
  <2>2. /\ args.path # NoPath /\ ~args.same
        /\ ToolPlan(args) = PlanAt(args.path, "write", <<>>)
    BY <1>a, <2>1 DEF EditPlan
  <2>3. \A guest : GuestAccepts(args, guest) <=> ResolveGuestPath(guest)
    BY <1>2, <2>2 DEF GuestAccepts, EditGuest
  <2> QED
    BY <1>2, <2>2, <2>3
<1>3. CASE args.tool = "glob"
  <2>1. ToolPlan(args) = GlobPlan(args)
    BY <1>3 DEF ToolPlan
  <2>2. /\ ~args.blank /\ args.dir
        /\ ToolPlan(args) = PlanAt(OrHere(args.path), "read", <<>>)
    BY <1>a, <2>1 DEF GlobPlan
  <2>3. \A guest : GuestAccepts(args, guest) <=> ResolveGuestPath(guest)
    BY <1>3, <2>2 DEF GuestAccepts, GlobGuest
  <2> QED
    BY <1>0, <1>3, <2>2, <2>3
<1>4. CASE args.tool = "grep"
  <2>1. ToolPlan(args) = GrepPlan(args)
    BY <1>4 DEF ToolPlan
  <2>2. /\ ~args.blank /\ args.dir
        /\ ToolPlan(args) = PlanAt(OrHere(args.path), "read", <<>>)
    BY <1>a, <2>1 DEF GrepPlan
  <2>3. \A guest : GuestAccepts(args, guest) <=> ResolveGuestPath(guest)
    BY <1>4, <2>2 DEF GuestAccepts, GrepGuest
  <2> QED
    BY <1>0, <1>4, <2>2, <2>3
<1>5. CASE args.tool = "list"
  <2>1. ToolPlan(args) = ListPlan(args)
    BY <1>5 DEF ToolPlan
  <2>2. /\ args.dir /\ ToolPlan(args) = PlanAt(OrHere(args.path), "read", <<>>)
    BY <1>a, <2>1 DEF ListPlan
  <2>3. \A guest : GuestAccepts(args, guest) <=> ResolveGuestPath(guest) /\ DisplayRoot(guest)
    BY <1>5, <2>2 DEF GuestAccepts, ListGuest
  <2> QED
    BY <1>0, <1>5, <2>2, <2>3
<1> QED
  BY <1>1, <1>2, <1>3, <1>4, <1>5 DEF Tools

(* The extra roots that a capability opens.                                 *)
LEMMA ExtraRootsAre ==
    ASSUME NEW S, RootNames \subseteq S, NEW capability
    PROVE  LET extra == SandboxPathsForCapability(capability)
           IN /\ extra \in Seq(Seq(S))
              /\ \A i \in DOMAIN extra : extra[i] \notin {Workspace, Persona}
              /\ \A i \in DOMAIN extra : ExtraNames[i] \in {"0", "1", "2"}
<1> DEFINE extra == SandboxPathsForCapability(capability)
           Q == Seq(S)
<1>1. ExtraReadable \in Seq(Q) /\ ExtraWritable \in Seq(Q)
  BY RootsArePaths
<1>2. /\ <<"h", "e">> \notin {Workspace, Persona}
      /\ <<"h", "e", "x">> \notin {Workspace, Persona}
      /\ <<"h", "o">> \notin {Workspace, Persona}
  BY DEF Workspace, Persona
<1>3. /\ \A i \in DOMAIN ExtraReadable : ExtraReadable[i] \notin {Workspace, Persona}
      /\ \A i \in DOMAIN ExtraWritable : ExtraWritable[i] \notin {Workspace, Persona}
  BY <1>2 DEF ExtraReadable, ExtraWritable
<1> HIDE DEF Q
<1>4. CASE capability = "write"
  <2>1. extra = ExtraReadable \o ExtraWritable
    BY <1>4 DEF SandboxPathsForCapability
  <2> DEFINE a == Len(ExtraReadable)
             b == Len(ExtraWritable)
  <2>2. /\ a \in Nat /\ b \in Nat /\ DOMAIN ExtraReadable = 1..a /\ DOMAIN ExtraWritable = 1..b
        /\ extra \in Seq(Q) /\ DOMAIN extra = 1..(a + b)
        /\ \A i \in 1..a : extra[i] = ExtraReadable[i]
        /\ \A i \in (a + 1)..(a + b) : extra[i] = ExtraWritable[i - a]
    BY <1>1, <2>1
  <2> HIDE DEF a, b, extra
  <2>3. ASSUME NEW i \in DOMAIN extra PROVE extra[i] \notin {Workspace, Persona}
    <3>1. CASE i <= a
      BY <1>3, <2>2, <2>3, <3>1
    <3>2. CASE i > a
      <4>1. i \in (a + 1)..(a + b) /\ i - a \in 1..b
        BY <2>2, <2>3, <3>2
      <4> QED
        BY <1>3, <2>2, <4>1
    <3> QED
      BY <2>2, <3>1, <3>2
  <2>4. \A i \in DOMAIN extra : ExtraNames[i] \in {"0", "1", "2"}
    <3>1. a = 2 /\ b = 1
      BY DEF a, b, ExtraReadable, ExtraWritable
    <3> QED
      BY <2>2, <3>1 DEF ExtraNames
  <2> QED
    BY <2>2, <2>3, <2>4 DEF extra, Q
<1>5. CASE capability # "write"
  <2>1. extra = ExtraReadable
    BY <1>5 DEF SandboxPathsForCapability
  <2>2. \A i \in DOMAIN extra : ExtraNames[i] \in {"0", "1", "2"}
    <3>1. DOMAIN extra = 1..2
      BY <2>1 DEF ExtraReadable
    <3> QED
      BY <3>1 DEF ExtraNames
  <2> HIDE DEF extra
  <2> QED
    BY <1>1, <1>3, <2>1, <2>2 DEF extra, Q
<1> QED
  BY <1>4, <1>5

(* For paths of any length with any names in them: a planned call opens the   *)
(* same file in the sandbox as it would outside, asks the user exactly about  *)
(* the paths in no root, and its guest refuses exactly the calls that it has  *)
(* no mount for: list below the persona and all tools below an extra root     *)
(* (resolve_path_for_read, classify_file_tool_access, resolve_guest_path).    *)
THEOREM SameFile ==
    ASSUME NEW S, RootNames \cup {"."} \subseteq S, NEW args, args.tool \in Tools,
           args.path = NoPath \/ args.path.parts \in Seq(S),
           ToolPlan(args).route = "planned"
    PROVE  RunsAlike(args)
<1>0. RootNames \subseteq S /\ "." \in S /\ RootNames \subseteq Names(S)
  BY DEF RootNames, Names
<1>1. PICK raw, capability, window :
          /\ ToolPlan(args) = PlanAt(raw, capability, window) /\ raw.parts \in Seq(S)
          /\ capability = IF args.tool = "edit" THEN "write" ELSE "read"
  BY <1>0, PlanIs
<1>2. \A guest : GuestAccepts(args, guest) <=>
          ResolveGuestPath(guest) /\ (args.tool = "list" => DisplayRoot(guest))
  BY <1>0, PlanIs
<1> DEFINE N == Names(S)
           host == ResolvePathForRead(raw)
           access == ClassifyFileToolAccess(host, capability)
           extra == SandboxPathsForCapability(capability)
           i == FindMatchingExtraRoot(host, extra)
<1>3. host \in Seq(N)
  BY <1>0, <1>1, ResolvedIsClean
<1>4. ToolPlan(args).host = host /\ ToolPlan(args).access = access
  BY <1>1 DEF PlanAt
<1>5. Workspace \in Seq(N) /\ Persona \in Seq(N)
  <2> HIDE DEF N
  <2> QED
    BY <1>0, RootsArePaths DEF N
<1>6. /\ extra \in Seq(Seq(N))
      /\ \A k \in DOMAIN extra : extra[k] \notin {Workspace, Persona}
      /\ \A k \in DOMAIN extra : ExtraNames[k] \in {"0", "1", "2"}
  <2> HIDE DEF N
  <2> QED
    BY <1>0, ExtraRootsAre DEF N
<1> HIDE DEF host, extra
<1>7. \/ i = 0 /\ \A k \in DOMAIN extra : ~Below(host, extra[k])
      \/ i \in DOMAIN extra /\ i # 0 /\ Below(host, extra[i])
  <2> HIDE DEF N
  <2> QED
    BY <1>3, <1>6, ExtraRootFound
<1>8. access = IF Below(host, Workspace) THEN Sandboxed(Workspace, <<"workspace">>, host)
               ELSE IF Below(host, Persona)
                       /\ PersonaRelativePathAllowed(Relative(host, Persona))
               THEN Sandboxed(Persona, <<"persona">>, host)
               ELSE IF i # 0 THEN Sandboxed(extra[i], <<"__extra", ExtraNames[i]>>, host)
               ELSE [route |-> "ask", target |-> host]
  BY DEF ClassifyFileToolAccess, extra
<1> HIDE DEF access, i
<1>9. ASSUME NEW root, NEW mount, access = Sandboxed(root, mount, host)
      PROVE  /\ access.route # "ask" /\ access.root = root
             /\ access.mount = mount
             /\ access.guest = mount \o Relative(host, root)
  BY <1>9 DEF Sandboxed
<1>a. ASSUME access.route # "ask", GuestOpens(access) = {host},
             GuestAccepts(args, access.guest) <=> GuestHasMount(args, access.mount)
      PROVE  RunsAlike(args)
  BY <1>4, <1>a DEF RunsAlike
<1>10. CASE Below(host, Workspace)
  <2>1. access = Sandboxed(Workspace, <<"workspace">>, host)
    BY <1>8, <1>10
  <2>2. GuestOpens(access) = {host}
    BY <1>3, <1>5, <1>10, <2>1, GuestOpensHost
  <2>3. /\ access.route # "ask" /\ access.mount = <<"workspace">>
        /\ access.guest = <<"workspace">> \o Relative(host, Workspace)
    BY <1>9, <2>1
  <2>4. ResolveGuestPath(access.guest) /\ DisplayRoot(access.guest)
    BY <1>3, <1>5, <1>10, <2>3, GuestResolves
  <2>5. GuestAccepts(args, access.guest) /\ GuestHasMount(args, access.mount)
    BY <1>2, <2>3, <2>4 DEF GuestHasMount
  <2> QED
    BY <1>a, <2>2, <2>3, <2>5
<1>11. CASE /\ ~Below(host, Workspace) /\ Below(host, Persona)
            /\ PersonaRelativePathAllowed(Relative(host, Persona))
  <2>1. access = Sandboxed(Persona, <<"persona">>, host)
    BY <1>8, <1>11
  <2>2. GuestOpens(access) = {host}
    BY <1>3, <1>5, <1>11, <2>1, GuestOpensHost
  <2>3. /\ access.route # "ask" /\ access.guest = <<"persona">> \o Relative(host, Persona)
        /\ access.mount = <<"persona">>
    BY <1>9, <2>1
  <2>4. ResolveGuestPath(access.guest)
    BY <1>3, <1>5, <1>11, <2>3, GuestResolves
  <2>5. ~DisplayRoot(access.guest)
    BY <1>3, <1>5, <1>11, <2>3, GuestRefuses
  <2>6. access.mount # <<"workspace">>
    BY <2>3
  <2>7. GuestAccepts(args, access.guest) <=> GuestHasMount(args, access.mount)
    BY <1>2, <2>3, <2>4, <2>5, <2>6 DEF GuestHasMount
  <2> QED
    BY <1>a, <2>2, <2>3, <2>7
<1>12. CASE /\ ~Below(host, Workspace)
            /\ ~(Below(host, Persona) /\ PersonaRelativePathAllowed(Relative(host, Persona)))
            /\ i # 0
  <2> DEFINE name == ExtraNames[i]
  <2>a. name \in {"0", "1", "2"}
    BY <1>6, <1>7, <1>12
  <2> HIDE DEF name
  <2>1. access = Sandboxed(extra[i], <<"__extra", name>>, host)
    BY <1>8, <1>12 DEF name
  <2>2. i \in DOMAIN extra /\ Below(host, extra[i])
    BY <1>7, <1>12
  <2>3. extra[i] \in Seq(N) /\ extra[i] \notin {Workspace, Persona}
    BY <1>6, <2>2
  <2>4. GuestOpens(access) = {host}
    BY <1>3, <2>1, <2>2, <2>3, GuestOpensHost
  <2>5. /\ access.route # "ask" /\ access.mount = <<"__extra", name>>
        /\ access.guest = <<"__extra", name>> \o Relative(host, extra[i])
    BY <1>9, <2>1
  <2>6. access.mount # <<"workspace">> /\ access.mount # <<"persona">>
    BY <2>5
  <2>7. ~ResolveGuestPath(access.guest)
    BY <1>3, <2>a, <2>2, <2>3, <2>5, <2>6, GuestRefuses
  <2>8. GuestAccepts(args, access.guest) <=> GuestHasMount(args, access.mount)
    BY <1>2, <2>6, <2>7 DEF GuestHasMount
  <2> QED
    BY <1>a, <2>4, <2>5, <2>8
<1>13. CASE /\ ~Below(host, Workspace)
            /\ ~(Below(host, Persona) /\ PersonaRelativePathAllowed(Relative(host, Persona)))
            /\ i = 0
  <2>1. access = [route |-> "ask", target |-> host]
    BY <1>8, <1>13
  <2>2. \A k \in DOMAIN extra : ~Below(host, extra[k])
    BY <1>7, <1>13
  <2> QED
    BY <1>1, <1>4, <1>13, <2>1, <2>2 DEF RunsAlike, extra
<1> QED
  BY <1>10, <1>11, <1>12, <1>13

AskedNames == {"h", "w", "p", "e", "x", "..", "skills", "SOUL.md"}
PathNames == RootNames \cup {"."} \cup AskedNames
FileAsked ==
    question.topic = "file" =>
        /\ question.input.tool \in Tools
        /\ question.input.path = NoPath \/ question.input.path.parts \in Seq(PathNames)

(* The questions asked about the file tools are about such calls.           *)
LEMMA FileQuestions ==
    ASSUME AskFileTool PROVE FileAsked'
<1>1. PICK args \in FileArgs : Put("file", args)
  BY DEF AskFileTool
<1>2. question'.input = args
  BY <1>1 DEF Put
<1>3. /\ args.tool \in Tools
      /\ args.path = NoPath \/ args.path \in RawPaths
  <2> DEFINE P == RawPaths \cup {NoPath}
             short == {r \in RawPaths : Len(r.parts) <= 2}
  <2> HIDE DEF P, short
  <2>1. \/ args \in [tool : {"read"}, path : P, offset : {1}, limit : {1}, dir : {TRUE}]
        \/ args \in [tool : {"read"}, path : {NoPath}, offset : 0..2, limit : 0..2,
                     dir : BOOLEAN]
        \/ args \in [tool : {"edit"}, path : P, same : {FALSE}]
        \/ args \in [tool : {"edit"}, path : {NoPath}, same : BOOLEAN]
        \/ args \in [tool : {"glob", "grep", "list"}, path : {NoPath} \cup short,
                     blank : BOOLEAN, dir : BOOLEAN]
    BY DEF FileArgs, P, short
  <2>2. args.tool \in Tools /\ args.path \in P \cup {NoPath} \cup short
    BY <2>1 DEF Tools
  <2> QED
    BY <2>2 DEF P, short
<1>4. ASSUME args.path \in RawPaths PROVE args.path.parts \in Seq(PathNames)
  <2>1. PICK n \in 0..3 : args.path.parts \in [1..n -> AskedNames]
    BY <1>4 DEF RawPaths, AskedNames
  <2>2. n \in Nat /\ AskedNames \subseteq PathNames
    BY DEF PathNames
  <2>3. args.path.parts \in [1..n -> PathNames]
    BY <2>1, <2>2
  <2>4. args.path.parts \in UNION {[1..k -> PathNames] : k \in Nat}
    BY <2>2, <2>3
  <2> QED
    BY <2>4, SeqDef
<1> QED
  BY <1>2, <1>3, <1>4 DEF FileAsked

(* What the runs check of the calls they ask about, by the theorem for all    *)
(* paths: the same file in the sandbox and outside, and refusals exactly      *)
(* where the guest has no mount.                                             *)
THEOREM FilesAreTheSame == FilesSpec => []SameFileEitherWay
<1>1. QuestionInit => FileAsked
  BY DEF QuestionInit, NoQuestion, FileAsked
<1>2. FileAsked /\ [AskFileTool]_question => FileAsked'
  BY FileQuestions DEF FileAsked
<1>3. FileAsked => SameFileEitherWay
  <2>1. RootNames \cup {"."} \subseteq PathNames
    BY DEF PathNames
  <2> QED
    BY <2>1, SameFile DEF FileAsked, SameFileEitherWay, Asked
<1> QED
  BY <1>1, <1>2, <1>3, PTL DEF FilesSpec

-----------------------------------------------------------------------------
(* Words of a command                                                       *)

Marks == {"'", "\"", "\\", " ", "LF", "&", "|", ";"}
Apart == {"&", "|", ";"}
Pairing == Apart \ {";"}
Apostrophe == "'"
DoubleQuote == "\""
Backslash == "\\"
DoubleEscape == "double escape"
Tokens(X) == [kind : {"word", "operator"}, text : X]
Scans(C) == [mode : {"plain", "single", "double", "double escape", "escape", "operator"},
             current : Seq(C), tokens : Seq(Tokens(Seq(C)))]

(* A scanner reads one character and is a scanner.                          *)
LEMMA ScanCharIs ==
    ASSUME NEW C, NEW scan \in Scans(C), NEW ch \in C
    PROVE  ScanChar(scan, ch) \in Scans(C)
<1> DEFINE T == Tokens(Seq(C))
<1>1. /\ scan.current \in Seq(C) /\ scan.tokens \in Seq(T)
      /\ scan = [mode |-> scan.mode, current |-> scan.current, tokens |-> scan.tokens]
  BY DEF Scans
<1>2. \A mode \in {"plain", "single", "double", "double escape", "escape", "operator"} :
          \A st \in Scans(C) : Enter(st, mode) \in Scans(C)
  BY DEF Enter, Scans
<1>3. ASSUME NEW st \in Scans(C) PROVE Keep(st, ch) \in Scans(C)
  <2>1. st.current \in Seq(C)
    BY DEF Scans
  <2>2. PICK more \in Seq(C) : more = Append(st.current, ch)
    <3>1. PICK now \in Seq(C) : now = st.current
      BY <2>1
    <3>2. Append(now, ch) \in Seq(C)
      OBVIOUS
    <3> QED
      BY <3>1, <3>2
  <2>3. Keep(st, ch) = [st EXCEPT !.current = more]
    BY <2>2 DEF Keep
  <2> QED
    BY <2>3 DEF Scans
<1>4. ASSUME NEW text \in Seq(C), NEW kind \in {"word", "operator"}
      PROVE  Token(kind, text) \in T
  BY DEF Token, Tokens
<1> HIDE DEF T
<1>5. PushWordToken(scan) \in Scans(C)
  <2>1. Append(scan.tokens, Token("word", scan.current)) \in Seq(T)
    BY <1>1, <1>4
  <2>2. PICK more \in Seq(T) : more = Append(scan.tokens, Token("word", scan.current))
    BY <2>1
  <2>3. PushWordToken(scan) = scan
        \/ PushWordToken(scan) = [scan EXCEPT !.current = <<>>, !.tokens = more]
    BY <2>2 DEF PushWordToken
  <2> DEFINE none == <<>>
  <2>4. none \in Seq(C)
    OBVIOUS
  <2>5. PushWordToken(scan) = scan
        \/ PushWordToken(scan) = [scan EXCEPT !.current = none, !.tokens = more]
    BY <2>3
  <2> HIDE DEF none
  <2>6. [scan EXCEPT !.current = none, !.tokens = more] \in Scans(C)
    BY <2>4 DEF Scans, T
  <2> QED
    BY <2>5, <2>6
<1>6. PushOperator(scan, ch) \in Scans(C)
  <2> DEFINE pushed == PushWordToken(scan)
  <2>1. pushed.tokens \in Seq(T)
    BY <1>5 DEF Scans, T
  <2>2. <<ch>> \in Seq(C)
    OBVIOUS
  <2>3. Append(pushed.tokens, Token("operator", <<ch>>)) \in Seq(T)
    <3>1. PICK token \in T : token = Token("operator", <<ch>>)
      BY <1>4, <2>2
    <3> QED
      BY <2>1, <3>1
  <2> HIDE DEF pushed
  <2>4. pushed \in Scans(C)
    BY <1>5 DEF pushed
  <2>5. PushOperator(scan, ch) = [pushed EXCEPT
            !.mode = IF ch \in Doubled THEN "operator" ELSE "plain",
            !.tokens = Append(pushed.tokens, Token("operator", <<ch>>))]
    BY <2>4 DEF PushOperator, pushed, Scans
  <2> QED
    BY <2>3, <2>4, <2>5 DEF Scans, T
<1>7. DoubleOperator(scan, ch) \in Scans(C)
  <2>1. Front(scan.tokens) \in Seq(T)
    BY <1>1 DEF Front
  <2>2. <<ch, ch>> \in Seq(C)
    OBVIOUS
  <2>3. Append(Front(scan.tokens), Token("operator", <<ch, ch>>)) \in Seq(T)
    <3>1. PICK token \in T : token = Token("operator", <<ch, ch>>)
      BY <1>4, <2>2
    <3>2. PICK before \in Seq(T) : before = Front(scan.tokens)
      BY <2>1
    <3>3. Append(before, token) \in Seq(T)
      OBVIOUS
    <3> QED
      BY <3>1, <3>2, <3>3
  <2>4. DoubleOperator(scan, ch) = [scan EXCEPT !.mode = "plain",
            !.tokens = Append(Front(scan.tokens), Token("operator", <<ch, ch>>))]
    BY DEF DoubleOperator, Scans
  <2> QED
    BY <2>3, <2>4 DEF Scans, T
<1>8. ScanPlain(scan, ch) \in Scans(C)
  BY <1>2, <1>3, <1>5, <1>6 DEF ScanPlain
<1> QED
  BY <1>2, <1>3, <1>7, <1>8 DEF ScanChar

Scan(scan, text) == FoldLeft(ScanChar, scan, text)
At(mode, current, tokens) == [mode |-> mode, current |-> current, tokens |-> tokens]

(* The tokenizer goes through the characters one by one,                     *)
LEMMA ScanRun ==
    ASSUME NEW C, NEW base \in Scans(C), NEW s \in Seq(C)
    PROVE  \E g : /\ IsRun(g, [p \in Scans(C) \X C |-> ScanChar(p[1], p[2])], Scans(C), base, s)
                  /\ Scan(base, s) = g[Len(s)]
<1> DEFINE n == Len(s)
           V == Scans(C)
           X == C
           f == [p \in V \X X |-> ScanChar(p[1], p[2])]
           step == [p \in V \X (1..n) |-> f[<<p[1], s[p[2]]>>]]
           F(d) == [t \in SUBSET DOMAIN s |->
                       IF t = {} THEN base ELSE ScanChar(d[t \ {Max(t)}], s[Max(t)])]
           c == CHOOSE d : d = F(d)
<1>1. n \in Nat /\ DOMAIN s = 1..n /\ \A i \in 1..n : s[i] \in X
  OBVIOUS
<1>2. f \in [V \X X -> V]
  BY ScanCharIs
<1> HIDE DEF V, X
<1>3. \A v \in V, x \in X : f[<<v, x>>] = ScanChar(v, x)
  OBVIOUS
<1> HIDE DEF f, n
<1>4. step \in [V \X (1..n) -> V]
  BY <1>1, <1>2
<1>5. PICK h \in [SUBSET (1..n) -> V] : IsFold(h, n, base, step)
  <2>1. base \in V
    BY DEF V
  <2> HIDE DEF step
  <2> QED
    BY <1>1, <1>4, <2>1, FoldExists
<1>6. h = F(h)
  <2>1. ASSUME NEW t \in SUBSET (1..n), t # {}
        PROVE  step[<<h[t \ {Max(t)}], Max(t)>>] = ScanChar(h[t \ {Max(t)}], s[Max(t)])
    <3>1. Max(t) \in 1..n /\ t \ {Max(t)} \in SUBSET (1..n)
      BY <1>1, <2>1, MaxOfSome
    <3>2. h[t \ {Max(t)}] \in V /\ s[Max(t)] \in X
      BY <1>1, <1>5, <3>1
    <3> QED
      BY <1>3, <3>1, <3>2
  <2>2. h = [t \in SUBSET (1..n) |->
               IF t = {} THEN base ELSE step[<<h[t \ {Max(t)}], Max(t)>>]]
    BY <1>5 DEF IsFold
  <2> HIDE DEF step
  <2> QED
    BY <1>1, <2>1, <2>2
<1>7. c = F(c)
  <2> HIDE DEF F
  <2> QED
    BY <1>6
<1>8. Scan(base, s) = c[DOMAIN s]
  BY DEF Scan, FoldLeft, MapThenFoldSet
<1> HIDE DEF c, step
<1> DEFINE g == [k \in 0..n |-> c[1..k]]
<1>9. c[1..0] = base
  <2>1. 1..0 = {} /\ (1..0) \in SUBSET DOMAIN s
    OBVIOUS
  <2> QED
    BY <1>7, <2>1
<1>10. ASSUME NEW k \in 1..n PROVE c[1..k] = ScanChar(c[1..(k - 1)], s[k])
  <2>1. Max(1..k) = k /\ (1..k) \ {k} = 1..(k - 1) /\ 1..k # {}
    <3>1. k \in Nat /\ k # 0
      BY <1>1
    <3> QED
      BY <3>1, MaxOfAll
  <2>2. (1..k) \in SUBSET DOMAIN s
    BY <1>1
  <2> QED
    BY <1>7, <2>1, <2>2
<1>11. /\ g[0] = base /\ g[n] = c[DOMAIN s] /\ g = [k \in 0..n |-> g[k]]
       /\ \A k \in 1..n : g[k] = ScanChar(g[k - 1], s[k])
  BY <1>1, <1>9, <1>10
<1> HIDE DEF g
<1>12. \A k \in 1..n : g[k - 1] \in V => g[k] = f[<<g[k - 1], s[k]>>]
  BY <1>1, <1>3, <1>11
<1>13. IsRun(g, f, V, base, s)
  <2>1. base \in V /\ s \in Seq(X)
    BY DEF V, X
  <2> QED
    BY <1>2, <1>11, <1>12, <2>1, ChainIsRun DEF n
<1> QED
  BY <1>8, <1>11, <1>13 DEF n, f, V, X

(* so that a character more is read after all the others.                   *)
LEMMA ScanOn ==
    ASSUME NEW C, NEW base \in Scans(C), NEW s \in Seq(C)
    PROVE  /\ Scan(base, s) \in Scans(C)
           /\ s = <<>> => Scan(base, s) = base
           /\ \A x \in C : Scan(base, Append(s, x))
                                   = ScanChar(Scan(base, s), x)
<1> DEFINE V == Scans(C)
           X == C
           f == [p \in V \X X |-> ScanChar(p[1], p[2])]
<1>1. PICK g : IsRun(g, f, V, base, s) /\ Scan(base, s) = g[Len(s)]
  BY ScanRun
<1> HIDE DEF V
<1>2. g[Len(s)] \in V /\ (s = <<>> => g[Len(s)] = base)
  BY <1>1 DEF IsRun
<1>3. ASSUME NEW x \in X
      PROVE  Scan(base, Append(s, x)) = ScanChar(Scan(base, s), x)
  <2>1. Append(s, x) \in Seq(X)
    OBVIOUS
  <2>2. PICK h : /\ IsRun(h, f, V, base, Append(s, x))
                 /\ Scan(base, Append(s, x)) = h[Len(Append(s, x))]
    BY <2>1, ScanRun DEF V
  <2>3. f[<<g[Len(s)], x>>] = ScanChar(g[Len(s)], x)
    BY <1>2
  <2>4. h[Len(Append(s, x))] = f[<<g[Len(s)], x>>]
    <3> HIDE DEF f, X
    <3>1. s \in Seq(X)
      BY DEF X
    <3> QED
      BY <1>1, <2>2, <3>1, RunOfMore
  <2> HIDE DEF f
  <2> QED
    BY <1>1, <2>2, <2>3, <2>4
<1> HIDE DEF f, X
<1> QED
  BY <1>1, <1>2, <1>3 DEF V, X

(* What an unquoted character does.                                         *)
LEMMA PlainCharactersAre ==
    ASSUME NEW scan, NEW ch
    PROVE  /\ ch = "'" => ScanPlain(scan, ch) = Enter(scan, "single")
           /\ ch = "\"" => ScanPlain(scan, ch) = Enter(scan, "double")
           /\ ch = "\\" => ScanPlain(scan, ch) = Enter(scan, "escape")
           /\ ch \in Blanks => ScanPlain(scan, ch) = Enter(PushWordToken(scan), "plain")
           /\ ch \in Apart => ScanPlain(scan, ch) = PushOperator(scan, ch)
<1>1. CASE ch = "'"
  <2>1. ch \notin Blanks /\ ch \notin Operators /\ ch # "\"" /\ ch # "\\" /\ ch \notin Apart
    BY <1>1 DEF Blanks, Operators, Apart
  <2> QED
    BY <1>1, <2>1 DEF ScanPlain
<1>2. CASE ch = "\""
  <2>1. ch \notin Blanks /\ ch \notin Operators /\ ch # "'" /\ ch # "\\" /\ ch \notin Apart
    BY <1>2 DEF Blanks, Operators, Apart
  <2> QED
    BY <1>2, <2>1 DEF ScanPlain
<1>3. CASE ch = "\\"
  <2>1. ch \notin Blanks /\ ch \notin Operators /\ ch # "'" /\ ch # "\"" /\ ch \notin Apart
    BY <1>3 DEF Blanks, Operators, Apart
  <2> QED
    BY <1>3, <2>1 DEF ScanPlain
<1>4. CASE ch \in Blanks
  <2>1. ch \notin Operators /\ ch # "'" /\ ch # "\"" /\ ch # "\\" /\ ch \notin Apart
    BY <1>4 DEF Blanks, Operators, Apart
  <2> QED
    BY <1>4, <2>1 DEF ScanPlain
<1>5. CASE ch \in Apart
  <2>1. ch \notin Blanks /\ ch \in Operators /\ ch # "'" /\ ch # "\"" /\ ch # "\\"
    BY <1>5 DEF Blanks, Operators, Apart
  <2> QED
    BY <1>5, <2>1 DEF ScanPlain
<1> QED
  BY <1>1, <1>2, <1>3, <1>4, <1>5

(* What a character does by the tokenizer's mode.                           *)
LEMMA ModesAre ==
    ASSUME NEW scan, NEW ch
    PROVE  /\ scan.mode = "single" =>
                  ScanChar(scan, ch) = IF ch = "'" THEN Enter(scan, "plain") ELSE Keep(scan, ch)
           /\ scan.mode = "double" =>
                  /\ ch = "\"" => ScanChar(scan, ch) = Enter(scan, "plain")
                  /\ ch = "\\" => ScanChar(scan, ch) = Enter(scan, "double escape")
                  /\ ch \notin {"\"", "\\"} => ScanChar(scan, ch) = Keep(scan, ch)
           /\ scan.mode = "double escape" =>
                  ScanChar(scan, ch) = Keep(Enter(scan, "double"), ch)
           /\ scan.mode = "escape" => ScanChar(scan, ch) = Keep(Enter(scan, "plain"), ch)
           /\ scan.mode = "plain" => ScanChar(scan, ch) = ScanPlain(scan, ch)
           /\ scan.mode = "operator" /\ IsRepeat(scan, ch) =>
                  ScanChar(scan, ch) = DoubleOperator(scan, ch)
           /\ scan.mode = "operator" /\ ~IsRepeat(scan, ch) =>
                  ScanChar(scan, ch) = ScanPlain(scan, ch)
<1>1. CASE scan.mode = "single"
  BY <1>1 DEF ScanChar
<1>2. CASE scan.mode = "double"
  <2>1. ch = "\"" => ScanChar(scan, ch) = Enter(scan, "plain")
    BY <1>2 DEF ScanChar
  <2>2. ch = "\\" => ScanChar(scan, ch) = Enter(scan, "double escape")
    BY <1>2 DEF ScanChar
  <2>3. ASSUME ch # "\"", ch # "\\" PROVE ScanChar(scan, ch) = Keep(scan, ch)
    BY <1>2, <2>3 DEF ScanChar
  <2> QED
    BY <1>2, <2>1, <2>2, <2>3
<1>3. CASE scan.mode = "double escape"
  BY <1>3 DEF ScanChar
<1>4. CASE scan.mode = "escape"
  BY <1>4 DEF ScanChar
<1>5. CASE scan.mode = "plain"
  BY <1>5 DEF ScanChar
<1>6. CASE scan.mode = "operator" /\ IsRepeat(scan, ch)
  BY <1>6 DEF ScanChar
<1>7. CASE scan.mode = "operator" /\ ~IsRepeat(scan, ch)
  BY <1>7 DEF ScanChar
<1> QED
  BY <1>1, <1>2, <1>3, <1>4, <1>5, <1>6, <1>7

(* The marks are different characters.                                      *)
LEMMA MarksAre ==
    ASSUME NEW C, Marks \subseteq C
    PROVE  /\ Apostrophe \in C /\ DoubleQuote \in C /\ Backslash \in C
           /\ DoubleQuote # Backslash
BY DEF Marks, Apostrophe, DoubleQuote, Backslash

(* What one more character does to the tokenizer, by its mode.              *)
LEMMA CharactersAre ==
    ASSUME NEW C, Marks \subseteq C, NEW ch \in C, NEW current \in Seq(C),
           NEW tokens \in Seq(Tokens(Seq(C)))
    PROVE  /\ ScanChar(At("single", current, tokens), ch) =
                  IF ch = Apostrophe THEN At("plain", current, tokens)
                  ELSE At("single", Append(current, ch), tokens)
           /\ ScanChar(At("double", current, tokens), ch) =
                  (IF ch = DoubleQuote THEN At("plain", current, tokens)
                   ELSE IF ch = Backslash THEN At(DoubleEscape, current, tokens)
                   ELSE At("double", Append(current, ch), tokens))
           /\ ScanChar(At(DoubleEscape, current, tokens), ch) =
                  At("double", Append(current, ch), tokens)
           /\ ScanChar(At("escape", current, tokens), ch) =
                  At("plain", Append(current, ch), tokens)
           /\ ScanChar(At("plain", current, tokens), Apostrophe) = At("single", current, tokens)
           /\ ScanChar(At("plain", current, tokens), DoubleQuote) = At("double", current, tokens)
           /\ ScanChar(At("plain", current, tokens), Backslash) = At("escape", current, tokens)
<1>1. \A m, n : Enter(At(m, current, tokens), n) = At(n, current, tokens)
  BY DEF Enter, At
<1>2. ASSUME NEW m PROVE Keep(At(m, current, tokens), ch) = At(m, Append(current, ch), tokens)
  <2>1. At(m, current, tokens).current = current
    BY DEF At
  <2>2. PICK more : more = Append(current, ch)
    OBVIOUS
  <2>3. Keep(At(m, current, tokens), ch) = [At(m, current, tokens) EXCEPT !.current = more]
    BY <2>1, <2>2 DEF Keep
  <2>4. Keep(At(m, current, tokens), ch) = At(m, more, tokens)
    BY <2>3 DEF At
  <2> QED
    BY <2>2, <2>4
<1>3. \A m : At(m, current, tokens).mode = m
  BY DEF At
<1> HIDE DEF At
<1>4. /\ ScanChar(At("plain", current, tokens), "'") = At("single", current, tokens)
      /\ ScanChar(At("plain", current, tokens), "\"") = At("double", current, tokens)
      /\ ScanChar(At("plain", current, tokens), "\\") = At("escape", current, tokens)
  <2> DEFINE st == At("plain", current, tokens)
  <2>1. st.mode = "plain"
    BY <1>3
  <2>2. /\ Enter(st, "single") = At("single", current, tokens)
        /\ Enter(st, "double") = At("double", current, tokens)
        /\ Enter(st, "escape") = At("escape", current, tokens)
    BY <1>1
  <2> HIDE DEF st
  <2>3. \A c : ScanChar(st, c) = ScanPlain(st, c)
    BY <2>1, ModesAre
  <2>4. /\ ScanPlain(st, "'") = Enter(st, "single")
        /\ ScanPlain(st, "\"") = Enter(st, "double")
        /\ ScanPlain(st, "\\") = Enter(st, "escape")
    BY PlainCharactersAre
  <2> QED
    BY <2>2, <2>3, <2>4 DEF st
<1>5. ScanChar(At("single", current, tokens), ch) =
          IF ch = "'" THEN At("plain", current, tokens)
          ELSE At("single", Append(current, ch), tokens)
  <2> DEFINE st == At("single", current, tokens)
  <2>1. st.mode = "single" /\ Enter(st, "plain") = At("plain", current, tokens)
        /\ Keep(st, ch) = At("single", Append(current, ch), tokens)
    BY <1>1, <1>2, <1>3
  <2> HIDE DEF st
  <2>2. ScanChar(st, ch) = IF ch = "'" THEN Enter(st, "plain") ELSE Keep(st, ch)
    BY <2>1, ModesAre
  <2> QED
    BY <2>1, <2>2 DEF st
<1>6. ScanChar(At("double", current, tokens), ch) =
          (IF ch = "\"" THEN At("plain", current, tokens)
           ELSE IF ch = "\\" THEN At("double escape", current, tokens)
           ELSE At("double", Append(current, ch), tokens))
  <2> DEFINE st == At("double", current, tokens)
  <2>1. st.mode = "double" /\ Enter(st, "plain") = At("plain", current, tokens)
        /\ Enter(st, "double escape") = At("double escape", current, tokens)
        /\ Keep(st, ch) = At("double", Append(current, ch), tokens)
    BY <1>1, <1>2, <1>3
  <2> HIDE DEF st
  <2>2. /\ ch = "\"" => ScanChar(st, ch) = Enter(st, "plain")
        /\ ch = "\\" => ScanChar(st, ch) = Enter(st, "double escape")
        /\ ch \notin {"\"", "\\"} => ScanChar(st, ch) = Keep(st, ch)
    BY <2>1, ModesAre
  <2> QED
    BY <2>1, <2>2 DEF st
<1>7. ScanChar(At("double escape", current, tokens), ch) = At("double", Append(current, ch), tokens)
  <2> DEFINE st == At("double escape", current, tokens)
  <2>1. st.mode = "double escape" /\ Enter(st, "double") = At("double", current, tokens)
    BY <1>1, <1>3
  <2>2. Keep(At("double", current, tokens), ch) = At("double", Append(current, ch), tokens)
    BY <1>2
  <2> HIDE DEF st
  <2>3. ScanChar(st, ch) = Keep(Enter(st, "double"), ch)
    BY <2>1, ModesAre
  <2> QED
    BY <2>1, <2>2, <2>3 DEF st
<1>8. ScanChar(At("escape", current, tokens), ch) = At("plain", Append(current, ch), tokens)
  <2> DEFINE st == At("escape", current, tokens)
  <2>1. st.mode = "escape" /\ Enter(st, "plain") = At("plain", current, tokens)
    BY <1>1, <1>3
  <2>2. Keep(At("plain", current, tokens), ch) = At("plain", Append(current, ch), tokens)
    BY <1>2
  <2> HIDE DEF st
  <2>3. ScanChar(st, ch) = Keep(Enter(st, "plain"), ch)
    BY <2>1, ModesAre
  <2> QED
    BY <2>1, <2>2, <2>3 DEF st
<1> QED
  BY <1>4, <1>5, <1>6, <1>7, <1>8 DEF Apostrophe, DoubleQuote, Backslash, DoubleEscape

(* The last of a sequence and what stands before it.                         *)
LEMMA LastOfMore ==
    ASSUME NEW T, NEW s \in Seq(T), NEW x \in T
    PROVE  /\ Append(s, x) \in Seq(T)
           /\ Last(Append(s, x)) = x /\ Front(Append(s, x)) = s
<1>a. Append(s, x) \in Seq(T)
  OBVIOUS
<1>1. PICK more \in Seq(T) : more = Append(s, x)
  BY <1>a
<1>2. Len(more) = Len(s) + 1 /\ more[Len(more)] = x /\ Len(s) \in Nat
  BY <1>1
<1>3. SubSeq(Append(s, x), 1, Len(s)) = s
  OBVIOUS
<1>4. SubSeq(more, 1, Len(s)) = s
  BY <1>1, <1>3, Zenon
<1>5. Len(more) - 1 = Len(s)
  BY <1>2
<1> QED
  BY <1>1, <1>2, <1>4, <1>5 DEF Last, Front

(* A blank ends a word, and what stands between commands is an operator,     *)
(* which the same character after it may make a double one.                  *)
LEMMA WordsEnd ==
    ASSUME NEW C, Marks \subseteq C, NEW current \in Seq(C), current # <<>>,
           NEW tokens \in Seq(Tokens(Seq(C)))
    PROVE  LET pushed == Append(tokens, Token("word", current))
           IN /\ PushWordToken(At("plain", current, tokens)) = At("plain", <<>>, pushed)
              /\ \A gap \in Blanks :
                     ScanChar(At("plain", current, tokens), gap) = At("plain", <<>>, pushed)
              /\ \A op \in Apart :
                     ScanChar(At("plain", current, tokens), op)
                         = At(IF op = ";" THEN "plain" ELSE "operator", <<>>,
                              Append(pushed, Token("operator", <<op>>)))
              /\ \A op \in Pairing :
                     ScanChar(ScanChar(At("plain", current, tokens), op), op)
                         = At("plain", <<>>, Append(pushed, Token("operator", <<op, op>>)))
<1> DEFINE pushed == Append(tokens, Token("word", current))
           none == <<>>
           one(op) == Token("operator", <<op>>)
           two(op) == Token("operator", <<op, op>>)
           scan == At("plain", current, tokens)
<1>1. PushWordToken(scan) = At("plain", none, pushed)
  <2>1. scan.current = current /\ scan.tokens = tokens /\ scan.mode = "plain"
    BY DEF At
  <2>2. PushWordToken(scan) = [scan EXCEPT !.current = none, !.tokens = pushed]
    BY <2>1 DEF PushWordToken
  <2> HIDE DEF none, pushed
  <2> QED
    BY <2>2 DEF At
<1>2. none \in Seq(C) /\ pushed \in Seq(Tokens(Seq(C)))
      /\ \A op \in Apart : one(op) \in Tokens(Seq(C))
  <2>1. Token("word", current) \in Tokens(Seq(C))
    BY DEF Token, Tokens
  <2>3. PICK word \in Tokens(Seq(C)) : word = Token("word", current)
    BY <2>1
  <2>4. Append(tokens, word) \in Seq(Tokens(Seq(C)))
    OBVIOUS
  <2>5. ASSUME NEW op \in Apart PROVE one(op) \in Tokens(Seq(C))
    <3>1. op \in C
      BY DEF Marks, Apart
    <3>2. <<op>> \in Seq(C)
      BY <3>1
    <3> QED
      BY <3>2 DEF Token, Tokens
  <2> QED
    BY <2>3, <2>4, <2>5
<1>3. ASSUME NEW gap \in Blanks PROVE ScanChar(scan, gap) = At("plain", none, pushed)
  <2>1. scan.mode = "plain"
    BY DEF At
  <2>2. ScanChar(scan, gap) = ScanPlain(scan, gap)
        /\ ScanPlain(scan, gap) = Enter(PushWordToken(scan), "plain")
    BY <2>1, ModesAre, PlainCharactersAre
  <2> HIDE DEF none, pushed, scan
  <2>3. Enter(At("plain", none, pushed), "plain") = At("plain", none, pushed)
    BY DEF Enter, At
  <2> QED
    BY <1>1, <2>1, <2>2, <2>3
<1> DEFINE mode(op) == IF op = ";" THEN "plain" ELSE "operator"
<1>4. ASSUME NEW op \in Apart
      PROVE  ScanChar(scan, op) = At(mode(op), none, Append(pushed, one(op)))
  <2>1. scan.mode = "plain"
    BY DEF At
  <2>2. ScanChar(scan, op) = ScanPlain(scan, op)
        /\ ScanPlain(scan, op) = PushOperator(scan, op)
    BY <2>1, ModesAre, PlainCharactersAre
  <2>a. op \in Doubled <=> op # ";"
    BY DEF Apart, Doubled
  <2>3. PushOperator(scan, op) = [PushWordToken(scan) EXCEPT
            !.mode = mode(op), !.tokens = Append(@, one(op))]
    BY <2>a DEF PushOperator
  <2> HIDE DEF none, pushed, scan, one, mode
  <2>4. PICK more : more = Append(pushed, one(op))
    OBVIOUS
  <2>5. At("plain", none, pushed).tokens = pushed
    BY DEF At
  <2>6. PushOperator(scan, op) = [At("plain", none, pushed) EXCEPT
            !.mode = mode(op), !.tokens = more]
    BY <1>1, <2>3, <2>4, <2>5
  <2>7. PushOperator(scan, op) = At(mode(op), none, more)
    BY <2>6 DEF At
  <2> QED
    BY <2>1, <2>2, <2>4, <2>7
<1>5. ASSUME NEW op \in Pairing
      PROVE  ScanChar(At("operator", none, Append(pushed, one(op))), op)
                 = At("plain", none, Append(pushed, two(op)))
  <2>1. one(op).text = <<op>>
    BY DEF Token
  <2> HIDE DEF one, pushed, none
  <2>3. PICK more : /\ more = Append(pushed, one(op))
                    /\ Last(more) = one(op) /\ Front(more) = pushed
    <3>1. op \in Apart
      BY DEF Pairing
    <3> QED
      BY <1>2, <3>1, LastOfMore
  <2> DEFINE st == At("operator", none, more)
  <2>4. st.tokens = more /\ st.mode = "operator"
    BY DEF At
  <2>5. IsRepeat(st, op)
    BY <2>1, <2>3, <2>4 DEF IsRepeat
  <2>6. ScanChar(st, op) = DoubleOperator(st, op)
    <3> HIDE DEF st
    <3> QED
      BY <2>4, <2>5, ModesAre
  <2>7. PICK now : now = Append(pushed, two(op))
    OBVIOUS
  <2>8. DoubleOperator(st, op) = [st EXCEPT !.mode = "plain", !.tokens = now]
    BY <2>3, <2>4, <2>7 DEF DoubleOperator
  <2>9. DoubleOperator(st, op) = At("plain", none, now)
    BY <2>8 DEF At
  <2> HIDE DEF st
  <2> QED
    BY <2>3, <2>6, <2>7, <2>9 DEF st
<1>6. ASSUME NEW op \in Pairing
      PROVE  ScanChar(ScanChar(scan, op), op) = At("plain", none, Append(pushed, two(op)))
  <2>1. op \in Apart /\ mode(op) = "operator"
    BY <1>6 DEF Pairing
  <2> HIDE DEF scan, one, two, none, pushed, mode
  <2> QED
    BY <1>4, <1>5, <2>1
<1> HIDE DEF scan
<1> QED
  BY <1>1, <1>3, <1>4, <1>6 DEF scan

(* Quoting a character more gives a text.                                   *)
LEMMA EscapeCharIs ==
    ASSUME NEW C, "\\" \in C, NEW text \in Seq(C), NEW ch \in C
    PROVE  EscapeChar(text, ch) \in Seq(C) /\ QuoteChar(text, ch) \in Seq(C)
<1>1. PICK back \in C : back = "\\"
  OBVIOUS
<1>2. text \o <<back, ch>> \in Seq(C) /\ Append(text, ch) \in Seq(C)
  OBVIOUS
<1>3. EscapeChar(text, ch) \in Seq(C)
  BY <1>1, <1>2 DEF EscapeChar
<1> QED
  BY <1>2, <1>3 DEF QuoteChar

NoText == <<>>

(* An escaped word is put together one character after the other,            *)
LEMMA EscapeRun ==
    ASSUME NEW C, "\\" \in C, NEW base \in Seq(C), base = NoText, NEW s \in Seq(C)
    PROVE  \E g : /\ IsRun(g, [p \in Seq(C) \X C |-> EscapeChar(p[1], p[2])], Seq(C), base, s)
                  /\ Escaped(s) = g[Len(s)]
<1> DEFINE n == Len(s)
           V == Seq(C)
           X == C
           f == [p \in V \X X |-> EscapeChar(p[1], p[2])]
           step == [p \in V \X (1..n) |-> f[<<p[1], s[p[2]]>>]]
           F(d) == [t \in SUBSET DOMAIN s |->
                       IF t = {} THEN base ELSE EscapeChar(d[t \ {Max(t)}], s[Max(t)])]
           c == CHOOSE d : d = F(d)
<1>1. n \in Nat /\ DOMAIN s = 1..n /\ \A i \in 1..n : s[i] \in X
  OBVIOUS
<1>2. f \in [V \X X -> V]
  BY EscapeCharIs
<1> HIDE DEF V, X
<1>3. \A v \in V, x \in X : f[<<v, x>>] = EscapeChar(v, x)
  OBVIOUS
<1> HIDE DEF f, n
<1>4. step \in [V \X (1..n) -> V]
  BY <1>1, <1>2
<1>5. PICK h \in [SUBSET (1..n) -> V] : IsFold(h, n, base, step)
  <2>1. base \in V
    BY DEF V
  <2> HIDE DEF step
  <2> QED
    BY <1>1, <1>4, <2>1, FoldExists
<1>6. h = F(h)
  <2>1. ASSUME NEW t \in SUBSET (1..n), t # {}
        PROVE  step[<<h[t \ {Max(t)}], Max(t)>>] = EscapeChar(h[t \ {Max(t)}], s[Max(t)])
    <3>1. Max(t) \in 1..n /\ t \ {Max(t)} \in SUBSET (1..n)
      BY <1>1, <2>1, MaxOfSome
    <3>2. h[t \ {Max(t)}] \in V /\ s[Max(t)] \in X
      BY <1>1, <1>5, <3>1
    <3> QED
      BY <1>3, <3>1, <3>2
  <2>2. h = [t \in SUBSET (1..n) |->
               IF t = {} THEN base ELSE step[<<h[t \ {Max(t)}], Max(t)>>]]
    BY <1>5 DEF IsFold
  <2> HIDE DEF step
  <2> QED
    BY <1>1, <2>1, <2>2
<1>7. c = F(c)
  <2> HIDE DEF F
  <2> QED
    BY <1>6
<1>8. Escaped(s) = c[DOMAIN s]
  BY DEF Escaped, FoldLeft, MapThenFoldSet, NoText
<1> HIDE DEF c, step
<1> DEFINE g == [k \in 0..n |-> c[1..k]]
<1>9. c[1..0] = base
  <2>1. 1..0 = {} /\ (1..0) \in SUBSET DOMAIN s
    OBVIOUS
  <2> QED
    BY <1>7, <2>1
<1>10. ASSUME NEW k \in 1..n PROVE c[1..k] = EscapeChar(c[1..(k - 1)], s[k])
  <2>1. Max(1..k) = k /\ (1..k) \ {k} = 1..(k - 1) /\ 1..k # {}
    <3>1. k \in Nat /\ k # 0
      BY <1>1
    <3> QED
      BY <3>1, MaxOfAll
  <2>2. (1..k) \in SUBSET DOMAIN s
    BY <1>1
  <2> QED
    BY <1>7, <2>1, <2>2
<1>11. /\ g[0] = base /\ g[n] = c[DOMAIN s] /\ g = [k \in 0..n |-> g[k]]
       /\ \A k \in 1..n : g[k] = EscapeChar(g[k - 1], s[k])
  BY <1>1, <1>9, <1>10
<1> HIDE DEF g
<1>12. \A k \in 1..n : g[k - 1] \in V => g[k] = f[<<g[k - 1], s[k]>>]
  BY <1>1, <1>3, <1>11
<1>13. IsRun(g, f, V, base, s)
  <2>1. s \in Seq(X) /\ g[0] \in V
    BY <1>11 DEF V, X
  <2>2. IsRun(g, f, V, g[0], s)
    BY <1>2, <1>11, <1>12, <2>1, ChainIsRun DEF n
  <2> QED
    BY <1>11, <2>2
<1> QED
  BY <1>8, <1>11, <1>13 DEF n, f, V, X

(* each of them with its backslash.                                          *)
LEMMA EscapeStep ==
    ASSUME NEW C, "\\" \in C, NEW base \in Seq(C), base = NoText, NEW s \in Seq(C)
    PROVE  /\ Escaped(s) \in Seq(C)
           /\ s = <<>> => Escaped(s) = base
           /\ \A x \in C : Escaped(Append(s, x))
                                   = EscapeChar(Escaped(s), x)
<1> DEFINE V == Seq(C)
           X == C
           f == [p \in V \X X |-> EscapeChar(p[1], p[2])]
<1>1. PICK g : IsRun(g, f, V, base, s) /\ Escaped(s) = g[Len(s)]
  BY EscapeRun
<1> HIDE DEF V
<1>2. g[Len(s)] \in V /\ (s = <<>> => g[Len(s)] = base)
  BY <1>1 DEF IsRun
<1>3. ASSUME NEW x \in X
      PROVE  Escaped(Append(s, x)) = EscapeChar(Escaped(s), x)
  <2>1. Append(s, x) \in Seq(X)
    OBVIOUS
  <2>2. PICK h : /\ IsRun(h, f, V, base, Append(s, x))
                 /\ Escaped(Append(s, x)) = h[Len(Append(s, x))]
    BY <2>1, EscapeRun DEF V
  <2>3. f[<<g[Len(s)], x>>] = EscapeChar(g[Len(s)], x)
    BY <1>2
  <2>4. h[Len(Append(s, x))] = f[<<g[Len(s)], x>>]
    <3> HIDE DEF f, X
    <3>1. s \in Seq(X)
      BY DEF X
    <3> QED
      BY <1>1, <2>2, <3>1, RunOfMore
  <2> HIDE DEF f
  <2> QED
    BY <1>1, <2>2, <2>3, <2>4
<1> HIDE DEF f, X
<1> QED
  BY <1>1, <1>2, <1>3 DEF V, X

\* A word in double quotes but for the closing one.
OpeningQuote == <<"\"">>
Opened(u) == FoldLeft(QuoteChar, <<"\"">>, u)

(* A word in double quotes is put together one character after the other,    *)
LEMMA QuoteRun ==
    ASSUME NEW C, "\\" \in C, NEW base \in Seq(C), base = OpeningQuote, NEW s \in Seq(C)
    PROVE  \E g : /\ IsRun(g, [p \in Seq(C) \X C |-> QuoteChar(p[1], p[2])], Seq(C), base, s)
                  /\ Opened(s) = g[Len(s)]
<1> DEFINE n == Len(s)
           V == Seq(C)
           X == C
           f == [p \in V \X X |-> QuoteChar(p[1], p[2])]
           step == [p \in V \X (1..n) |-> f[<<p[1], s[p[2]]>>]]
           F(d) == [t \in SUBSET DOMAIN s |->
                       IF t = {} THEN base ELSE QuoteChar(d[t \ {Max(t)}], s[Max(t)])]
           c == CHOOSE d : d = F(d)
<1>1. n \in Nat /\ DOMAIN s = 1..n /\ \A i \in 1..n : s[i] \in X
  OBVIOUS
<1>2. f \in [V \X X -> V]
  BY EscapeCharIs
<1> HIDE DEF V, X
<1>3. \A v \in V, x \in X : f[<<v, x>>] = QuoteChar(v, x)
  OBVIOUS
<1> HIDE DEF f, n
<1>4. step \in [V \X (1..n) -> V]
  BY <1>1, <1>2
<1>5. PICK h \in [SUBSET (1..n) -> V] : IsFold(h, n, base, step)
  <2>1. base \in V
    BY DEF V
  <2> HIDE DEF step
  <2> QED
    BY <1>1, <1>4, <2>1, FoldExists
<1>6. h = F(h)
  <2>1. ASSUME NEW t \in SUBSET (1..n), t # {}
        PROVE  step[<<h[t \ {Max(t)}], Max(t)>>] = QuoteChar(h[t \ {Max(t)}], s[Max(t)])
    <3>1. Max(t) \in 1..n /\ t \ {Max(t)} \in SUBSET (1..n)
      BY <1>1, <2>1, MaxOfSome
    <3>2. h[t \ {Max(t)}] \in V /\ s[Max(t)] \in X
      BY <1>1, <1>5, <3>1
    <3> QED
      BY <1>3, <3>1, <3>2
  <2>2. h = [t \in SUBSET (1..n) |->
               IF t = {} THEN base ELSE step[<<h[t \ {Max(t)}], Max(t)>>]]
    BY <1>5 DEF IsFold
  <2> HIDE DEF step
  <2> QED
    BY <1>1, <2>1, <2>2
<1>7. c = F(c)
  <2> HIDE DEF F
  <2> QED
    BY <1>6
<1>8. Opened(s) = c[DOMAIN s]
  BY DEF Opened, FoldLeft, MapThenFoldSet, OpeningQuote
<1> HIDE DEF c, step
<1> DEFINE g == [k \in 0..n |-> c[1..k]]
<1>9. c[1..0] = base
  <2>1. 1..0 = {} /\ (1..0) \in SUBSET DOMAIN s
    OBVIOUS
  <2> QED
    BY <1>7, <2>1
<1>10. ASSUME NEW k \in 1..n PROVE c[1..k] = QuoteChar(c[1..(k - 1)], s[k])
  <2>1. Max(1..k) = k /\ (1..k) \ {k} = 1..(k - 1) /\ 1..k # {}
    <3>1. k \in Nat /\ k # 0
      BY <1>1
    <3> QED
      BY <3>1, MaxOfAll
  <2>2. (1..k) \in SUBSET DOMAIN s
    BY <1>1
  <2> QED
    BY <1>7, <2>1, <2>2
<1>11. /\ g[0] = base /\ g[n] = c[DOMAIN s] /\ g = [k \in 0..n |-> g[k]]
       /\ \A k \in 1..n : g[k] = QuoteChar(g[k - 1], s[k])
  BY <1>1, <1>9, <1>10
<1> HIDE DEF g
<1>12. \A k \in 1..n : g[k - 1] \in V => g[k] = f[<<g[k - 1], s[k]>>]
  BY <1>1, <1>3, <1>11
<1>13. IsRun(g, f, V, base, s)
  <2>1. s \in Seq(X) /\ g[0] \in V
    BY <1>11 DEF V, X
  <2>2. IsRun(g, f, V, g[0], s)
    BY <1>2, <1>11, <1>12, <2>1, ChainIsRun DEF n
  <2> QED
    BY <1>11, <2>2
<1> QED
  BY <1>8, <1>11, <1>13 DEF n, f, V, X

(* with a backslash where it needs one.                                      *)
LEMMA QuoteStep ==
    ASSUME NEW C, "\\" \in C, NEW base \in Seq(C), base = OpeningQuote, NEW s \in Seq(C)
    PROVE  /\ Opened(s) \in Seq(C)
           /\ s = <<>> => Opened(s) = base
           /\ \A x \in C : Opened(Append(s, x))
                                   = QuoteChar(Opened(s), x)
<1> DEFINE V == Seq(C)
           X == C
           f == [p \in V \X X |-> QuoteChar(p[1], p[2])]
<1>1. PICK g : IsRun(g, f, V, base, s) /\ Opened(s) = g[Len(s)]
  BY QuoteRun
<1> HIDE DEF V
<1>2. g[Len(s)] \in V /\ (s = <<>> => g[Len(s)] = base)
  BY <1>1 DEF IsRun
<1>3. ASSUME NEW x \in X
      PROVE  Opened(Append(s, x)) = QuoteChar(Opened(s), x)
  <2>1. Append(s, x) \in Seq(X)
    OBVIOUS
  <2>2. PICK h : /\ IsRun(h, f, V, base, Append(s, x))
                 /\ Opened(Append(s, x)) = h[Len(Append(s, x))]
    BY <2>1, QuoteRun DEF V
  <2>3. f[<<g[Len(s)], x>>] = QuoteChar(g[Len(s)], x)
    BY <1>2
  <2>4. h[Len(Append(s, x))] = f[<<g[Len(s)], x>>]
    <3> HIDE DEF f, X
    <3>1. s \in Seq(X)
      BY DEF X
    <3> QED
      BY <1>1, <2>2, <3>1, RunOfMore
  <2> HIDE DEF f
  <2> QED
    BY <1>1, <2>2, <2>3, <2>4
<1> HIDE DEF f, X
<1> QED
  BY <1>1, <1>2, <1>3 DEF V, X

(* A scanner put together from its parts is one.                            *)
LEMMA AtIs ==
    ASSUME NEW C, NEW current \in Seq(C), NEW tokens \in Seq(Tokens(Seq(C))),
           NEW mode \in {"plain", "single", "double", "double escape", "escape", "operator"}
    PROVE  At(mode, current, tokens) \in Scans(C)
BY DEF At, Scans

(* Reading two texts is reading the second where the first has led.         *)
LEMMA ScanTwo ==
    ASSUME NEW C, NEW scan \in Scans(C), NEW s \in Seq(C), NEW u \in Seq(C)
    PROVE  Scan(scan, s \o u) = Scan(Scan(scan, s), u)
<1> DEFINE mid == Scan(scan, s)
           P == {v \in Seq(C) : Scan(scan, s \o v) = Scan(mid, v)}
<1>1. mid \in Scans(C)
  BY ScanOn
<1> HIDE DEF mid
<1>2. /\ \A v \in Seq(C) : v = <<>> => Scan(mid, v) = mid
      /\ \A v \in Seq(C) : \A x \in C : Scan(mid, Append(v, x)) = ScanChar(Scan(mid, v), x)
  BY <1>1, ScanOn
<1>3. \A v \in Seq(C) : \A x \in C : Scan(scan, Append(v, x)) = ScanChar(Scan(scan, v), x)
  BY ScanOn
<1>4. <<>> \in P
  <2>1. <<>> \in Seq(C) /\ s \o <<>> = s
    OBVIOUS
  <2>2. Scan(mid, <<>>) = mid
    BY <1>2, <2>1
  <2> QED
    BY <2>1, <2>2 DEF mid
<1>5. ASSUME NEW v \in Seq(C), v \in P, NEW x \in C PROVE Append(v, x) \in P
  <2>1. /\ Append(v, x) \in Seq(C) /\ s \o v \in Seq(C)
        /\ s \o Append(v, x) = Append(s \o v, x)
    OBVIOUS
  <2>2. Scan(scan, Append(s \o v, x)) = ScanChar(Scan(scan, s \o v), x)
    BY <1>3, <2>1
  <2>3. Scan(scan, s \o v) = Scan(mid, v)
    BY <1>5
  <2>4. Scan(scan, s \o Append(v, x)) = Scan(mid, Append(v, x))
    BY <1>2, <2>1, <2>2, <2>3
  <2> QED
    BY <2>1, <2>4
<1>6. Seq(C) \subseteq P
  <2> HIDE DEF P
  <2> QED
    BY <1>4, <1>5, EverySequence
<1> QED
  BY <1>6 DEF mid

(* Reading one character more of a text,                                     *)
LEMMA ScanOne ==
    ASSUME NEW C, NEW scan \in Scans(C), NEW s \in Seq(C), NEW x \in C
    PROVE  /\ Append(s, x) \in Seq(C)
           /\ Scan(scan, Append(s, x)) = ScanChar(Scan(scan, s), x)
<1>1. \A c \in C : Scan(scan, Append(s, c)) = ScanChar(Scan(scan, s), c)
  BY ScanOn
<1>2. Append(s, x) \in Seq(C)
  OBVIOUS
<1> QED
  BY <1>1, <1>2

(* and two.                                                                 *)
LEMMA ScanPair ==
    ASSUME NEW C, NEW scan \in Scans(C), NEW s \in Seq(C), NEW x \in C, NEW y \in C
    PROVE  /\ s \o <<x, y>> \in Seq(C)
           /\ Scan(scan, s \o <<x, y>>) = ScanChar(ScanChar(Scan(scan, s), x), y)
<1>1. /\ Append(s, x) \in Seq(C) /\ s \o <<x, y>> = Append(Append(s, x), y)
      /\ Append(Append(s, x), y) \in Seq(C)
  OBVIOUS
<1>2. Scan(scan, Append(s, x)) = ScanChar(Scan(scan, s), x)
  BY ScanOne
<1>3. PICK t \in Seq(C) : t = Append(s, x)
  BY <1>1
<1>4. Scan(scan, Append(t, y)) = ScanChar(Scan(scan, t), y)
  BY ScanOne
<1> QED
  BY <1>1, <1>2, <1>3, <1>4

(* Escaping nothing, and one character more.                                *)
LEMMA EscapedOn ==
    ASSUME NEW C, Backslash \in C, NEW u \in Seq(C)
    PROVE  /\ Escaped(u) \in Seq(C)
           /\ u = <<>> => Escaped(u) = <<>>
           /\ \A x \in C : Escaped(Append(u, x)) = Escaped(u) \o <<Backslash, x>>
<1>1. NoText \in Seq(C)
  BY DEF NoText
<1>2. /\ Escaped(u) \in Seq(C)
      /\ u = <<>> => Escaped(u) = NoText
      /\ \A x \in C : Escaped(Append(u, x)) = EscapeChar(Escaped(u), x)
  BY <1>1, EscapeStep DEF Backslash
<1> QED
  BY <1>2 DEF EscapeChar, NoText, Backslash

(* Quoting nothing, and one character more.                                 *)
LEMMA OpenedOn ==
    ASSUME NEW C, Marks \subseteq C, NEW u \in Seq(C)
    PROVE  /\ Opened(u) \in Seq(C)
           /\ u = <<>> => Opened(u) = <<DoubleQuote>>
           /\ \A x \in C : Opened(Append(u, x)) =
                  IF x \in {DoubleQuote, Backslash} THEN Opened(u) \o <<Backslash, x>> ELSE Append(Opened(u), x)
<1>1. OpeningQuote \in Seq(C) /\ Backslash \in C
  <2>1. OpeningQuote = <<DoubleQuote>>
    BY DEF OpeningQuote, DoubleQuote
  <2> QED
    BY <2>1, MarksAre
<1>2. /\ Opened(u) \in Seq(C)
      /\ u = <<>> => Opened(u) = OpeningQuote
      /\ \A x \in C : Opened(Append(u, x)) = QuoteChar(Opened(u), x)
  BY <1>1, QuoteStep DEF Backslash
<1> QED
  BY <1>2 DEF QuoteChar, EscapeChar, OpeningQuote, DoubleQuote, Backslash

(* A word with every character escaped is read as it stands,                *)
LEMMA EscapedIsRead ==
    ASSUME NEW C, Marks \subseteq C, NEW current \in Seq(C),
           NEW tokens \in Seq(Tokens(Seq(C))), NEW word \in Seq(C)
    PROVE  /\ Escaped(word) \in Seq(C)
           /\ Scan(At("plain", current, tokens), Escaped(word))
                  = At("plain", current \o word, tokens)
<1> DEFINE scan == At("plain", current, tokens)
           Right(u) == /\ Escaped(u) \in Seq(C)
                       /\ Scan(scan, Escaped(u)) = At("plain", current \o u, tokens)
           P == {u \in Seq(C) : Right(u)}
<1>1. scan \in Scans(C) /\ Backslash \in C
  BY AtIs, MarksAre
<1>2. <<>> \in Seq(C)
  OBVIOUS
<1>3. <<>> \in P
  <2>1. Escaped(<<>>) = <<>>
    BY <1>1, <1>2, EscapedOn
  <2>3. current \o <<>> = current
    OBVIOUS
  <2>2. Scan(scan, <<>>) = scan
    <3> HIDE DEF scan
    <3> QED
      BY <1>1, <1>2, ScanOn
  <2> HIDE DEF scan
  <2> QED
    BY <1>2, <2>1, <2>2, <2>3 DEF scan
<1>4. ASSUME NEW u \in Seq(C), u \in P, NEW x \in C PROVE Append(u, x) \in P
  <2>1. /\ Append(u, x) \in Seq(C) /\ current \o u \in Seq(C)
        /\ current \o Append(u, x) = Append(current \o u, x)
    OBVIOUS
  <2>2. Escaped(u) \in Seq(C) /\ Scan(scan, Escaped(u)) = At("plain", current \o u, tokens)
    BY <1>4
  <2>3. Escaped(Append(u, x)) = Escaped(u) \o <<Backslash, x>>
    BY <1>1, EscapedOn
  <2>4. /\ Escaped(Append(u, x)) \in Seq(C)
        /\ Scan(scan, Escaped(Append(u, x))) = ScanChar(ScanChar(Scan(scan, Escaped(u)), Backslash), x)
    <3> HIDE DEF scan
    <3> QED
      BY <1>1, <2>2, <2>3, ScanPair
  <2>5. PICK now \in Seq(C) : now = current \o u
    BY <2>1
  <2>6. /\ ScanChar(At("plain", now, tokens), Backslash) = At("escape", now, tokens)
        /\ ScanChar(At("escape", now, tokens), x) = At("plain", Append(now, x), tokens)
    BY CharactersAre
  <2>7. Scan(scan, Escaped(Append(u, x))) = At("plain", current \o Append(u, x), tokens)
    BY <2>1, <2>2, <2>4, <2>5, <2>6
  <2> QED
    BY <2>1, <2>4, <2>7
<1>5. Seq(C) \subseteq P
  <2> HIDE DEF P
  <2> QED
    BY <1>3, <1>4, EverySequence
<1> QED
  BY <1>5

(* and so is one in double quotes                                           *)
LEMMA DoubleIsRead ==
    ASSUME NEW C, Marks \subseteq C, NEW current \in Seq(C),
           NEW tokens \in Seq(Tokens(Seq(C))), NEW word \in Seq(C)
    PROVE  /\ InDouble(word) \in Seq(C)
           /\ Scan(At("plain", current, tokens), InDouble(word))
                  = At("plain", current \o word, tokens)
<1> DEFINE scan == At("plain", current, tokens)
           Right(u) == /\ Opened(u) \in Seq(C)
                       /\ Scan(scan, Opened(u)) = At("double", current \o u, tokens)
           P == {u \in Seq(C) : Right(u)}
<1>1. scan \in Scans(C) /\ Backslash \in C /\ DoubleQuote \in C /\ DoubleQuote # Backslash
  BY AtIs, MarksAre
<1>2. <<>> \in Seq(C) /\ <<DoubleQuote>> = Append(<<>>, DoubleQuote)
  OBVIOUS
<1>4. <<>> \in P
  <2>5. Opened(<<>>) = <<DoubleQuote>> /\ Opened(<<>>) \in Seq(C)
    BY <1>2, OpenedOn
  <2>6. current \o <<>> = current
    OBVIOUS
  <2>1. Opened(<<>>) = Append(<<>>, DoubleQuote) /\ Opened(<<>>) \in Seq(C) /\ current \o <<>> = current
    BY <1>2, <2>5, <2>6
  <2>2. Scan(scan, <<>>) = scan
    <3> HIDE DEF scan
    <3> QED
      BY <1>1, <1>2, ScanOn
  <2>3. Scan(scan, Append(<<>>, DoubleQuote)) = ScanChar(scan, DoubleQuote)
    <3> HIDE DEF scan
    <3>1. \A x \in C : Scan(scan, Append(<<>>, x)) = ScanChar(Scan(scan, <<>>), x)
      BY <1>1, <1>2, ScanOn
    <3> QED
      BY <1>1, <2>2, <3>1
  <2>4. ScanChar(scan, DoubleQuote) = At("double", current, tokens)
    BY <1>1, CharactersAre
  <2> HIDE DEF scan
  <2> QED
    BY <1>2, <2>1, <2>3, <2>4
<1>5. ASSUME NEW u \in Seq(C), u \in P, NEW x \in C PROVE Append(u, x) \in P
  <2>1. /\ Append(u, x) \in Seq(C) /\ current \o u \in Seq(C)
        /\ current \o Append(u, x) = Append(current \o u, x)
    OBVIOUS
  <2>2. Opened(u) \in Seq(C) /\ Scan(scan, Opened(u)) = At("double", current \o u, tokens)
    BY <1>5
  <2>3. Opened(Append(u, x)) = IF x \in {DoubleQuote, Backslash} THEN Opened(u) \o <<Backslash, x>>
                             ELSE Append(Opened(u), x)
    BY OpenedOn
  <2>8. PICK now \in Seq(C) : now = current \o u
    BY <2>1
  <2>4. /\ ScanChar(At("double", now, tokens), Backslash) = At(DoubleEscape, now, tokens)
        /\ ScanChar(At(DoubleEscape, now, tokens), x) = At("double", Append(now, x), tokens)
        /\ x \notin {DoubleQuote, Backslash} =>
               ScanChar(At("double", now, tokens), x) = At("double", Append(now, x), tokens)
    <3>1. /\ ScanChar(At(DoubleEscape, now, tokens), x) = At("double", Append(now, x), tokens)
          /\ x \notin {DoubleQuote, Backslash} =>
               ScanChar(At("double", now, tokens), x) = At("double", Append(now, x), tokens)
      BY <1>1, CharactersAre
    <3>2. ScanChar(At("double", now, tokens), Backslash) = At(DoubleEscape, now, tokens)
      <4>1. PICK back \in C : back = Backslash /\ back # DoubleQuote
        BY <1>1
      <4>2. ScanChar(At("double", now, tokens), back) = At(DoubleEscape, now, tokens)
        BY <4>1, CharactersAre
      <4> QED
        BY <4>1, <4>2
    <3> QED
      BY <3>1, <3>2
  <2> HIDE DEF scan
  <2>5. /\ Append(Opened(u), x) \in Seq(C) /\ Opened(u) \o <<Backslash, x>> \in Seq(C)
        /\ Scan(scan, Append(Opened(u), x)) = ScanChar(Scan(scan, Opened(u)), x)
        /\ Scan(scan, Opened(u) \o <<Backslash, x>>)
               = ScanChar(ScanChar(Scan(scan, Opened(u)), Backslash), x)
    BY <1>1, <2>2, ScanOne, ScanPair
  <2>6. CASE x \in {DoubleQuote, Backslash}
    <3>1. Scan(scan, Opened(Append(u, x))) = At("double", current \o Append(u, x), tokens)
      BY <2>1, <2>2, <2>3, <2>4, <2>5, <2>6, <2>8
    <3> QED
      BY <2>1, <2>3, <2>5, <2>6, <3>1
  <2>7. CASE x \notin {DoubleQuote, Backslash}
    <3>1. Scan(scan, Opened(Append(u, x))) = At("double", current \o Append(u, x), tokens)
      BY <2>1, <2>2, <2>3, <2>4, <2>5, <2>7, <2>8
    <3> QED
      BY <2>1, <2>3, <2>5, <2>7, <3>1
  <2> QED
    BY <2>6, <2>7
<1>6. Seq(C) \subseteq P
  <2> HIDE DEF P
  <2> QED
    BY <1>4, <1>5, EverySequence
<1>7. Opened(word) \in Seq(C) /\ Scan(scan, Opened(word)) = At("double", current \o word, tokens)
  BY <1>6
<1>8. InDouble(word) = Append(Opened(word), DoubleQuote)
  BY DEF InDouble, Opened, DoubleQuote
<1> HIDE DEF scan
<1>9. Scan(scan, InDouble(word)) = ScanChar(Scan(scan, Opened(word)), DoubleQuote)
      /\ InDouble(word) \in Seq(C)
  <2>1. /\ Append(Opened(word), DoubleQuote) \in Seq(C)
        /\ Scan(scan, Append(Opened(word), DoubleQuote))
               = ScanChar(Scan(scan, Opened(word)), DoubleQuote)
    BY <1>1, <1>7, ScanOne
  <2> QED
    BY <1>8, <2>1
<1>12. current \o word \in Seq(C)
  OBVIOUS
<1>10. PICK now \in Seq(C) : now = current \o word
  BY <1>12
<1>11. ScanChar(At("double", now, tokens), DoubleQuote) = At("plain", now, tokens)
  BY <1>1, CharactersAre
<1> QED
  BY <1>7, <1>9, <1>10, <1>11 DEF scan

(* or, if it has none itself, in single quotes.                             *)
LEMMA SingleIsRead ==
    ASSUME NEW C, Marks \subseteq C, NEW current \in Seq(C),
           NEW tokens \in Seq(Tokens(Seq(C))), NEW word \in Seq(C \ {Apostrophe})
    PROVE  /\ InSingle(word) \in Seq(C)
           /\ Scan(At("plain", current, tokens), InSingle(word))
                  = At("plain", current \o word, tokens)
<1> DEFINE scan == At("plain", current, tokens)
           open == <<Apostrophe>>
           D == C \ {Apostrophe}
           Right(u) == Scan(scan, open \o u) = At("single", current \o u, tokens)
           P == {u \in Seq(D) : Right(u)}
<1>1. scan \in Scans(C) /\ Apostrophe \in C
  BY AtIs, MarksAre
<1>2. open \in Seq(C) /\ <<>> \in Seq(C) /\ open = Append(<<>>, Apostrophe)
  <2>1. PICK ch \in C : ch = Apostrophe
    BY <1>1
  <2>2. <<ch>> \in Seq(C) /\ <<ch>> = Append(<<>>, ch) /\ <<>> \in Seq(C)
    OBVIOUS
  <2> QED
    BY <2>1, <2>2
<1>3. <<>> \in P
  <2>1. <<>> \in Seq(D) /\ current \o <<>> = current /\ open \o <<>> = open
    OBVIOUS
  <2>2. Scan(scan, <<>>) = scan
    <3> HIDE DEF scan
    <3> QED
      BY <1>1, <1>2, ScanOn
  <2>3. Scan(scan, open) = ScanChar(scan, Apostrophe)
    <3> HIDE DEF scan
    <3>1. \A x \in C : Scan(scan, Append(<<>>, x)) = ScanChar(Scan(scan, <<>>), x)
      BY <1>1, <1>2, ScanOn
    <3> HIDE DEF open
    <3> QED
      BY <1>1, <1>2, <2>2, <3>1
  <2>4. ScanChar(scan, Apostrophe) = At("single", current, tokens)
    BY <1>1, CharactersAre
  <2> HIDE DEF scan, open, D
  <2> QED
    BY <2>1, <2>3, <2>4
<1>4. ASSUME NEW u \in Seq(D), u \in P, NEW x \in D PROVE Append(u, x) \in P
  <2> HIDE DEF open
  <2>1. /\ Append(u, x) \in Seq(D) /\ current \o u \in Seq(C) /\ open \o u \in Seq(C)
        /\ current \o Append(u, x) = Append(current \o u, x)
        /\ open \o Append(u, x) = Append(open \o u, x) /\ x \in C /\ x # Apostrophe
    <3>1. u \in Seq(C) /\ x \in C /\ x # Apostrophe /\ Append(u, x) \in Seq(D)
      OBVIOUS
    <3> HIDE DEF D
    <3> QED
      BY SMTT(40), <1>2, <3>1
  <2>6. PICK now \in Seq(C) : now = current \o u
    BY <2>1
  <2>2. ScanChar(At("single", now, tokens), x) = At("single", Append(now, x), tokens)
    <3>1. x \in C /\ x # Apostrophe
      BY <2>1
    <3> HIDE DEF D
    <3>2. ScanChar(At("single", now, tokens), x) =
              IF x = Apostrophe THEN At("plain", now, tokens)
              ELSE At("single", Append(now, x), tokens)
      BY <3>1, CharactersAre
    <3> QED
      BY <3>1, <3>2
  <2>3. Scan(scan, Append(open \o u, x)) = ScanChar(Scan(scan, open \o u), x)
    <3> HIDE DEF scan
    <3>1. PICK text \in Seq(C) : text = open \o u
      BY <2>1
    <3>2. Scan(scan, Append(text, x)) = ScanChar(Scan(scan, text), x)
      BY <1>1, <2>1, ScanOn
    <3> QED
      BY <3>1, <3>2
  <2>4. Scan(scan, open \o u) = At("single", current \o u, tokens)
    BY <1>4
  <2>5. Scan(scan, open \o Append(u, x)) = At("single", current \o Append(u, x), tokens)
    BY <2>1, <2>2, <2>3, <2>4, <2>6
  <2> QED
    BY <2>1, <2>5
<1>5. Seq(D) \subseteq P
  <2> HIDE DEF P
  <2> QED
    BY <1>3, <1>4, EverySequence
<1>6. Scan(scan, open \o word) = At("single", current \o word, tokens)
  BY <1>5
<1>7. open \o word \in Seq(C) /\ current \o word \in Seq(C)
      /\ InSingle(word) = Append(open \o word, Apostrophe)
  <2>1. word \in Seq(C)
    OBVIOUS
  <2>2. PICK ch \in C : ch = Apostrophe
    BY <1>1
  <2>3. <<ch>> \o word \o <<ch>> = Append(<<ch>> \o word, ch)
        /\ <<ch>> \o word \in Seq(C) /\ current \o word \in Seq(C)
    BY <2>1
  <2> QED
    BY <2>2, <2>3 DEF InSingle, Apostrophe
<1> HIDE DEF scan
<1>8. PICK text \in Seq(C) : text = open \o word
  BY <1>7
<1>9. InSingle(word) \in Seq(C) /\ Scan(scan, InSingle(word)) = ScanChar(Scan(scan, text), Apostrophe)
  <2> HIDE DEF open
  <2>1. /\ Append(text, Apostrophe) \in Seq(C)
        /\ Scan(scan, Append(text, Apostrophe)) = ScanChar(Scan(scan, text), Apostrophe)
    BY <1>1, ScanOne
  <2> QED
    BY <1>7, <1>8, <2>1
<1>10. PICK now \in Seq(C) : now = current \o word
  BY <1>7
<1>11. ScanChar(At("single", now, tokens), Apostrophe) = At("plain", now, tokens)
  <2>1. PICK ch \in C : ch = Apostrophe
    BY <1>1
  <2>2. ScanChar(At("single", now, tokens), ch) =
            IF ch = Apostrophe THEN At("plain", now, tokens)
            ELSE At("single", Append(now, ch), tokens)
    BY CharactersAre
  <2> QED
    BY <2>1, <2>2
<1> HIDE DEF open
<1> QED
  BY <1>6, <1>8, <1>9, <1>10, <1>11 DEF scan

(* However a word is quoted, it is read as it stands.                       *)
LEMMA QuotedIsRead ==
    ASSUME NEW C, Marks \subseteq C, NEW current \in Seq(C),
           NEW tokens \in Seq(Tokens(Seq(C))), NEW word \in Seq(C), NEW text \in Quotings(word)
    PROVE  /\ text \in Seq(C)
           /\ Scan(At("plain", current, tokens), text) = At("plain", current \o word, tokens)
<1>1. CASE text = Escaped(word)
  BY <1>1, EscapedIsRead
<1>2. CASE text = InDouble(word)
  BY <1>2, DoubleIsRead
<1>3. CASE text = InSingle(word) /\ ~Contains(word, "'")
  <2>1. \A i \in 1..Len(word) : word[i] \in C \ {Apostrophe}
    BY <1>3 DEF Contains, Apostrophe
  <2>2. word \in Seq(C \ {Apostrophe})
    BY <2>1
  <2> QED
    BY <1>3, <2>2, SingleIsRead
<1> QED
  BY <1>1, <1>2, <1>3 DEF Quotings

(* The word in hand at the end is the last token.                           *)
LEMMA LastWordIs ==
    ASSUME NEW C, Marks \subseteq C, NEW text \in Seq(C), NEW current \in Seq(C),
           current # <<>>, NEW tokens \in Seq(Tokens(Seq(C))),
           Scan(Scanner, text) = At("plain", current, tokens)
    PROVE  TokenizeShellCommand(text) = Append(tokens, Token("word", current))
<1>1. At("plain", current, tokens).mode = "plain"
  BY DEF At
<1>2. FoldLeft(ScanChar, Scanner, text) = At("plain", current, tokens)
  BY DEF Scan
<1>3. TokenizeShellCommand(text) = PushWordToken(At("plain", current, tokens)).tokens
  <2> DEFINE end == At("plain", current, tokens)
  <2>1. end.mode \notin {"single", "double", "double escape"}
    BY <1>1
  <2> HIDE DEF end
  <2> QED
    BY <1>2, <2>1 DEF TokenizeShellCommand, end
<1>4. PushWordToken(At("plain", current, tokens))
          = At("plain", <<>>, Append(tokens, Token("word", current)))
  BY WordsEnd
<1>5. PICK more : more = Append(tokens, Token("word", current))
  OBVIOUS
<1>6. At("plain", <<>>, more).tokens = more
  BY DEF At
<1> QED
  BY <1>3, <1>4, <1>5, <1>6

(* What sequences of a few elements are.                                    *)
LEMMA ShortSequences ==
    ASSUME NEW T
    PROVE  /\ <<>> \in Seq(T)
           /\ \A x \in T : Append(<<>>, x) = <<x>> /\ <<x>> \in Seq(T)
           /\ \A x, y \in T : Append(<<x>>, y) = <<x, y>> /\ <<x, y>> \in Seq(T)
           /\ \A x, y, z \in T : Append(<<x, y>>, z) = <<x, y, z>>
<1>1. <<>> \in Seq(T) /\ \A x \in T : Append(<<>>, x) = <<x>> /\ <<x>> \in Seq(T)
  OBVIOUS
<1>2. ASSUME NEW x \in T, NEW y \in T
      PROVE  Append(<<x>>, y) = <<x, y>> /\ <<x, y>> \in Seq(T)
  <2>6. <<x>> \in Seq(T) /\ <<x, y>> \in Seq(T)
    OBVIOUS
  <2>1. PICK s \in Seq(T) : s = <<x>>
    BY <2>6
  <2>2. PICK t \in Seq(T) : t = <<x, y>>
    BY <2>6
  <2>3. Len(s) = 1 /\ s[1] = x
    BY <2>1
  <2>4. Len(t) = 2 /\ t[1] = x /\ t[2] = y
    BY <2>2
  <2>7. PICK u \in Seq(T) : u = Append(s, y)
    BY AppendProperties
  <2>10. /\ Len(Append(s, y)) = Len(s) + 1 /\ Append(s, y)[Len(s) + 1] = y
         /\ \A i \in 1..Len(s) : Append(s, y)[i] = s[i]
    BY AppendProperties
  <2>11. 1 \in 1..Len(s)
    BY <2>3
  <2>9. Len(u) = 2 /\ u[1] = x /\ u[2] = y
    BY <2>3, <2>7, <2>10, <2>11
  <2>8. \A k \in 1..2 : u[k] = t[k]
    BY <2>4, <2>9
  <2>5. Append(s, y) = t
    BY <2>4, <2>7, <2>8, <2>9, SeqEqual
  <2> QED
    BY <2>1, <2>2, <2>5
<1>3. ASSUME NEW x \in T, NEW y \in T, NEW z \in T
      PROVE  Append(<<x, y>>, z) = <<x, y, z>>
  <2>1. PICK s \in Seq(T) : s = <<x, y>>
    BY <1>2
  <2>6. <<x, y, z>> \in Seq(T)
    OBVIOUS
  <2>2. PICK t \in Seq(T) : t = <<x, y, z>>
    BY <2>6
  <2>3. Len(s) = 2 /\ s[1] = x /\ s[2] = y
    BY <2>1
  <2>4. Len(t) = 3 /\ t[1] = x /\ t[2] = y /\ t[3] = z
    BY <2>2
  <2>7. PICK u \in Seq(T) : u = Append(s, z)
    BY AppendProperties
  <2>10. /\ Len(Append(s, z)) = Len(s) + 1 /\ Append(s, z)[Len(s) + 1] = z
         /\ \A i \in 1..Len(s) : Append(s, z)[i] = s[i]
    BY AppendProperties
  <2>11. 1 \in 1..Len(s) /\ 2 \in 1..Len(s)
    BY <2>3
  <2>9. Len(u) = 3 /\ u[1] = x /\ u[2] = y /\ u[3] = z
    BY <2>3, <2>7, <2>10, <2>11
  <2>8. \A k \in 1..3 : u[k] = t[k]
    BY <2>4, <2>9
  <2>5. Append(s, z) = t
    BY <2>4, <2>7, <2>8, <2>9, SeqEqual
  <2> QED
    BY <2>1, <2>2, <2>5
<1> QED
  BY <1>1, <1>2, <1>3

(* A quoted word begins with a mark of its quoting.                         *)
LEMMA QuotingsOpen ==
    ASSUME NEW C, Marks \subseteq C, NEW word \in Seq(C), word # <<>>,
           NEW text \in Quotings(word)
    PROVE  \E c \in {Apostrophe, DoubleQuote, Backslash}, rest \in Seq(C) : text = <<c>> \o rest
<1> DEFINE Begins(u) == \E c \in {Apostrophe, DoubleQuote, Backslash}, rest \in Seq(C) :
                            u = <<c>> \o rest
<1>0. Apostrophe \in C /\ DoubleQuote \in C /\ Backslash \in C
  BY MarksAre
<1>1. ASSUME NEW u \in Seq(C), NEW v \in Seq(C), Begins(u) PROVE Begins(u \o v)
  <2>1. PICK c \in {Apostrophe, DoubleQuote, Backslash}, rest \in Seq(C) : u = <<c>> \o rest
    BY <1>1
  <2>2. c \in C
    BY <1>0
  <2>3. (<<c>> \o rest) \o v = <<c>> \o (rest \o v) /\ rest \o v \in Seq(C)
    BY <2>2
  <2> QED
    BY <2>1, <2>3
<1>2. ASSUME NEW c \in {Apostrophe, DoubleQuote, Backslash}, NEW rest \in Seq(C)
      PROVE  Begins(<<c>> \o rest)
  OBVIOUS
<1>3. <<DoubleQuote>> \in Seq(C) /\ Begins(<<DoubleQuote>>)
  <2>1. <<>> \in Seq(C) /\ <<DoubleQuote>> \o <<>> = <<DoubleQuote>> /\ <<DoubleQuote>> \in Seq(C)
    BY <1>0
  <2> QED
    BY <2>1
<1> HIDE DEF Begins
<1>4. CASE text = InSingle(word)
  <2>1. PICK rest \in Seq(C) : rest = word \o <<Apostrophe>>
    <3>1. word \o <<Apostrophe>> \in Seq(C)
      BY <1>0
    <3> QED
      BY <3>1
  <2>2. <<Apostrophe>> \o word \o <<Apostrophe>> = <<Apostrophe>> \o (word \o <<Apostrophe>>)
    BY <1>0
  <2>3. text = <<Apostrophe>> \o rest
    BY <1>4, <2>1, <2>2 DEF InSingle, Apostrophe
  <2> QED
    BY <1>2, <2>3 DEF Begins
<1>5. CASE text = InDouble(word)
  <2> DEFINE P == {u \in Seq(C) : Begins(Opened(u))}
  <2>1. <<>> \in P
    <3>1. PICK none \in Seq(C) : none = <<>>
      BY ShortSequences
    <3>2. Opened(none) = <<DoubleQuote>>
      BY <3>1, OpenedOn
    <3> QED
      BY <1>3, <3>1, <3>2
  <2>2. ASSUME NEW u \in Seq(C), u \in P, NEW x \in C PROVE Append(u, x) \in P
    <3>1. Opened(u) \in Seq(C) /\ Append(u, x) \in Seq(C)
      BY OpenedOn
    <3>2. Opened(Append(u, x)) = IF x \in {DoubleQuote, Backslash}
                                 THEN Opened(u) \o <<Backslash, x>> ELSE Append(Opened(u), x)
      BY OpenedOn
    <3>3. PICK o \in Seq(C) : o = Opened(u) /\ Begins(o)
      BY <2>2, <3>1
    <3>4. <<Backslash, x>> \in Seq(C) /\ <<x>> \in Seq(C) /\ Append(o, x) = o \o <<x>>
      BY <1>0
    <3>5. Begins(o \o <<Backslash, x>>) /\ Begins(o \o <<x>>)
      BY <1>1, <3>3, <3>4
    <3> QED
      BY <3>1, <3>2, <3>3, <3>4, <3>5
  <2>3. Seq(C) \subseteq P
    <3> HIDE DEF P
    <3> QED
      BY <2>1, <2>2, EverySequence
  <2>4. PICK o \in Seq(C) : o = Opened(word) /\ Begins(o)
    BY <2>3, OpenedOn
  <2>5. text = Append(o, DoubleQuote)
    BY <1>5, <2>4 DEF InDouble, Opened, OpeningQuote, DoubleQuote
  <2>6. Append(o, DoubleQuote) = o \o <<DoubleQuote>>
    BY <1>0
  <2>7. Begins(o \o <<DoubleQuote>>)
    BY <1>1, <1>3, <2>4
  <2> QED
    BY <2>5, <2>6, <2>7 DEF Begins
<1>6. CASE text = Escaped(word)
  <2> DEFINE P == {u \in Seq(C) : u = <<>> \/ Begins(Escaped(u))}
  <2>1. <<>> \in P
    OBVIOUS
  <2>2. ASSUME NEW u \in Seq(C), u \in P, NEW x \in C PROVE Append(u, x) \in P
    <3>1. Escaped(u) \in Seq(C) /\ Append(u, x) \in Seq(C)
          /\ (u = <<>> => Escaped(u) = <<>>)
          /\ Escaped(Append(u, x)) = Escaped(u) \o <<Backslash, x>>
      BY <1>0, EscapedOn
    <3>2. PICK o \in Seq(C) : o = Escaped(u)
      BY <3>1
    <3>3. PICK pair \in Seq(C) : pair = <<Backslash, x>>
      <4>1. <<Backslash, x>> \in Seq(C)
        BY <1>0
      <4> QED
        BY <4>1
    <3>4. CASE u = <<>>
      <4>1. <<x>> \in Seq(C) /\ <<Backslash>> \o <<x>> = <<Backslash, x>>
        <5>1. /\ <<x>> \in Seq(C) /\ <<Backslash>> \in Seq(C)
              /\ Append(<<Backslash>>, x) = <<Backslash, x>>
          BY <1>0, ShortSequences
        <5>2. PICK back \in Seq(C) : back = <<Backslash>>
          BY <5>1
        <5>3. Append(back, x) = back \o <<x>>
          OBVIOUS
        <5> QED
          BY <5>1, <5>2, <5>3
      <4>2. Begins(<<Backslash>> \o <<x>>)
        BY <1>2, <4>1
      <4>3. <<>> \o pair = pair
        OBVIOUS
      <4> QED
        BY <3>1, <3>3, <3>4, <4>1, <4>2, <4>3
    <3>5. CASE u # <<>>
      <4>1. Begins(o)
        BY <2>2, <3>2, <3>5
      <4>2. Begins(o \o pair)
        BY <1>1, <4>1
      <4> QED
        BY <3>1, <3>2, <3>3, <4>2
    <3> QED
      BY <3>4, <3>5
  <2>3. Seq(C) \subseteq P
    <3> HIDE DEF P
    <3> QED
      BY <2>1, <2>2, EverySequence
  <2> QED
    BY <1>6, <2>3 DEF Begins
<1>7. text = InDouble(word) \/ text = Escaped(word) \/ text = InSingle(word)
  BY DEF Quotings
<1> QED
  BY <1>4, <1>5, <1>6, <1>7

(* After an operator a quoted word is read as after a blank.                *)
LEMMA QuotedAfterOperator ==
    ASSUME NEW C, Marks \subseteq C, NEW op \in Apart, NEW before \in Seq(Tokens(Seq(C))),
           NEW word \in Seq(C), word # <<>>, NEW text \in Quotings(word)
    PROVE  LET tokens == Append(before, Token("operator", <<op>>))
           IN Scan(At("operator", <<>>, tokens), text) = Scan(At("plain", <<>>, tokens), text)
<1> DEFINE T == Tokens(Seq(C))
           mark == Token("operator", <<op>>)
           tokens == Append(before, mark)
<1>1. PICK none : none = <<>>
  OBVIOUS
<1>2. mark \in T /\ mark.text = <<op>>
  <2>1. op \in C
    BY DEF Marks, Apart
  <2>2. <<op>> \in Seq(C)
    BY <2>1
  <2> QED
    BY <2>2 DEF Token, Tokens
<1> HIDE DEF mark
<1>3. tokens \in Seq(T) /\ Last(tokens) = mark
  <2> HIDE DEF T
  <2> QED
    BY <1>2, LastOfMore DEF T
<1> HIDE DEF tokens
<1>4. none \in Seq(C) /\ text \in Seq(C)
  <2>1. none \in Seq(C) /\ none \in Seq(T)
    BY <1>1
  <2> QED
    BY <2>1, QuotedIsRead DEF T
<1>5. PICK c \in {Apostrophe, DoubleQuote, Backslash}, rest \in Seq(C) : text = <<c>> \o rest
  BY QuotingsOpen
<1>6. At("operator", none, tokens) \in Scans(C) /\ At("plain", none, tokens) \in Scans(C)
  BY <1>3, <1>4, AtIs DEF T
<1>7. c \in C /\ c # op /\ <<c>> # <<op>>
  BY <1>5 DEF Marks, Apart, Apostrophe, DoubleQuote, Backslash
<1>8. ScanChar(At("operator", none, tokens), c) = ScanChar(At("plain", none, tokens), c)
  <2> DEFINE st == At("operator", none, tokens)
             pl == At("plain", none, tokens)
  <2>1. st.mode = "operator" /\ st.tokens = tokens /\ pl.mode = "plain"
        /\ \A m : Enter(st, m) = Enter(pl, m)
    BY DEF At, Enter
  <2>2. ~IsRepeat(st, c)
    BY <1>2, <1>3, <1>7, <2>1 DEF IsRepeat
  <2> HIDE DEF st, pl
  <2>3. ScanChar(st, c) = ScanPlain(st, c) /\ ScanChar(pl, c) = ScanPlain(pl, c)
    BY <2>1, <2>2, ModesAre
  <2>4. /\ c = "'" => ScanPlain(st, c) = Enter(st, "single") /\ ScanPlain(pl, c) = Enter(pl, "single")
        /\ c = "\"" => ScanPlain(st, c) = Enter(st, "double") /\ ScanPlain(pl, c) = Enter(pl, "double")
        /\ c = "\\" => ScanPlain(st, c) = Enter(st, "escape") /\ ScanPlain(pl, c) = Enter(pl, "escape")
    BY PlainCharactersAre
  <2>5. c = "'" \/ c = "\"" \/ c = "\\"
    BY <1>5 DEF Apostrophe, DoubleQuote, Backslash
  <2> QED
    BY <2>1, <2>3, <2>4, <2>5 DEF st, pl
<1>9. ASSUME NEW st \in Scans(C)
      PROVE  Scan(st, text) = Scan(ScanChar(st, c), rest)
  <2>1. PICK head \in Seq(C) : head = <<c>> /\ head = Append(none, c)
    <3>1. <<c>> \in Seq(C) /\ Append(none, c) = <<c>>
      BY <1>1, <1>7, ShortSequences
    <3> QED
      BY <3>1
  <2>2. Scan(st, none) = st
    BY <1>1, <1>4, ScanOn
  <2>3. Scan(st, Append(none, c)) = ScanChar(Scan(st, none), c)
    BY <1>4, <1>7, ScanOne
  <2>4. Scan(st, head \o rest) = Scan(Scan(st, head), rest)
    BY ScanTwo
  <2> QED
    BY <1>5, <2>1, <2>2, <2>3, <2>4
<1> QED
  BY <1>1, <1>6, <1>8, <1>9 DEF tokens, mark

(* Texts with words of their own come together as they were written.        *)
LEMMA WordsTogether ==
    ASSUME NEW C, Marks \subseteq C, NEW first \in Seq(C), first # <<>>,
           NEW second \in Seq(C), second # <<>>,
           NEW one \in Quotings(first), NEW two \in Quotings(second)
    PROVE  /\ one \in Seq(C) /\ two \in Seq(C)
           /\ Scan(Scanner, one) = At("plain", first, <<>>)
           /\ \A tokens \in Seq(Tokens(Seq(C))), text \in Seq(C) :
                  Scan(Scanner, text) = At("plain", <<>>, tokens) =>
                      TokenizeShellCommand(text \o two) = Append(tokens, Token("word", second))
           /\ TokenizeShellCommand(one \o two) = Append(<<>>, Token("word", first \o second))
<1> DEFINE T == Tokens(Seq(C))
<1>1. PICK none : none = <<>>
  OBVIOUS
<1>2. none \in Seq(C) /\ none \in Seq(T)
  BY <1>1
<1>3. none \o first = first /\ none \o second = second
  BY <1>1
<1>4. one \in Seq(C) /\ two \in Seq(C)
  BY <1>2, QuotedIsRead
<1>5. Scanner = At("plain", none, none)
  BY <1>1 DEF At, Scanner
<1>6. Scanner \in Scans(C)
  BY <1>2, <1>5, AtIs
<1>7. Scan(At("plain", none, none), one) = At("plain", none \o first, none)
  BY <1>2, QuotedIsRead
<1>8. ASSUME NEW tokens \in Seq(T), NEW text \in Seq(C), Scan(Scanner, text) = At("plain", none, tokens)
      PROVE  TokenizeShellCommand(text \o two) = Append(tokens, Token("word", second))
  <2>1. Scan(Scanner, text \o two) = Scan(Scan(Scanner, text), two)
    BY <1>4, <1>6, ScanTwo
  <2>2. Scan(At("plain", none, tokens), two) = At("plain", none \o second, tokens)
    BY <1>2, QuotedIsRead
  <2>3. text \o two \in Seq(C)
    BY <1>4
  <2>4. PICK line \in Seq(C) : line = text \o two
    BY <2>3
  <2>5. Scan(Scanner, line) = At("plain", second, tokens)
    BY <1>3, <1>8, <2>1, <2>2, <2>4
  <2>6. TokenizeShellCommand(line) = Append(tokens, Token("word", second))
    BY <2>5, LastWordIs DEF T
  <2> QED
    BY <2>4, <2>6
<1>9. TokenizeShellCommand(one \o two) = Append(none, Token("word", first \o second))
  <2>1. first \o second \in Seq(C) /\ first \o second # <<>>
    <3>1. Len(first) \in Nat /\ Len(first) # 0 /\ Len(second) \in Nat
      OBVIOUS
    <3>2. first \o second \in Seq(C) /\ Len(first \o second) = Len(first) + Len(second)
      OBVIOUS
    <3>3. Len(<<>>) = 0
      OBVIOUS
    <3> QED
      BY <3>1, <3>2, <3>3
  <2>2. PICK both \in Seq(C) : both = first \o second /\ both # <<>>
    BY <2>1
  <2>3. Scan(Scanner, one \o two) = Scan(Scan(Scanner, one), two)
    BY <1>4, <1>6, ScanTwo
  <2>4. Scan(At("plain", first, none), two) = At("plain", first \o second, none)
    BY <1>2, QuotedIsRead
  <2>5. one \o two \in Seq(C)
    BY <1>4
  <2>6. PICK line \in Seq(C) : line = one \o two
    BY <2>5
  <2>7. Scan(Scanner, line) = At("plain", both, none)
    BY <1>3, <1>5, <1>7, <2>2, <2>3, <2>4, <2>6
  <2>8. TokenizeShellCommand(line) = Append(none, Token("word", both))
    BY <1>2, <2>2, <2>7, LastWordIs DEF T
  <2> QED
    BY <2>2, <2>6, <2>8
<1> QED
  BY <1>1, <1>3, <1>4, <1>5, <1>7, <1>8, <1>9

(* A word comes out of the tokenizer as it was meant, however it is quoted,  *)
(* and so does what stands between two words                                 *)
(* (src/tools/builtin/exec.rs:536-638).                                      *)
THEOREM QuotedWordsAreKept ==
    ASSUME NEW C, Marks \subseteq C, NEW first \in Seq(C), first # <<>>,
           NEW second \in Seq(C), second # <<>>
    PROVE  BothAreKept(first, second)
<1>1. SUFFICES ASSUME NEW one \in Quotings(first), NEW two \in Quotings(second)
      PROVE  /\ \A gap \in Blanks :
                    TokenizeShellCommand(one \o <<gap>> \o two)
                        = <<Token("word", first), Token("word", second)>>
             /\ TokenizeShellCommand(one \o two) = <<Token("word", first \o second)>>
             /\ \A join \in Joins :
                    TokenizeShellCommand(one \o join \o two)
                        = <<Token("word", first), Token("operator", join),
                            Token("word", second)>>
             /\ TokenizeShellCommand(one \o <<"'">>) = Unparsed
  BY DEF BothAreKept
<1> DEFINE T == Tokens(Seq(C))
<1>2. PICK none : none = <<>>
  OBVIOUS
<1>3. Blanks \subseteq C /\ Apart \subseteq C
  BY DEF Marks, Blanks, Apart
<1>5. PICK quote \in C : quote = Apostrophe
  BY MarksAre
<1>6. PICK word1 \in T : word1 = Token("word", first)
  BY DEF Token, Tokens
<1>7. PICK word2 \in T : word2 = Token("word", second)
  BY DEF Token, Tokens
<1>8. ASSUME NEW op \in Apart
      PROVE  Token("operator", <<op, op>>) \in T /\ Token("operator", <<op>>) \in T
  <2>1. <<op, op>> \in Seq(C) /\ <<op>> \in Seq(C)
    BY <1>3, ShortSequences
  <2> QED
    BY <2>1 DEF Token, Tokens
<1>9. /\ one \in Seq(C) /\ two \in Seq(C)
      /\ Scan(Scanner, one) = At("plain", first, none)
      /\ \A tokens \in Seq(T), text \in Seq(C) :
             Scan(Scanner, text) = At("plain", none, tokens) =>
                 TokenizeShellCommand(text \o two) = Append(tokens, word2)
      /\ TokenizeShellCommand(one \o two) = Append(none, Token("word", first \o second))
  BY <1>2, <1>7, WordsTogether
<1>21. ASSUME NEW toks \in Seq(T) PROVE Scan(At("plain", none, toks), two) = At("plain", second, toks)
  <2>1. none \in Seq(C)
    BY <1>2
  <2>2. Scan(At("plain", none, toks), two) = At("plain", none \o second, toks)
    BY <2>1, QuotedIsRead
  <2>3. none \o second = second
    BY <1>2
  <2> QED
    BY <2>2, <2>3
<1>10. Scanner \in Scans(C)
  <2>1. Scanner = At("plain", none, none)
    BY <1>2 DEF At, Scanner
  <2>2. none \in Seq(C) /\ none \in Seq(T)
    BY <1>2
  <2> QED
    BY <2>1, <2>2, AtIs
<1>11. PICK t1 : t1 = Append(none, word1)
  OBVIOUS
<1>13. /\ none \in Seq(T) /\ t1 \in Seq(T)
       /\ Append(t1, word2) = <<word1, word2>>
       /\ \A mark \in T : /\ Append(t1, mark) \in Seq(T)
                         /\ Append(Append(t1, mark), word2) = <<word1, mark, word2>>
  <2> HIDE DEF T
  <2>1. none \in Seq(T) /\ Append(none, word1) = <<word1>> /\ <<word1>> \in Seq(T)
    BY <1>2, ShortSequences
  <2>2. Append(<<word1>>, word2) = <<word1, word2>>
    BY <1>2, ShortSequences
  <2>3. ASSUME NEW mark \in T
        PROVE  /\ Append(<<word1>>, mark) = <<word1, mark>> /\ <<word1, mark>> \in Seq(T)
               /\ Append(<<word1, mark>>, word2) = <<word1, mark, word2>>
    BY ShortSequences
  <2> QED
    BY <1>11, <2>1, <2>2, <2>3
<1>14. /\ \A gap \in Blanks : ScanChar(At("plain", first, none), gap) = At("plain", none, t1)
       /\ \A op \in Apart :
              ScanChar(At("plain", first, none), op)
                  = At(IF op = ";" THEN "plain" ELSE "operator", none,
                       Append(t1, Token("operator", <<op>>)))
       /\ \A op \in Pairing :
              ScanChar(ScanChar(At("plain", first, none), op), op)
                  = At("plain", none, Append(t1, Token("operator", <<op, op>>)))
  <2>1. LET pushed == Append(none, Token("word", first))
        IN /\ \A gap \in Blanks :
                  ScanChar(At("plain", first, none), gap) = At("plain", <<>>, pushed)
           /\ \A op \in Apart :
                  ScanChar(At("plain", first, none), op)
                      = At(IF op = ";" THEN "plain" ELSE "operator", <<>>,
                           Append(pushed, Token("operator", <<op>>)))
           /\ \A op \in Pairing :
                  ScanChar(ScanChar(At("plain", first, none), op), op)
                      = At("plain", <<>>, Append(pushed, Token("operator", <<op, op>>)))
    BY <1>13, WordsEnd
  <2> QED
    BY <1>2, <1>6, <1>11, <2>1
<1> HIDE DEF T
<1>15. ASSUME NEW gap \in Blanks PROVE TokenizeShellCommand(one \o <<gap>> \o two) = <<word1, word2>>
  <2>1. PICK text : text = one \o <<gap>>
    OBVIOUS
  <2>2. text = Append(one, gap) /\ text \in Seq(C)
    BY <1>3, <1>9, <2>1
  <2>3. Scan(Scanner, Append(one, gap)) = ScanChar(Scan(Scanner, one), gap)
    BY <1>3, <1>9, <1>10, ScanOne
  <2>4. Scan(Scanner, text) = At("plain", none, t1)
    BY <1>9, <1>14, <2>2, <2>3
  <2>5. TokenizeShellCommand(text \o two) = Append(t1, word2)
    BY <1>9, <1>13, <2>2, <2>4
  <2> QED
    BY <1>13, <2>1, <2>5
<1>16. TokenizeShellCommand(one \o two) = <<Token("word", first \o second)>>
  <2>1. Append(<<>>, Token("word", first \o second)) = <<Token("word", first \o second)>>
    <3>1. PICK word : word = Token("word", first \o second)
      OBVIOUS
    <3>2. word \in {word} /\ Append(<<>>, word) = <<word>>
      OBVIOUS
    <3> QED
      BY <3>1, <3>2
  <2> QED
    BY <1>2, <1>9, <2>1
<1>17. ASSUME NEW op \in Pairing
       PROVE  TokenizeShellCommand(one \o <<op, op>> \o two)
                  = <<word1, Token("operator", <<op, op>>), word2>>
  <2>1. PICK text : text = one \o <<op, op>>
    OBVIOUS
  <2>a. op \in C
    BY <1>3 DEF Pairing
  <2>b. PICK mark \in T : mark = Token("operator", <<op, op>>)
    BY <1>8 DEF Pairing
  <2>2. text \in Seq(C) /\ Scan(Scanner, text) = ScanChar(ScanChar(Scan(Scanner, one), op), op)
    <3>1. PICK head \in Seq(C), scan \in Scans(C) : head = one /\ scan = Scanner
      BY <1>9, <1>10
    <3>2. /\ head \o <<op, op>> \in Seq(C)
          /\ Scan(scan, head \o <<op, op>>) = ScanChar(ScanChar(Scan(scan, head), op), op)
      BY <2>a, ScanPair
    <3> QED
      BY <2>1, <3>1, <3>2
  <2>4. Scan(Scanner, text) = At("plain", none, Append(t1, mark))
    BY <1>9, <1>14, <2>2, <2>b
  <2>5. TokenizeShellCommand(text \o two) = Append(Append(t1, mark), word2)
    BY <1>9, <1>13, <2>2, <2>4
  <2> QED
    BY <1>13, <2>1, <2>5, <2>b
<1>19. ASSUME NEW op \in Apart
       PROVE  TokenizeShellCommand(one \o <<op>> \o two)
                  = <<word1, Token("operator", <<op>>), word2>>
  <2>1. PICK text : text = one \o <<op>>
    OBVIOUS
  <2>a. op \in C
    BY <1>3
  <2>b. PICK mark \in T : mark = Token("operator", <<op>>)
    BY <1>8
  <2>2. text = Append(one, op) /\ text \in Seq(C)
    BY <1>9, <2>1, <2>a
  <2>3. Scan(Scanner, Append(one, op)) = ScanChar(Scan(Scanner, one), op)
    BY <1>9, <1>10, <2>a, ScanOne
  <2> DEFINE now == Append(t1, mark)
             mode == IF op = ";" THEN "plain" ELSE "operator"
  <2>c. now \in Seq(T) /\ Append(now, word2) = <<word1, mark, word2>>
    BY <1>13
  <2>4. Scan(Scanner, text) = At(mode, none, now)
    BY <1>9, <1>14, <2>2, <2>3, <2>b
  <2>5. Scan(At("operator", none, now), two) = Scan(At("plain", none, now), two)
    BY <1>2, <1>13, <2>b, QuotedAfterOperator DEF T
  <2> HIDE DEF now
  <2>6. Scan(Scanner, text \o two) = Scan(Scan(Scanner, text), two)
    <3>1. PICK u \in Seq(C), v \in Seq(C), scan \in Scans(C) :
              u = text /\ v = two /\ scan = Scanner
      BY <1>9, <1>10, <2>2
    <3>2. Scan(scan, u \o v) = Scan(Scan(scan, u), v)
      BY ScanTwo
    <3> QED
      BY <3>1, <3>2
  <2>7. Scan(Scanner, text \o two) = Scan(At("plain", none, now), two)
    BY <2>4, <2>5, <2>6
  <2>9. Scan(At("plain", none, now), two) = At("plain", second, now)
    BY <1>21, <2>c
  <2>10. PICK line \in Seq(C) : line = text \o two
    <3>1. text \o two \in Seq(C)
      BY <1>9, <2>2
    <3> QED
      BY <3>1
  <2>11. TokenizeShellCommand(line) = Append(now, Token("word", second))
    <3>1. now \in Seq(Tokens(Seq(C)))
      BY <2>c DEF T
    <3>2. Scan(Scanner, line) = At("plain", second, now)
      BY <2>7, <2>9, <2>10
    <3> QED
      BY <3>1, <3>2, LastWordIs
  <2> QED
    BY <1>7, <2>1, <2>10, <2>11, <2>b, <2>c
<1>20. ASSUME NEW join \in Joins
       PROVE  TokenizeShellCommand(one \o join \o two) = <<word1, Token("operator", join), word2>>
  <2>1. PICK op \in Apart : join = <<op>> \/ (join = <<op, op>> /\ op \in Pairing)
    BY DEF Joins, Apart, Pairing
  <2> QED
    BY <1>17, <1>19, <2>1
<1>18. TokenizeShellCommand(one \o <<quote>>) = Unparsed
  <2>1. one \o <<quote>> = Append(one, quote)
    BY <1>9
  <2>2. Scan(Scanner, Append(one, quote)) = ScanChar(Scan(Scanner, one), quote)
    BY <1>9, <1>10, ScanOne
  <2>3. ScanChar(At("plain", first, none), Apostrophe) = At("single", first, none)
    BY <1>5, <1>13, CharactersAre DEF T
  <2>4. At("single", first, none).mode = "single"
    BY DEF At
  <2>5. PICK line : line = one \o <<quote>>
    OBVIOUS
  <2>6. Scan(Scanner, line).mode = "single"
    BY <1>5, <1>9, <2>1, <2>2, <2>3, <2>4, <2>5
  <2>7. TokenizeShellCommand(line) = Unparsed
    BY <2>6 DEF TokenizeShellCommand, Scan
  <2> QED
    BY <2>5, <2>7
<1> QED
  BY <1>5, <1>6, <1>7, <1>15, <1>16, <1>18, <1>20 DEF Apostrophe

-----------------------------------------------------------------------------
(* Commands of a line                                                       *)

Segmentings(T) == [done : Seq(Seq(T)), current : Seq(T)]
Cut(done, current) == [done |-> done, current |-> current]

(* Ending a segment, one made of its parts.                                 *)
LEMMA EndSegmentIs ==
    ASSUME NEW T, NEW done \in Seq(Seq(T)), NEW current \in Seq(T)
    PROVE  /\ Cut(done, current) \in Segmentings(T)
           /\ Cut(done, current).done = done /\ Cut(done, current).current = current
           /\ EndSegment(Cut(done, current)) =
                  Cut(IF current = <<>> THEN done ELSE Append(done, current), <<>>)
           /\ \A token : SegmentToken(Cut(done, current), token) =
                  IF token.text \in Separators THEN EndSegment(Cut(done, current))
                  ELSE Cut(done, Append(current, token))
<1>1. /\ Cut(done, current) \in Segmentings(T)
      /\ Cut(done, current).done = done /\ Cut(done, current).current = current
  BY DEF Cut, Segmentings
<1>2. EndSegment(Cut(done, current)) =
          Cut(IF current = <<>> THEN done ELSE Append(done, current), <<>>)
  <2> DEFINE none == <<>>
  <2>1. CASE current = none
    <3>1. EndSegment(Cut(done, current)) = Cut(done, current)
      BY <1>1, <2>1 DEF EndSegment
    <3> QED
      BY <2>1, <3>1
  <2>2. CASE current # none
    <3>1. EndSegment(Cut(done, current)) = [done |-> Append(done, current), current |-> none]
      BY <1>1, <2>2 DEF EndSegment
    <3> QED
      BY <2>2, <3>1 DEF Cut
  <2> QED
    BY <2>1, <2>2
<1>3. ASSUME NEW token
      PROVE  [Cut(done, current) EXCEPT !.current = Append(@, token)]
                 = Cut(done, Append(current, token))
  <2>1. PICK more : more = Append(current, token)
    OBVIOUS
  <2>2. [Cut(done, current) EXCEPT !.current = more] = Cut(done, more)
    BY DEF Cut
  <2> QED
    BY <1>1, <2>1, <2>2
<1>4. ASSUME NEW token
      PROVE  SegmentToken(Cut(done, current), token) =
                 IF token.text \in Separators THEN EndSegment(Cut(done, current))
                 ELSE Cut(done, Append(current, token))
  BY <1>3 DEF SegmentToken
<1> QED
  BY <1>1, <1>2, <1>4

(* Segments are put together token by token.                                *)
LEMMA SegmentTokenIs ==
    ASSUME NEW T, NEW acc \in Segmentings(T), NEW token \in T
    PROVE  EndSegment(acc) \in Segmentings(T) /\ SegmentToken(acc, token) \in Segmentings(T)
<1>1. PICK done \in Seq(Seq(T)), current \in Seq(T) : acc = Cut(done, current)
  BY DEF Segmentings, Cut
<1>2. <<>> \in Seq(T) /\ Append(done, current) \in Seq(Seq(T)) /\ Append(current, token) \in Seq(T)
  OBVIOUS
<1>3. EndSegment(acc) \in Segmentings(T)
  <2>1. EndSegment(acc) = Cut(IF current = <<>> THEN done ELSE Append(done, current), <<>>)
    BY <1>1, EndSegmentIs
  <2>2. PICK now \in Seq(Seq(T)) : now = IF current = <<>> THEN done ELSE Append(done, current)
    BY <1>2
  <2>3. Cut(now, <<>>) \in Segmentings(T)
    BY <1>2, EndSegmentIs
  <2> QED
    BY <2>1, <2>2, <2>3
<1>4. SegmentToken(acc, token) =
          IF token.text \in Separators THEN EndSegment(acc) ELSE Cut(done, Append(current, token))
  BY <1>1, EndSegmentIs
<1>5. Cut(done, Append(current, token)) \in Segmentings(T)
  BY <1>2, EndSegmentIs
<1> QED
  BY <1>3, <1>4, <1>5

\* The segments of some tokens and the one that is being read.
CutOf(tokens) == FoldLeft(SegmentToken, NoSegments, tokens)

(* The tokens are gone through one by one,                                   *)
LEMMA SegmentRun ==
    ASSUME NEW T, NEW base \in Segmentings(T), base = NoSegments, NEW s \in Seq(T)
    PROVE  \E g : /\ IsRun(g, [p \in Segmentings(T) \X T |-> SegmentToken(p[1], p[2])], Segmentings(T), base, s)
                  /\ CutOf(s) = g[Len(s)]
<1> DEFINE n == Len(s)
           V == Segmentings(T)
           X == T
           f == [p \in V \X X |-> SegmentToken(p[1], p[2])]
           step == [p \in V \X (1..n) |-> f[<<p[1], s[p[2]]>>]]
           F(d) == [t \in SUBSET DOMAIN s |->
                       IF t = {} THEN base ELSE SegmentToken(d[t \ {Max(t)}], s[Max(t)])]
           c == CHOOSE d : d = F(d)
<1>1. n \in Nat /\ DOMAIN s = 1..n /\ \A i \in 1..n : s[i] \in X
  OBVIOUS
<1>2. f \in [V \X X -> V]
  BY SegmentTokenIs
<1> HIDE DEF V, X
<1>3. \A v \in V, x \in X : f[<<v, x>>] = SegmentToken(v, x)
  OBVIOUS
<1> HIDE DEF f, n
<1>4. step \in [V \X (1..n) -> V]
  BY <1>1, <1>2
<1>5. PICK h \in [SUBSET (1..n) -> V] : IsFold(h, n, base, step)
  <2>1. base \in V
    BY DEF V
  <2> HIDE DEF step
  <2> QED
    BY <1>1, <1>4, <2>1, FoldExists
<1>6. h = F(h)
  <2>1. ASSUME NEW t \in SUBSET (1..n), t # {}
        PROVE  step[<<h[t \ {Max(t)}], Max(t)>>] = SegmentToken(h[t \ {Max(t)}], s[Max(t)])
    <3>1. Max(t) \in 1..n /\ t \ {Max(t)} \in SUBSET (1..n)
      BY <1>1, <2>1, MaxOfSome
    <3>2. h[t \ {Max(t)}] \in V /\ s[Max(t)] \in X
      BY <1>1, <1>5, <3>1
    <3> QED
      BY <1>3, <3>1, <3>2
  <2>2. h = [t \in SUBSET (1..n) |->
               IF t = {} THEN base ELSE step[<<h[t \ {Max(t)}], Max(t)>>]]
    BY <1>5 DEF IsFold
  <2> HIDE DEF step
  <2> QED
    BY <1>1, <2>1, <2>2
<1>7. c = F(c)
  <2> HIDE DEF F
  <2> QED
    BY <1>6
<1>8. CutOf(s) = c[DOMAIN s]
  BY DEF CutOf, FoldLeft, MapThenFoldSet
<1> HIDE DEF c, step
<1> DEFINE g == [k \in 0..n |-> c[1..k]]
<1>9. c[1..0] = base
  <2>1. 1..0 = {} /\ (1..0) \in SUBSET DOMAIN s
    OBVIOUS
  <2> QED
    BY <1>7, <2>1
<1>10. ASSUME NEW k \in 1..n PROVE c[1..k] = SegmentToken(c[1..(k - 1)], s[k])
  <2>1. Max(1..k) = k /\ (1..k) \ {k} = 1..(k - 1) /\ 1..k # {}
    <3>1. k \in Nat /\ k # 0
      BY <1>1
    <3> QED
      BY <3>1, MaxOfAll
  <2>2. (1..k) \in SUBSET DOMAIN s
    BY <1>1
  <2> QED
    BY <1>7, <2>1, <2>2
<1>11. /\ g[0] = base /\ g[n] = c[DOMAIN s] /\ g = [k \in 0..n |-> g[k]]
       /\ \A k \in 1..n : g[k] = SegmentToken(g[k - 1], s[k])
  BY <1>1, <1>9, <1>10
<1> HIDE DEF g
<1>12. \A k \in 1..n : g[k - 1] \in V => g[k] = f[<<g[k - 1], s[k]>>]
  BY <1>1, <1>3, <1>11
<1>13. IsRun(g, f, V, base, s)
  <2>1. s \in Seq(X) /\ g[0] \in V
    BY <1>11 DEF V, X
  <2>2. IsRun(g, f, V, g[0], s)
    BY <1>2, <1>11, <1>12, <2>1, ChainIsRun DEF n
  <2> QED
    BY <1>11, <2>2
<1> QED
  BY <1>8, <1>11, <1>13 DEF n, f, V, X

(* each of them after all the others.                                        *)
LEMMA SegmentStep ==
    ASSUME NEW T, NEW base \in Segmentings(T), base = NoSegments, NEW s \in Seq(T)
    PROVE  /\ CutOf(s) \in Segmentings(T)
           /\ s = <<>> => CutOf(s) = base
           /\ \A x \in T : CutOf(Append(s, x))
                                   = SegmentToken(CutOf(s), x)
<1> DEFINE V == Segmentings(T)
           X == T
           f == [p \in V \X X |-> SegmentToken(p[1], p[2])]
<1>1. PICK g : IsRun(g, f, V, base, s) /\ CutOf(s) = g[Len(s)]
  BY SegmentRun
<1> HIDE DEF V
<1>2. g[Len(s)] \in V /\ (s = <<>> => g[Len(s)] = base)
  BY <1>1 DEF IsRun
<1>3. ASSUME NEW x \in X
      PROVE  CutOf(Append(s, x)) = SegmentToken(CutOf(s), x)
  <2>1. Append(s, x) \in Seq(X)
    OBVIOUS
  <2>2. PICK h : /\ IsRun(h, f, V, base, Append(s, x))
                 /\ CutOf(Append(s, x)) = h[Len(Append(s, x))]
    BY <2>1, SegmentRun DEF V
  <2>3. f[<<g[Len(s)], x>>] = SegmentToken(g[Len(s)], x)
    BY <1>2
  <2>4. h[Len(Append(s, x))] = f[<<g[Len(s)], x>>]
    <3> HIDE DEF f, X
    <3>1. s \in Seq(X)
      BY DEF X
    <3> QED
      BY <1>1, <2>2, <3>1, RunOfMore
  <2> HIDE DEF f
  <2> QED
    BY <1>1, <2>2, <2>3, <2>4
<1> HIDE DEF f, X
<1> QED
  BY <1>1, <1>2, <1>3 DEF V, X

(* Reading nothing, and one token more.                                     *)
LEMMA CutOn ==
    ASSUME NEW T, NEW s \in Seq(T)
    PROVE  /\ CutOf(s) \in Segmentings(T)
           /\ CutOf(<<>>) = Cut(<<>>, <<>>)
           /\ \A x \in T : CutOf(Append(s, x)) = SegmentToken(CutOf(s), x)
<1>1. NoSegments = Cut(<<>>, <<>>)
  BY DEF NoSegments, Cut
<1>2. <<>> \in Seq(Seq(T)) /\ <<>> \in Seq(T)
  OBVIOUS
<1>3. NoSegments \in Segmentings(T)
  BY <1>1, <1>2, EndSegmentIs
<1>4. CutOf(<<>>) = NoSegments
  BY <1>2, <1>3, SegmentStep
<1>5. CutOf(s) \in Segmentings(T) /\ \A x \in T : CutOf(Append(s, x)) = SegmentToken(CutOf(s), x)
  BY <1>3, SegmentStep
<1> QED
  BY <1>1, <1>4, <1>5

(* One more element at the end is one more at the end of what stands there. *)
LEMMA AppendLast ==
    ASSUME NEW S, NEW s \in Seq(S), NEW t \in Seq(S), NEW x \in S
    PROVE  s \o Append(t, x) = Append(s \o t, x)
OBVIOUS

(* The commands of two lines joined by a separator are those of both.       *)
LEMMA SplitTwo ==
    ASSUME NEW T, NEW before \in Seq(T), NEW after \in Seq(T), NEW sep \in T,
           sep.text \in Separators
    PROVE  /\ SplitShellSegments(before) \in Seq(Seq(T))
           /\ SplitShellSegments(before \o <<sep>> \o after)
                  = SplitShellSegments(before) \o SplitShellSegments(after)
<1>0. ASSUME NEW s \in Seq(Seq(T)), NEW t \in Seq(Seq(T)), NEW c \in Seq(T)
      PROVE  s \o Append(t, c) = Append(s \o t, c)
  <2>1. PICK S : S = Seq(T)
    OBVIOUS
  <2>2. s \in Seq(S) /\ t \in Seq(S) /\ c \in S
    BY <2>1
  <2> QED
    BY SMTT(40), <2>2, AppendLast
<1>1. PICK head \in Seq(T) : head = Append(before, sep) /\ head = before \o <<sep>>
  <2>1. (Append(before, sep)) \in Seq(T) /\ Append(before, sep) = before \o <<sep>>
    OBVIOUS
  <2> QED
    BY <2>1
<1>2. PICK old \in Seq(Seq(T)) :
          EndSegment(CutOf(before)) = Cut(old, <<>>) /\ SplitShellSegments(before) = old
  <2>1. PICK done \in Seq(Seq(T)), current \in Seq(T) : CutOf(before) = Cut(done, current)
    BY CutOn DEF Segmentings, Cut
  <2>2. PICK now \in Seq(Seq(T)) : now = IF current = <<>> THEN done ELSE Append(done, current)
    <3>1. (IF current = <<>> THEN done ELSE Append(done, current)) \in Seq(Seq(T))
      OBVIOUS
    <3> QED
      BY <3>1
  <2>3. EndSegment(CutOf(before)) = Cut(now, <<>>)
    BY <2>1, <2>2, EndSegmentIs
  <2>4. Cut(now, <<>>).done = now
    BY DEF Cut
  <2> QED
    BY <2>3, <2>4 DEF SplitShellSegments, CutOf
<1>3. CutOf(head) = Cut(old, <<>>)
  <2>1. CutOf(head) = SegmentToken(CutOf(before), sep)
    BY <1>1, CutOn
  <2> QED
    BY <1>2, <2>1 DEF SegmentToken
<1> DEFINE Right(u) == CutOf(head \o u) = Cut(old \o CutOf(u).done, CutOf(u).current)
           P == {u \in Seq(T) : Right(u)}
<1>4. <<>> \in P
  <2>1. <<>> \in Seq(T) /\ <<>> \in Seq(Seq(T)) /\ head \o <<>> = head /\ old \o <<>> = old
    OBVIOUS
  <2>2. CutOf(<<>>).done = <<>> /\ CutOf(<<>>).current = <<>>
    BY ZenonT(60), <2>1, CutOn, EndSegmentIs
  <2> QED
    BY <1>3, <2>1, <2>2
<1>5. ASSUME NEW u \in Seq(T), u \in P, NEW x \in T PROVE Append(u, x) \in P
  <2>1. PICK text \in Seq(T) : text = head \o u
    <3>1. (head \o u) \in Seq(T)
      OBVIOUS
    <3> QED
      BY <3>1
  <2>2. Append(u, x) \in Seq(T) /\ head \o Append(u, x) = Append(head \o u, x)
    OBVIOUS
  <2>3. PICK done \in Seq(Seq(T)), current \in Seq(T) : CutOf(u) = Cut(done, current)
    BY CutOn DEF Segmentings, Cut
  <2>4. PICK more \in Seq(Seq(T)) : more = old \o done
    <3>1. (old \o done) \in Seq(Seq(T))
      OBVIOUS
    <3> QED
      BY <3>1
  <2>5. CutOf(text) = Cut(more, current)
    <3>1. CutOf(u).done = done /\ CutOf(u).current = current
      BY <2>3, EndSegmentIs
    <3> QED
      BY <1>5, <2>1, <2>4, <3>1
  <2>6. CutOf(Append(text, x)) = SegmentToken(Cut(more, current), x)
    BY <2>5, CutOn
  <2>7. CutOf(Append(u, x)) = SegmentToken(Cut(done, current), x)
    BY <2>3, CutOn
  <2>8. CASE x.text \in Separators
    <3>1. PICK d \in Seq(Seq(T)) : d = IF current = <<>> THEN done ELSE Append(done, current)
      <4>1. (IF current = <<>> THEN done ELSE Append(done, current)) \in Seq(Seq(T))
        OBVIOUS
      <4> QED
        BY <4>1
    <3>2. old \o d = IF current = <<>> THEN more ELSE Append(more, current)
      <4>1. CASE current = <<>>
        BY <2>4, <3>1, <4>1
      <4>2. CASE current # <<>>
        <5>1. d = Append(done, current)
          BY <3>1, <4>2
        <5>3. old \o Append(done, current) = Append(old \o done, current)
          BY <1>0
        <5> QED
          BY <2>4, <4>2, <5>1, <5>3
      <4> QED
        BY <4>1, <4>2
    <3>3. CutOf(Append(u, x)) = Cut(d, <<>>)
      BY <2>7, <2>8, <3>1, EndSegmentIs
    <3>4. CutOf(Append(text, x)) = Cut(old \o d, <<>>)
      BY <2>6, <2>8, <3>2, EndSegmentIs
    <3>5. CutOf(Append(u, x)).done = d /\ CutOf(Append(u, x)).current = <<>>
      BY <3>3 DEF Cut
    <3> QED
      BY <2>1, <2>2, <3>4, <3>5
  <2>9. CASE x.text \notin Separators
    <3>1. PICK now \in Seq(T) : now = Append(current, x)
      <4>1. (Append(current, x)) \in Seq(T)
        OBVIOUS
      <4> QED
        BY <4>1
    <3>2. CutOf(Append(u, x)) = Cut(done, now)
      BY <2>7, <2>9, <3>1, EndSegmentIs
    <3>3. CutOf(Append(text, x)) = Cut(more, now)
      BY <2>6, <2>9, <3>1, EndSegmentIs
    <3>4. CutOf(Append(u, x)).done = done /\ CutOf(Append(u, x)).current = now
      BY <3>2 DEF Cut
    <3> QED
      BY <2>1, <2>2, <2>4, <3>3, <3>4
  <2> QED
    BY <2>8, <2>9
<1>6. Seq(T) \subseteq P
  <2> HIDE DEF P
  <2> QED
    BY <1>4, <1>5, EverySequence
<1>7. PICK done \in Seq(Seq(T)), current \in Seq(T) : CutOf(after) = Cut(done, current)
  BY CutOn DEF Segmentings, Cut
<1>8. PICK more \in Seq(Seq(T)) : more = old \o done
  <2>1. (old \o done) \in Seq(Seq(T))
    OBVIOUS
  <2> QED
    BY <2>1
<1>9. CutOf(head \o after) = Cut(more, current)
  <2>1. CutOf(after).done = done /\ CutOf(after).current = current
    BY <1>7, EndSegmentIs
  <2>2. CutOf(head \o after) = Cut(old \o CutOf(after).done, CutOf(after).current)
    BY <1>6
  <2> QED
    BY <1>8, <2>1, <2>2
<1>10. /\ SplitShellSegments(after) = IF current = <<>> THEN done ELSE Append(done, current)
       /\ SplitShellSegments(head \o after) = IF current = <<>> THEN more ELSE Append(more, current)
  <2>1. /\ EndSegment(CutOf(after)) =
               Cut(IF current = <<>> THEN done ELSE Append(done, current), <<>>)
        /\ EndSegment(CutOf(head \o after)) =
               Cut(IF current = <<>> THEN more ELSE Append(more, current), <<>>)
    BY <1>7, <1>9, EndSegmentIs
  <2>2. \A d : Cut(d, <<>>).done = d
    BY DEF Cut
  <2> QED
    BY <2>1, <2>2 DEF SplitShellSegments, CutOf
<1>11. SplitShellSegments(head \o after) = old \o SplitShellSegments(after)
  <2>1. CASE current = <<>>
    BY <1>8, <1>10, <2>1
  <2>2. CASE current # <<>>
    <3>1. PICK S : S = Seq(T) /\ current \in S /\ old \in Seq(S) /\ done \in Seq(S)
      OBVIOUS
    <3>2. old \o Append(done, current) = Append(old \o done, current)
      BY SMTT(40), <3>1
    <3> QED
      BY <1>8, <1>10, <2>2, <3>2
  <2> QED
    BY <2>1, <2>2
<1> QED
  BY <1>1, <1>2, <1>11

MovedAll(segments) == [k \in DOMAIN segments |-> Moved(segments[k])]

(* Moving a target changes its text and nothing else.                       *)
LEMMA MovedOutIs ==
    ASSUME NEW X, "outside" \in X, NEW token \in Tokens(X)
    PROVE  /\ MovedOut(token) \in Tokens(X)
           /\ MovedOut(token).kind = token.kind
           /\ MovedOut(token).text = IF token.text = "inside" THEN "outside" ELSE token.text
           /\ MovedOut(token).text \in Separators <=> token.text \in Separators
<1>1. /\ MovedOut(token) \in Tokens(X)
      /\ MovedOut(token).kind = token.kind
      /\ MovedOut(token).text = IF token.text = "inside" THEN "outside" ELSE token.text
  BY DEF MovedOut, Tokens
<1> QED
  BY <1>1 DEF Separators

(* The tokens and the segments that are moved are as many as before.        *)
LEMMA MovedIs ==
    ASSUME NEW X, "outside" \in X, NEW s \in Seq(Tokens(X)), NEW x \in Tokens(X)
    PROVE  /\ Moved(s) \in Seq(Tokens(X)) /\ Len(Moved(s)) = Len(s)
           /\ Moved(s) = <<>> <=> s = <<>>
           /\ \A i \in 1..Len(s) : Moved(s)[i] = MovedOut(s[i])
           /\ Moved(Append(s, x)) = Append(Moved(s), MovedOut(x))
<1> DEFINE T == Tokens(X)
           n == Len(s)
<1>1. n \in Nat /\ DOMAIN s = 1..n /\ \A i \in 1..n : s[i] \in T
  OBVIOUS
<1>2. \A y \in T : MovedOut(y) \in T
  BY MovedOutIs
<1> HIDE DEF T
<1>3. Moved(s) = [i \in 1..n |-> MovedOut(s[i])]
  BY <1>1 DEF Moved
<1> HIDE DEF n
<1>4. \A i \in 1..n : MovedOut(s[i]) \in T
  BY <1>1, <1>2
<1>5. [i \in 1..n |-> MovedOut(s[i])] \in Seq(T)
  BY <1>1, <1>4
<1>6. Moved(s) \in Seq(T) /\ Len(Moved(s)) = n /\ \A i \in 1..n : Moved(s)[i] = MovedOut(s[i])
  BY <1>1, <1>3, <1>5
<1>7. Moved(s) = <<>> <=> s = <<>>
  BY <1>1, <1>6 DEF n
<1>8. Moved(Append(s, x)) = Append(Moved(s), MovedOut(x))
  <2> DEFINE longer == Append(s, x)
             a == Moved(longer)
             b == Append(Moved(s), MovedOut(x))
  <2>1. /\ DOMAIN longer = 1..(n + 1) /\ longer[n + 1] = x
        /\ \A i \in 1..n : longer[i] = s[i]
    BY <1>1 DEF n
  <2>2. a = [i \in 1..(n + 1) |-> MovedOut(longer[i])]
    BY <2>1 DEF Moved
  <2>3. x \in T
    BY DEF T
  <2>4. \A i \in 1..(n + 1) : longer[i] \in T
    BY <1>1, <2>1, <2>3
  <2> HIDE DEF longer
  <2>5. a \in Seq(T) /\ Len(a) = n + 1 /\ \A i \in 1..(n + 1) : a[i] = MovedOut(longer[i])
    <3>1. \A i \in 1..(n + 1) : MovedOut(longer[i]) \in T
      BY <1>2, <2>4
    <3>2. n + 1 \in Nat
      BY <1>1
    <3>3. [i \in 1..(n + 1) |-> MovedOut(longer[i])] \in Seq(T)
      BY <3>1, <3>2
    <3> HIDE DEF a
    <3> QED
      BY <2>2, <3>2, <3>3
  <2>6. MovedOut(x) \in T
    BY <1>2, <2>3
  <2>7. b \in Seq(T) /\ Len(b) = n + 1 /\ b[n + 1] = MovedOut(x)
        /\ \A i \in 1..n : b[i] = Moved(s)[i]
    BY <1>1, <1>6, <2>6
  <2>8. ASSUME NEW i \in 1..(n + 1) PROVE a[i] = b[i]
    <3> HIDE DEF a, b
    <3>1. CASE i = n + 1
      BY <1>1, <2>1, <2>5, <2>7, <3>1
    <3>2. CASE i # n + 1
      <4>1. i \in 1..n
        BY <1>1, <3>2
      <4> QED
        BY <1>6, <2>1, <2>5, <2>7, <4>1
    <3> QED
      BY <3>1, <3>2
  <2> HIDE DEF a, b
  <2>9. a = b
    BY <1>1, <2>5, <2>7, <2>8, SeqEqual
  <2> QED
    BY <2>9 DEF a, b, longer
<1> QED
  BY <1>6, <1>7, <1>8 DEF T, n

(* Moving does not change where segments end.                               *)
LEMMA SplitMoved ==
    ASSUME NEW X, "outside" \in X, NEW tokens \in Seq(Tokens(X))
    PROVE  /\ SplitShellSegments(tokens) \in Seq(Seq(Tokens(X)))
           /\ SplitShellSegments(Moved(tokens)) = MovedAll(SplitShellSegments(tokens))
<1> DEFINE T == Tokens(X)
           Right(u) == CutOf(Moved(u)) = Cut(MovedAll(CutOf(u).done), Moved(CutOf(u).current))
           P == {u \in Seq(T) : Right(u)}
<1>1. ASSUME NEW done \in Seq(Seq(T)), NEW current \in Seq(T)
      PROVE  /\ MovedAll(done) \in Seq(Seq(T))
             /\ MovedAll(Append(done, current)) = Append(MovedAll(done), Moved(current))
  <2> DEFINE n == Len(done)
             S == Seq(T)
             longer == Append(done, current)
  <2>1. n \in Nat /\ DOMAIN done = 1..n /\ \A k \in 1..n : done[k] \in S
    OBVIOUS
  <2>2. /\ DOMAIN longer = 1..(n + 1) /\ longer[n + 1] = current
        /\ \A k \in 1..n : longer[k] = done[k]
    BY <2>1
  <2>3. \A u \in S : Moved(u) \in S
    <3>1. ASSUME NEW u \in Seq(Tokens(X)) PROVE Moved(u) \in Seq(Tokens(X))
      <4>1. PICK x : x = [kind |-> "word", text |-> "outside"]
        OBVIOUS
      <4>2. x \in Tokens(X)
        BY <4>1 DEF Tokens
      <4> QED
        BY <4>2, MovedIs
    <3> QED
      BY <3>1
  <2>4. current \in S
    OBVIOUS
  <2> HIDE DEF n, S, longer
  <2>5. MovedAll(done) = [k \in 1..n |-> Moved(done[k])]
    BY <2>1 DEF MovedAll
  <2>6. MovedAll(longer) = [k \in 1..(n + 1) |-> Moved(longer[k])]
    BY <2>2 DEF MovedAll
  <2>7. MovedAll(done) \in Seq(S) /\ Len(MovedAll(done)) = n
        /\ \A k \in 1..n : MovedAll(done)[k] = Moved(done[k])
    <3>1. [k \in 1..n |-> Moved(done[k])] \in Seq(S)
      BY <2>1, <2>3
    <3> QED
      BY <2>1, <2>5, <3>1
  <2>8. MovedAll(longer) \in Seq(S) /\ Len(MovedAll(longer)) = n + 1
        /\ \A k \in 1..(n + 1) : MovedAll(longer)[k] = Moved(longer[k])
    <3>1. \A k \in 1..(n + 1) : longer[k] \in S
      BY <2>1, <2>2, <2>4
    <3>2. n + 1 \in Nat /\ \A k \in 1..(n + 1) : Moved(longer[k]) \in S
      BY <2>1, <2>3, <3>1
    <3>3. [k \in 1..(n + 1) |-> Moved(longer[k])] \in Seq(S)
      BY <3>2
    <3> QED
      BY <2>6, <3>2, <3>3
  <2> DEFINE b == Append(MovedAll(done), Moved(current))
  <2>9. Moved(current) \in S
    BY <2>3, <2>4
  <2>10. b \in Seq(S) /\ Len(b) = n + 1 /\ b[n + 1] = Moved(current)
         /\ \A k \in 1..n : b[k] = MovedAll(done)[k]
    BY <2>1, <2>7, <2>9
  <2> HIDE DEF b
  <2>11. ASSUME NEW k \in 1..(n + 1) PROVE MovedAll(longer)[k] = b[k]
    <3>1. CASE k = n + 1
      BY <2>2, <2>8, <2>10, <3>1
    <3>2. CASE k # n + 1
      <4>1. k \in 1..n
        BY <2>1, <3>2
      <4> QED
        BY <2>2, <2>7, <2>8, <2>10, <4>1
    <3> QED
      BY <3>1, <3>2
  <2>12. MovedAll(longer) = b
    BY <2>1, <2>8, <2>10, <2>11, SeqEqual
  <2> QED
    BY <2>7, <2>12 DEF b, S, longer
<1>2. ASSUME NEW u \in Seq(T), NEW x \in T
      PROVE  /\ Moved(u) \in Seq(T) /\ (Moved(u) = <<>> <=> u = <<>>)
             /\ Moved(Append(u, x)) = Append(Moved(u), MovedOut(x))
             /\ MovedOut(x) \in T /\ (MovedOut(x).text \in Separators <=> x.text \in Separators)
  BY MovedIs, MovedOutIs
<1>3. \E x : x \in T
  <2>1. [kind |-> "word", text |-> "outside"] \in T
    BY DEF Tokens
  <2> QED
    BY <2>1
<1> HIDE DEF T
<1>4. /\ Moved(<<>>) = <<>> /\ MovedAll(<<>>) = <<>>
      /\ \A u \in Seq(T) : Moved(u) \in Seq(T) /\ (Moved(u) = <<>> <=> u = <<>>)
  <2>1. \A u \in Seq(T) : Moved(u) \in Seq(T) /\ (Moved(u) = <<>> <=> u = <<>>)
    BY <1>2, <1>3
  <2>2. <<>> \in Seq(T)
    OBVIOUS
  <2>3. MovedAll(<<>>) = <<>>
    BY DEF MovedAll
  <2> QED
    BY <2>1, <2>2, <2>3
<1>5. ASSUME NEW done \in Seq(Seq(T)), NEW current \in Seq(T)
      PROVE  EndSegment(Cut(MovedAll(done), Moved(current)))
                 = Cut(MovedAll(EndSegment(Cut(done, current)).done), <<>>)
  <2>1. PICK d \in Seq(Seq(T)) : d = IF current = <<>> THEN done ELSE Append(done, current)
    <3>1. (IF current = <<>> THEN done ELSE Append(done, current)) \in Seq(Seq(T))
      OBVIOUS
    <3> QED
      BY <3>1
  <2>2. EndSegment(Cut(done, current)) = Cut(d, <<>>)
    BY <2>1, EndSegmentIs
  <2>3. EndSegment(Cut(done, current)).done = d
    BY <2>2 DEF Cut
  <2>4. MovedAll(done) \in Seq(Seq(T)) /\ Moved(current) \in Seq(T)
    BY <1>1, <1>4
  <2>5. EndSegment(Cut(MovedAll(done), Moved(current))) =
            Cut(IF Moved(current) = <<>> THEN MovedAll(done)
                ELSE Append(MovedAll(done), Moved(current)), <<>>)
    BY <2>4, EndSegmentIs
  <2>6. MovedAll(d) = IF Moved(current) = <<>> THEN MovedAll(done)
                      ELSE Append(MovedAll(done), Moved(current))
    BY <1>1, <1>4, <2>1
  <2> QED
    BY <2>3, <2>5, <2>6
<1>6. <<>> \in P
  <2>1. <<>> \in Seq(T) /\ <<>> \in Seq(Seq(T))
    OBVIOUS
  <2>2. CutOf(<<>>) = Cut(<<>>, <<>>) /\ CutOf(<<>>).done = <<>> /\ CutOf(<<>>).current = <<>>
    BY <2>1, CutOn, EndSegmentIs
  <2> QED
    BY <1>4, <2>1, <2>2
<1>7. ASSUME NEW u \in Seq(T), u \in P, NEW x \in T PROVE Append(u, x) \in P
  <2>1. PICK done \in Seq(Seq(T)), current \in Seq(T) : CutOf(u) = Cut(done, current)
    BY CutOn DEF Segmentings, Cut
  <2>2. CutOf(u).done = done /\ CutOf(u).current = current
    BY <2>1, EndSegmentIs
  <2>3. PICK there \in Seq(T) : there = Moved(u)
    BY <1>2
  <2>4. PICK y \in T : y = MovedOut(x)
    BY <1>2
  <2>5. CutOf(there) = Cut(MovedAll(done), Moved(current))
    BY <1>7, <2>2, <2>3
  <2>6. PICK md \in Seq(Seq(T)) : md = MovedAll(done)
    BY <1>1
  <2>7. PICK mc \in Seq(T) : mc = Moved(current)
    BY <1>4
  <2>8. CutOf(Append(there, y)) = SegmentToken(Cut(md, mc), y)
    BY <2>5, <2>6, <2>7, CutOn
  <2>9. CutOf(Append(u, x)) = SegmentToken(Cut(done, current), x)
    BY <2>1, CutOn
  <2>10. Moved(Append(u, x)) = Append(there, y) /\ Append(u, x) \in Seq(T)
    BY <1>2, <2>3, <2>4
  <2>11. y.text \in Separators <=> x.text \in Separators
    BY <1>2, <2>4
  <2>12. CASE x.text \in Separators
    <3>1. CutOf(Append(u, x)) = EndSegment(Cut(done, current))
      BY <2>9, <2>12, EndSegmentIs
    <3>2. CutOf(Append(there, y)) = EndSegment(Cut(md, mc))
      BY <2>8, <2>11, <2>12, EndSegmentIs
    <3>3. CutOf(Append(there, y)) = Cut(MovedAll(CutOf(Append(u, x)).done), <<>>)
      BY <1>5, <2>6, <2>7, <3>1, <3>2
    <3>4. CutOf(Append(u, x)).current = <<>>
      <4>1. EndSegment(Cut(done, current)) =
                Cut(IF current = <<>> THEN done ELSE Append(done, current), <<>>)
        BY EndSegmentIs
      <4>2. \A d : Cut(d, <<>>).current = <<>>
        BY DEF Cut
      <4> QED
        BY <3>1, <4>1, <4>2
    <3> QED
      BY <1>4, <2>10, <3>3, <3>4
  <2>13. CASE x.text \notin Separators
    <3>1. PICK now \in Seq(T) : now = Append(current, x)
      <4>1. (Append(current, x)) \in Seq(T)
        OBVIOUS
      <4> QED
        BY <4>1
    <3>2. CutOf(Append(u, x)) = Cut(done, now)
      BY <2>9, <2>13, <3>1, EndSegmentIs
    <3>3. CutOf(Append(there, y)) = Cut(md, Append(mc, y))
      BY <2>8, <2>11, <2>13, EndSegmentIs
    <3>4. Moved(now) = Append(mc, y)
      BY <1>2, <2>4, <2>7, <3>1
    <3>5. CutOf(Append(u, x)).done = done /\ CutOf(Append(u, x)).current = now
      BY <3>2 DEF Cut
    <3> QED
      BY <2>6, <2>10, <3>3, <3>4, <3>5
  <2> QED
    BY <2>12, <2>13
<1>8. Seq(T) \subseteq P
  <2> HIDE DEF P
  <2> QED
    BY <1>6, <1>7, EverySequence
<1>9. tokens \in Seq(T)
  BY DEF T
<1>10. PICK done \in Seq(Seq(T)), current \in Seq(T) : CutOf(tokens) = Cut(done, current)
  BY <1>9, CutOn DEF Segmentings, Cut
<1>11. CutOf(Moved(tokens)) = Cut(MovedAll(done), Moved(current))
  <2>1. CutOf(tokens).done = done /\ CutOf(tokens).current = current
    BY <1>10, EndSegmentIs
  <2>2. CutOf(Moved(tokens)) = Cut(MovedAll(CutOf(tokens).done), Moved(CutOf(tokens).current))
    BY <1>8, <1>9
  <2> QED
    BY <2>1, <2>2
<1>12. /\ SplitShellSegments(tokens) = EndSegment(Cut(done, current)).done
       /\ SplitShellSegments(Moved(tokens)) = EndSegment(Cut(MovedAll(done), Moved(current))).done
  BY <1>10, <1>11 DEF SplitShellSegments, CutOf
<1>13. SplitShellSegments(Moved(tokens)) = MovedAll(SplitShellSegments(tokens))
  <2>1. \A d : Cut(d, <<>>).done = d
    BY DEF Cut
  <2> QED
    BY <1>5, <1>12, <2>1
<1>14. SplitShellSegments(tokens) \in Seq(Seq(T))
  <2>1. EndSegment(Cut(done, current)) =
            Cut(IF current = <<>> THEN done ELSE Append(done, current), <<>>)
    BY EndSegmentIs
  <2>2. PICK d \in Seq(Seq(T)) : d = IF current = <<>> THEN done ELSE Append(done, current)
    <3>1. (IF current = <<>> THEN done ELSE Append(done, current)) \in Seq(Seq(T))
      OBVIOUS
    <3> QED
      BY <3>1
  <2>3. Cut(d, <<>>).done = d
    BY DEF Cut
  <2> QED
    BY <1>12, <2>1, <2>2, <2>3
<1> QED
  BY <1>13, <1>14 DEF T

(* Some of the numbers up to n have a least and a greatest among them.      *)
LEMMA EndsOfSome ==
    ASSUME NEW n \in Nat, NEW s \in SUBSET (1..n), s # {}
    PROVE  Min(s) \in s /\ Max(s) \in s
<1>1. s \subseteq Nat
  OBVIOUS
<1>2. \E x \in s : \A y \in s : x <= y
  BY <1>1, LeastMember
<1> QED
  BY <1>2, MaxOfSome DEF Min

(* A segment is asked about for a redirection, its command or an argument.  *)
LEMMA AskedAbout ==
    ASSUME NEW segment
    PROVE  ClassifySegmentWriteAccess(segment) <=>
               \/ \E i \in DOMAIN segment : RedirectsOut(segment, i)
               \/ SegmentCommandName(segment) # "" /\ SegmentCommandName(segment) \in HighRisk
               \/ /\ SegmentCommandName(segment) # ""
                  /\ \E i \in WriteTargetIndexes(SegmentCommandName(segment), segment) :
                         ClassifyWriteTarget(segment[i].text)
BY DEF ClassifySegmentWriteAccess

(* What is asked about stays so when targets are moved out.                 *)
LEMMA MovedIsAsked ==
    ASSUME NEW X, "outside" \in X, NEW segment \in Seq(Tokens(X)),
           ClassifySegmentWriteAccess(segment)
    PROVE  ClassifySegmentWriteAccess(Moved(segment))
<1> DEFINE n == Len(segment)
           there == Moved(segment)
           name == SegmentCommandName(segment)
           newName == SegmentCommandName(there)
           names == {i \in WordIndexes(segment, 1) : segment[i].text \notin Assignments}
<1>1. n \in Nat /\ DOMAIN segment = 1..n /\ \A i \in 1..n : segment[i] \in Tokens(X)
  OBVIOUS
<1>2. Len(there) = n /\ DOMAIN there = 1..n /\ \A i \in 1..n : there[i] = MovedOut(segment[i])
  <2>1. [kind |-> "word", text |-> "outside"] \in Tokens(X)
    BY DEF Tokens
  <2>2. there \in Seq(Tokens(X)) /\ Len(there) = n
        /\ \A i \in 1..n : there[i] = MovedOut(segment[i])
    BY <2>1, MovedIs
  <2>3. DOMAIN there = 1..n
    BY <2>2
  <2> QED
    BY <2>2, <2>3
<1>3. \A i \in 1..n : /\ there[i].kind = segment[i].kind
                      /\ there[i].text = IF segment[i].text = "inside" THEN "outside"
                                         ELSE segment[i].text
  BY <1>1, <1>2, MovedOutIs
<1>15. SUFFICES ClassifySegmentWriteAccess(there)
  OBVIOUS
<1> HIDE DEF there
<1>4. \A i \in 1..n : /\ IsWord(there[i]) <=> IsWord(segment[i])
                      /\ Plain(there[i]) <=> Plain(segment[i])
                      /\ there[i].text \in Assignments <=> segment[i].text \in Assignments
                      /\ segment[i].text \in Redirections => there[i].text \in Redirections
                      /\ ClassifyWriteTarget(segment[i].text) =>
                             ClassifyWriteTarget(there[i].text)
                      /\ \A t \in {"rm", "cp", "ln"} : there[i].text = t <=> segment[i].text = t
  BY <1>3 DEF IsWord, Plain, Flags, Assignments, Redirections, ClassifyWriteTarget
<1>5. ASSUME NEW start \in Nat \ {0}
      PROVE  /\ WordIndexes(segment, start) \in SUBSET (1..n)
             /\ NonFlagWordIndexes(segment, start) \in SUBSET (1..n)
             /\ WordIndexes(there, start) = WordIndexes(segment, start)
             /\ NonFlagWordIndexes(there, start) = NonFlagWordIndexes(segment, start)
  <2>1. \A i \in start..n : i \in 1..n
    BY <1>1
  <2> QED
    BY <1>2, <1>4, <2>1 DEF WordIndexes, NonFlagWordIndexes
<1>6. /\ names \in SUBSET (1..n)
      /\ names = {i \in WordIndexes(there, 1) : there[i].text \notin Assignments}
      /\ name = IF names = {} THEN "" ELSE segment[Min(names)].text
  BY <1>4, <1>5 DEF SegmentCommandName
<1>7. newName = IF names = {} THEN "" ELSE there[Min(names)].text
  BY <1>6 DEF SegmentCommandName
<1>8. names # {} => Min(names) \in names /\ Min(names) \in 1..n
  <2> HIDE DEF names, n
  <2> QED
    BY <1>1, <1>6, EndsOfSome
<1>9. newName = IF name = "inside" THEN "outside" ELSE name
  <2> HIDE DEF names, name, newName
  <2> QED
    BY <1>3, <1>6, <1>7, <1>8
<1>14. ClassifySegmentWriteAccess(there) <=>
           \/ \E i \in DOMAIN there : RedirectsOut(there, i)
           \/ newName # "" /\ newName \in HighRisk
           \/ newName # "" /\ \E i \in WriteTargetIndexes(newName, there) :
                                  ClassifyWriteTarget(there[i].text)
  BY AskedAbout
<1>10. CASE \E i \in 1..n : RedirectsOut(segment, i)
  <2>1. PICK i \in 1..n : RedirectsOut(segment, i)
    BY <1>10
  <2> DEFINE next == WordIndexes(segment, i + 1)
  <2>2. /\ segment[i].text \in Redirections
        /\ next = {} \/ ClassifyWriteTarget(segment[Min(next)].text)
    BY <2>1 DEF RedirectsOut
  <2>3. next \in SUBSET (1..n) /\ WordIndexes(there, i + 1) = next
    <3>1. i + 1 \in Nat \ {0}
      BY <1>1
    <3> QED
      BY <1>5, <3>1
  <2> HIDE DEF next
  <2>4. next # {} => Min(next) \in 1..n
    BY <1>1, <2>3, EndsOfSome
  <2>5. next = {} \/ ClassifyWriteTarget(there[Min(next)].text)
    BY <1>4, <2>2, <2>4
  <2>6. RedirectsOut(there, i)
    BY <1>4, <2>2, <2>3, <2>5 DEF RedirectsOut
  <2> QED
    BY <1>2, <1>14, <2>6
<1>11. CASE name # "" /\ name \in HighRisk
  <2>1. newName = name
    BY <1>9, <1>11 DEF HighRisk
  <2> HIDE DEF name, newName
  <2> QED
    BY <1>11, <1>14, <2>1
<1>12. CASE name # "" /\ \E i \in WriteTargetIndexes(name, segment) :
                             ClassifyWriteTarget(segment[i].text)
  <2> DEFINE found == {i \in WordIndexes(segment, 1) : segment[i].text = name}
             at == Min(found)
             words == NonFlagWordIndexes(segment, at + 1)
  <2>1. name \in {"rm", "cp", "ln"}
    <3>1. SUFFICES ASSUME name \notin {"rm", "cp", "ln"} PROVE FALSE
      OBVIOUS
    <3>2. name \notin EveryArgument /\ name \notin LastArgument /\ name # "ln"
      BY <3>1 DEF EveryArgument, LastArgument
    <3> HIDE DEF name
    <3>3. WriteTargetIndexes(name, segment) = {}
      BY <3>2 DEF WriteTargetIndexes
    <3> QED
      BY <1>12, <3>3
  <2>2. newName = name
    BY <1>9, <2>1
  <2>3. names # {} /\ name = segment[Min(names)].text
    BY <1>6, <1>12
  <2>4. found \in SUBSET (1..n) /\ found # {}
    <3>1. Min(names) \in found
      <4> HIDE DEF names
      <4>1. Min(names) \in names
        BY <1>8, <2>3
      <4>2. Min(names) \in WordIndexes(segment, 1)
        BY <4>1 DEF names
      <4> HIDE DEF name
      <4> QED
        BY <2>3, <4>2
    <3>2. WordIndexes(segment, 1) \in SUBSET (1..n)
      BY <1>5
    <3> QED
      BY <3>1, <3>2
  <2>5. found = {i \in WordIndexes(there, 1) : there[i].text = name}
    <3>1. \A i \in WordIndexes(segment, 1) : there[i].text = name <=> segment[i].text = name
      <4>1. WordIndexes(segment, 1) \in SUBSET (1..n)
        BY <1>5
      <4> HIDE DEF name
      <4> QED
        BY <1>4, <2>1, <4>1
    <3>2. WordIndexes(there, 1) = WordIndexes(segment, 1)
      BY <1>5
    <3> HIDE DEF name
    <3> QED
      BY <3>1, <3>2
  <2>6. at \in 1..n
    <3> HIDE DEF found, n
    <3> QED
      BY <1>1, <2>4, EndsOfSome
  <2>7. words \in SUBSET (1..n) /\ NonFlagWordIndexes(there, at + 1) = words
    <3>1. at + 1 \in Nat \ {0}
      BY <1>1, <2>6
    <3> HIDE DEF at
    <3> QED
      BY <1>5, <3>1
  <2>8. WriteTargetIndexes(name, there) = WriteTargetIndexes(name, segment)
    <3> HIDE DEF name
    <3> QED
      BY <2>5, <2>7 DEF WriteTargetIndexes
  <2>9. WriteTargetIndexes(name, segment) \subseteq 1..n
    <3>1. words # {} => Max(words) \in words
      <4> HIDE DEF words, n
      <4> QED
        BY <1>1, <2>7, EndsOfSome
    <3>2. WriteTargetIndexes(name, segment) =
              CASE name \in EveryArgument -> words
                [] name \in LastArgument /\ words # {} -> {Max(words)}
                [] name = "ln" /\ Cardinality(words) >= 2 -> {Max(words)}
                [] OTHER -> {}
      BY DEF WriteTargetIndexes
    <3>3. Cardinality(words) >= 2 => words # {}
      <4>1. words = {} => Cardinality(words) = 0
        BY FS_EmptySet
      <4> HIDE DEF words
      <4> QED
        BY <4>1
    <3> HIDE DEF words, name
    <3>4. CASE name = "rm"
      <4>1. name \in EveryArgument /\ name \notin LastArgument /\ name # "ln"
        BY <3>4 DEF EveryArgument, LastArgument
      <4>2. WriteTargetIndexes(name, segment) = words
        BY <3>2, <4>1
      <4> QED
        BY <2>7, <4>2
    <3>5. CASE name = "cp"
      <4>1. name \notin EveryArgument /\ name \in LastArgument /\ name # "ln"
        BY <3>5 DEF EveryArgument, LastArgument
      <4>2. CASE words = {}
        <5>1. WriteTargetIndexes(name, segment) = {}
          BY <3>2, <4>1, <4>2
        <5> QED
          BY <5>1
      <4>3. CASE words # {}
        <5>1. WriteTargetIndexes(name, segment) = {Max(words)}
          BY <3>2, <4>1, <4>3
        <5> QED
          BY <2>7, <3>1, <4>3, <5>1
      <4> QED
        BY <4>2, <4>3
    <3>6. CASE name = "ln"
      <4>1. name \notin EveryArgument /\ name \notin LastArgument
        BY <3>6 DEF EveryArgument, LastArgument
      <4>2. CASE Cardinality(words) >= 2
        <5>1. WriteTargetIndexes(name, segment) = {Max(words)}
          BY <3>2, <3>6, <4>1, <4>2
        <5> QED
          BY <2>7, <3>1, <3>3, <4>2, <5>1
      <4>3. CASE ~(Cardinality(words) >= 2)
        <5>1. WriteTargetIndexes(name, segment) = {}
          BY <3>2, <3>6, <4>1, <4>3
        <5> QED
          BY <5>1
      <4> QED
        BY <4>2, <4>3
    <3> QED
      BY <2>1, <3>4, <3>5, <3>6
  <2>10. \E i \in WriteTargetIndexes(name, there) : ClassifyWriteTarget(there[i].text)
    <3> HIDE DEF name
    <3> QED
      BY <1>4, <1>12, <2>8, <2>9
  <2> HIDE DEF name, newName
  <2> QED
    BY <1>12, <1>14, <2>2, <2>10
<1>13. \/ \E i \in 1..n : RedirectsOut(segment, i)
       \/ name # "" /\ name \in HighRisk
       \/ name # "" /\ \E i \in WriteTargetIndexes(name, segment) :
                           ClassifyWriteTarget(segment[i].text)
  BY <1>1 DEF ClassifySegmentWriteAccess
<1> QED
  BY <1>10, <1>11, <1>12, <1>13

SomeIn(s, Q) == \E i \in DOMAIN s : s[i] \in Q

(* What one of two sequences has, and what their concatenation has.         *)
LEMMA SomeOfTwo ==
    ASSUME NEW S, NEW s \in Seq(S), NEW t \in Seq(S), NEW Q
    PROVE  SomeIn(s \o t, Q) <=> SomeIn(s, Q) \/ SomeIn(t, Q)
<1> DEFINE m == Len(s)
           n == Len(t)
           u == s \o t
<1>1. /\ m \in Nat /\ n \in Nat /\ DOMAIN s = 1..m /\ DOMAIN t = 1..n /\ DOMAIN u = 1..(m + n)
      /\ \A i \in 1..m : u[i] = s[i]
      /\ \A i \in 1..n : u[m + i] = t[i]
  OBVIOUS
<1> HIDE DEF m, n, u
<1>2. ASSUME NEW i \in 1..(m + n), u[i] \in Q
      PROVE  (\E k \in 1..m : s[k] \in Q) \/ (\E k \in 1..n : t[k] \in Q)
  <2>1. CASE i \in 1..m
    BY <1>1, <1>2, <2>1
  <2>2. CASE i \notin 1..m
    <3>1. PICK k \in 1..n : i = m + k
      <4>1. i - m \in 1..n /\ i = m + (i - m)
        BY <1>1, <2>2
      <4> QED
        BY <4>1
    <3> QED
      BY <1>1, <1>2, <3>1
  <2> QED
    BY <2>1, <2>2
<1>3. ASSUME NEW k \in 1..m, s[k] \in Q PROVE \E i \in 1..(m + n) : u[i] \in Q
  <2>1. k \in 1..(m + n)
    BY <1>1
  <2> QED
    BY <1>1, <1>3, <2>1
<1>4. ASSUME NEW k \in 1..n, t[k] \in Q PROVE \E i \in 1..(m + n) : u[i] \in Q
  <2>1. m + k \in 1..(m + n)
    BY <1>1
  <2> QED
    BY <1>1, <1>4, <2>1
<1> QED
  BY <1>1, <1>2, <1>3, <1>4 DEF u, SomeIn

(* What makes a parsed line acceptable.                                     *)
LEMMA AcceptedIs ==
    ASSUME NEW X, NEW tokens \in Seq(Tokens(X)), NEW network
    PROVE  Accepted(tokens, network) <=>
               /\ tokens # <<>>
               /\ network \/ ~\E i \in DOMAIN tokens :
                                 IsWord(tokens[i]) /\ tokens[i].text \in NetworkTools
               /\ ~\E i \in DOMAIN SplitShellSegments(tokens) :
                       ClassifySegmentWriteAccess(SplitShellSegments(tokens)[i])
<1>1. tokens # Unparsed
  <2>1. SUFFICES ASSUME tokens = Unparsed PROVE FALSE
    OBVIOUS
  <2>2. PICK error : error = Token("error", <<>>)
    OBVIOUS
  <2>3. tokens = <<error>>
    BY <2>1, <2>2 DEF Unparsed
  <2>4. tokens[1] = error /\ tokens[1] \in Tokens(X)
    BY <2>3
  <2>5. error.kind = "error"
    BY <2>2 DEF Token
  <2> QED
    BY <2>4, <2>5 DEF Tokens
<1> DEFINE asked == \/ FALSE \/ tokens = <<>> \/ tokens = Unparsed
                    \/ ~network /\ \E i \in DOMAIN tokens :
                           IsWord(tokens[i]) /\ tokens[i].text \in NetworkTools
                    \/ \E i \in DOMAIN SplitShellSegments(tokens) :
                           ClassifySegmentWriteAccess(SplitShellSegments(tokens)[i])
<1>2. ClassifyExecCommandAccess(tokens, network, FALSE) = IF asked THEN "ask" ELSE "sandboxed"
  BY DEF ClassifyExecCommandAccess
<1>3. Accepted(tokens, network) <=> ~asked
  <2> HIDE DEF asked
  <2> QED
    BY <1>2 DEF Accepted
<1> QED
  BY <1>1, <1>3

(* What stands after the last separator runs on in the segment being read. *)
LEMMA OneRunsOn ==
    ASSUME NEW T, NEW head \in Seq(T), NEW after \in Seq(T), OneCommand(after)
    PROVE  CutOf(head \o after) = Cut(CutOf(head).done, CutOf(head).current \o after)
<1> DEFINE Ordinary == {x \in T : x.text \notin Separators}
           P == {s \in Seq(Ordinary) : CutOf(head \o s) = Cut(CutOf(head).done, CutOf(head).current \o s)}
<1>1. PICK done \in Seq(Seq(T)), current \in Seq(T) : CutOf(head) = Cut(done, current)
  BY CutOn DEF Segmentings, Cut
<1>2. CutOf(head).done = done /\ CutOf(head).current = current
  BY <1>1 DEF Cut
<1>3. <<>> \in P
  <2>1. PICK none \in Seq(Ordinary) : none = <<>>
    <3> HIDE DEF Ordinary
    <3>1. <<>> \in Seq(Ordinary)
      OBVIOUS
    <3> QED
      BY <3>1
  <2>2. head \o none = head /\ current \o none = current
    BY <2>1
  <2> QED
    BY <1>1, <1>2, <2>1, <2>2
<1>4. ASSUME NEW s \in Seq(Ordinary), s \in P, NEW x \in Ordinary PROVE Append(s, x) \in P
  <2>1. s \in Seq(T) /\ x \in T /\ x.text \notin Separators /\ Append(s, x) \in Seq(Ordinary)
    OBVIOUS
  <2>2. PICK u \in Seq(T) : u = head \o s
    <3>1. head \o s \in Seq(T)
      BY <2>1
    <3> QED
      BY <3>1
  <2>3. PICK c \in Seq(T) : c = current \o s
    <3>1. current \o s \in Seq(T)
      BY <2>1
    <3> QED
      BY <3>1
  <2>4. CutOf(Append(u, x)) = SegmentToken(CutOf(u), x)
    BY <2>1, CutOn
  <2>5. CutOf(u) = Cut(done, c)
    BY <1>2, <1>4, <2>2, <2>3
  <2>6. SegmentToken(Cut(done, c), x) = Cut(done, Append(c, x))
    BY <2>1, EndSegmentIs
  <2>7. head \o Append(s, x) = Append(u, x) /\ current \o Append(s, x) = Append(c, x)
    <3>1. head \o Append(s, x) = Append(head \o s, x)
      BY <2>1, AppendLast
    <3>2. current \o Append(s, x) = Append(current \o s, x)
      BY <2>1, AppendLast
    <3> QED
      BY <2>2, <2>3, <3>1, <3>2
  <2> QED
    BY <1>2, <2>1, <2>4, <2>5, <2>6, <2>7
<1>5. after \in Seq(Ordinary)
  <2>1. \A i \in 1..Len(after) : after[i] \in Ordinary
    BY DEF OneCommand
  <2>2. PICK n \in Nat : n = Len(after) /\ after \in [1..n -> T]
    OBVIOUS
  <2> HIDE DEF Ordinary
  <2>3. after \in [1..n -> Ordinary]
    BY <2>1, <2>2
  <2> QED
    BY <2>3, SeqDef
<1>6. Seq(Ordinary) \subseteq P
  <2> HIDE DEF P, Ordinary
  <2> QED
    BY <1>3, <1>4, EverySequence
<1> QED
  BY <1>5, <1>6

(* A redirection is asked about whatever stands before it.                  *)
LEMMA RedirectionStays ==
    ASSUME NEW T, NEW current \in Seq(T), NEW after \in Seq(T), NEW i \in DOMAIN after,
           RedirectsOut(after, i)
    PROVE  /\ Len(current) + i \in DOMAIN (current \o after)
           /\ RedirectsOut(current \o after, Len(current) + i)
<1> DEFINE k == Len(current)
           n == Len(after)
           both == current \o after
           here == WordIndexes(after, i + 1)
           there == WordIndexes(both, k + i + 1)
<1>1. /\ k \in Nat /\ n \in Nat /\ i \in 1..n /\ DOMAIN both = 1..(k + n) /\ Len(both) = k + n
      /\ \A j \in 1..n : both[k + j] = after[j]
  OBVIOUS
<1> HIDE DEF k, n, both
<1>2. /\ there \subseteq Nat /\ here \subseteq 1..n
      /\ \A j \in 1..n : j \in here <=> k + j \in there
      /\ \A j \in there : \E m \in 1..n : j = k + m
  <2>1. here = {j \in (i + 1)..n : IsWord(after[j])}
        /\ there = {j \in (k + i + 1)..(k + n) : IsWord(both[j])}
    BY <1>1 DEF WordIndexes, n
  <2>2. \A j \in (k + i + 1)..(k + n) : j \in Nat /\ j - k \in 1..n /\ j = k + (j - k)
    BY <1>1
  <2>3. \A j \in 1..n : k + j \in (k + i + 1)..(k + n) <=> j \in (i + 1)..n
    BY <1>1
  <2>4. (i + 1)..n \subseteq 1..n
    BY <1>1
  <2> HIDE DEF here, there
  <2> QED
    BY <1>1, <2>1, <2>2, <2>3, <2>4
<1> HIDE DEF here, there
<1>3. after[i].text \in Redirections /\ (here = {} \/ ClassifyWriteTarget(after[Min(here)].text))
  BY DEF RedirectsOut, here
<1>4. there = {} \/ ClassifyWriteTarget(both[Min(there)].text)
  <2>1. CASE here = {}
    BY <1>2, <2>1
  <2>2. CASE here # {}
    <3>1. Min(here) \in here /\ \A y \in here : Min(here) <= y
      <4>1. here \subseteq Nat /\ here # {}
        BY <1>2, <2>2
      <4>2. \E x \in here : \A y \in here : x <= y
        BY <4>1, LeastMember
      <4> QED
        BY <4>2 DEF Min
    <3>2. PICK j \in 1..n : j = Min(here) /\ j \in here /\ \A y \in here : j <= y
      BY <1>2, <3>1
    <3>3. k + j \in there /\ \A y \in there : k + j <= y
      <4>1. ASSUME NEW y \in there PROVE k + j <= y
        <5>1. PICK m \in 1..n : y = k + m
          BY <1>2
        <5>2. m \in here
          BY <1>2, <5>1
        <5>3. j <= m
          BY <3>2, <5>2
        <5> QED
          BY <1>1, <5>1, <5>3
      <4> QED
        BY <1>2, <3>2, <4>1
    <3>4. Min(there) \in there /\ \A y \in there : Min(there) <= y
      BY <3>3 DEF Min
    <3>5. Min(there) = k + j
      <4>1. Min(there) \in Nat /\ k + j \in Nat
        BY <1>2, <3>3, <3>4
      <4>2. Min(there) <= k + j /\ k + j <= Min(there)
        BY <3>3, <3>4
      <4> QED
        BY <4>1, <4>2
    <3> QED
      BY <1>1, <1>3, <2>2, <3>2, <3>5
  <2> QED
    BY <2>1, <2>2
<1>5. WordIndexes(both, (k + i) + 1) = there
  BY DEF there
<1>6. RedirectsOut(both, k + i)
  BY <1>1, <1>3, <1>4, <1>5 DEF RedirectsOut
<1> QED
  BY <1>1, <1>6 DEF both, k

(* Of a command that runs on, the network tools and the redirections are    *)
(* judged.                                                                  *)
LEMMA RunningOnIsJudged ==
    ASSUME NEW X, NEW head \in Seq(Tokens(X)), NEW after \in Seq(Tokens(X)), NEW network,
           OneCommand(after), Accepted(head \o after, network), NEW i \in DOMAIN after
    PROVE  /\ network \/ ~IsWord(after[i]) \/ after[i].text \notin NetworkTools
           /\ ~RedirectsOut(after, i)
<1> DEFINE T == Tokens(X)
<1>1. PICK line \in Seq(T) : line = head \o after
  <2> HIDE DEF T
  <2>1. head \in Seq(T) /\ after \in Seq(T)
    BY DEF T
  <2>2. head \o after \in Seq(T)
    BY <2>1
  <2> QED
    BY <2>2
<1>2. /\ network \/ ~\E j \in DOMAIN line : IsWord(line[j]) /\ line[j].text \in NetworkTools
      /\ ~\E j \in DOMAIN SplitShellSegments(line) :
             ClassifySegmentWriteAccess(SplitShellSegments(line)[j])
  <2>1. line \in Seq(Tokens(X)) /\ Accepted(line, network)
    BY <1>1
  <2> HIDE DEF T
  <2> QED
    BY <2>1, AcceptedIs
<1> HIDE DEF T
<1>3. head \in Seq(T) /\ after \in Seq(T)
  BY DEF T
<1>4. network \/ ~IsWord(after[i]) \/ after[i].text \notin NetworkTools
  <2>1. Len(head) + i \in DOMAIN line /\ line[Len(head) + i] = after[i]
    BY <1>1, <1>3
  <2> QED
    BY <1>2, <2>1
<1>5. ~RedirectsOut(after, i)
  <2>1. SUFFICES ASSUME RedirectsOut(after, i) PROVE FALSE
    OBVIOUS
  <2>2. PICK done \in Seq(Seq(T)), current \in Seq(T) : CutOf(head) = Cut(done, current)
    BY <1>3, CutOn DEF Segmentings, Cut
  <2>3. PICK segment \in Seq(T) : segment = current \o after
    <3>1. current \o after \in Seq(T)
      BY <1>3
    <3> QED
      BY <3>1
  <2>4. CutOf(line) = Cut(done, segment)
    <3>1. CutOf(head \o after) = Cut(CutOf(head).done, CutOf(head).current \o after)
      BY <1>3, OneRunsOn
    <3>2. CutOf(head).done = done /\ CutOf(head).current = current
      BY <2>2 DEF Cut
    <3> QED
      BY <1>1, <2>3, <3>1, <3>2
  <2>5. segment # <<>>
    <3>1. Len(current) \in Nat /\ Len(after) \in Nat /\ Len(after) # 0
          /\ Len(segment) = Len(current) + Len(after)
      BY <1>3, <2>3
    <3>2. Len(segment) # 0
      BY <3>1
    <3> QED
      BY <3>2
  <2>6. SplitShellSegments(line) = Append(done, segment)
    <3>1. EndSegment(Cut(done, segment)) = Cut(Append(done, segment), <<>>)
      BY <2>5, EndSegmentIs
    <3>2. Cut(Append(done, segment), <<>>).done = Append(done, segment)
      BY DEF Cut
    <3> QED
      BY <2>4, <3>1, <3>2 DEF SplitShellSegments, CutOf
  <2>7. PICK last \in DOMAIN SplitShellSegments(line) : SplitShellSegments(line)[last] = segment
    <3>1. PICK S : S = Seq(T)
      OBVIOUS
    <3>2. done \in Seq(S) /\ segment \in S
      BY <3>1
    <3>3. /\ Len(done) + 1 \in DOMAIN Append(done, segment)
          /\ Append(done, segment)[Len(done) + 1] = segment
      BY <3>2
    <3> QED
      BY <2>6, <3>3
  <2>8. Len(current) + i \in DOMAIN segment /\ RedirectsOut(segment, Len(current) + i)
    BY <1>3, <2>1, <2>3, RedirectionStays
  <2>9. ClassifySegmentWriteAccess(segment)
    BY <2>8, AskedAbout
  <2> QED
    BY <1>2, <2>7, <2>9
<1> QED
  BY <1>4, <1>5

(* A line of commands that a separator keeps apart is judged by every one  *)
(* of them, and moving its targets out of the writable roots does not make *)
(* it acceptable; of a command after a lone & or a newline the network     *)
(* tools and the redirections are judged                                   *)
(* (src/tools/builtin/exec.rs:227-652), whatever the commands are.         *)
THEOREM LinesAreJudgedByEach ==
    ASSUME NEW X, "outside" \in X, "&" \in X, Separators \subseteq X,
           NEW before \in Seq(Tokens(X)), NEW after \in Seq(Tokens(X)), NEW network
    PROVE  JudgedByEach(before, after, network) /\ JudgedInPart(before, after, network)
<1>a. JudgedInPart(before, after, network)
  <2> DEFINE T == Tokens(X)
             mark == Token("operator", "&")
  <2>1. mark \in T
    BY DEF Token, Tokens
  <2> HIDE DEF mark, T
  <2>2. before \in Seq(T) /\ after \in Seq(T)
    BY DEF T
  <2>3. PICK head \in Seq(T) : head = before \o <<mark>>
    <3>1. before \o <<mark>> \in Seq(T)
      BY <2>1, <2>2
    <3> QED
      BY <3>1
  <2>4. ASSUME NEW start \in Seq(T), OneCommand(after), Accepted(start \o after, network),
               NEW i \in DOMAIN after
        PROVE  /\ network \/ ~IsWord(after[i]) \/ after[i].text \notin NetworkTools
               /\ ~RedirectsOut(after, i)
    BY <2>4, RunningOnIsJudged DEF T
  <2>5. RunsOn(before, after) = {before \o after, head \o after}
    BY <2>3 DEF RunsOn, mark
  <2> QED
    BY <2>2, <2>4, <2>5 DEF JudgedInPart
<1>b. SUFFICES ASSUME NEW join \in Separators
      PROVE  LET line == Joined(before, join, after)
             IN /\ before # <<>> /\ after # <<>> =>
                       (Accepted(line, network)
                          <=> Accepted(before, network) /\ Accepted(after, network))
                /\ Accepted(Moved(line), network) => Accepted(line, network)
  BY <1>a DEF JudgedByEach
<1> DEFINE T == Tokens(X)
           S == Seq(T)
           sep == Token("operator", join)
           line == Joined(before, join, after)
           Net == {y \in T : IsWord(y) /\ y.text \in NetworkTools}
           Asking == {segment \in S : ClassifySegmentWriteAccess(segment)}
           Reaches(tokens) == SomeIn(tokens, Net)
           Writes(tokens) == SomeIn(SplitShellSegments(tokens), Asking)
<1>1. sep \in T /\ sep.text \in Separators /\ sep \notin Net
  BY DEF Token, Tokens, IsWord
<1>2. line = before \o <<sep>> \o after
  BY DEF Joined
<1> HIDE DEF sep, T, line
<1>3. before \in Seq(T) /\ after \in Seq(T)
  BY DEF T
<1>4. /\ <<sep>> \in Seq(T) /\ before \o <<sep>> \in Seq(T) /\ line \in Seq(T)
      /\ Len(before \o <<sep>>) = Len(before) + 1 /\ Len(line) = Len(before) + 1 + Len(after)
  BY <1>1, <1>2, <1>3
<1>5. line # <<>>
  <2>1. Len(before) \in Nat /\ Len(after) \in Nat
    BY <1>3
  <2>2. Len(line) # 0
    BY <1>4, <2>1
  <2> QED
    BY <2>2
<1>6. Reaches(line) <=> Reaches(before) \/ Reaches(after)
  <2> HIDE DEF Net
  <2>1. PICK head \in Seq(T) : head = before \o <<sep>>
    BY <1>4
  <2>2. Reaches(head \o after) <=> Reaches(head) \/ Reaches(after)
    BY <1>3, SomeOfTwo
  <2>3. PICK one \in Seq(T) : one = <<sep>>
    BY <1>4
  <2>4. Reaches(before \o one) <=> Reaches(before) \/ Reaches(one)
    BY <1>3, SomeOfTwo
  <2>5. ~Reaches(one)
    BY <1>1, <2>3 DEF SomeIn
  <2> QED
    BY <1>2, <2>1, <2>2, <2>3, <2>4, <2>5
<1>7. /\ SplitShellSegments(before) \in Seq(S) /\ SplitShellSegments(after) \in Seq(S)
      /\ SplitShellSegments(line) \in Seq(S)
      /\ SplitShellSegments(line) = SplitShellSegments(before) \o SplitShellSegments(after)
  <2>1. SplitShellSegments(before) \in Seq(S) /\ SplitShellSegments(after) \in Seq(S)
    BY SplitMoved DEF T
  <2>2. SplitShellSegments(line) = SplitShellSegments(before) \o SplitShellSegments(after)
    BY <1>1, <1>2, <1>3, SplitTwo
  <2>3. SplitShellSegments(line) \in Seq(S)
    BY <1>4, SplitMoved DEF T
  <2> QED
    BY <2>1, <2>2, <2>3
<1> HIDE DEF S
<1>8. Writes(line) <=> Writes(before) \/ Writes(after)
  <2>1. PICK one \in Seq(S), two \in Seq(S) :
            one = SplitShellSegments(before) /\ two = SplitShellSegments(after)
    BY <1>7
  <2> HIDE DEF Asking
  <2>2. SomeIn(one \o two, Asking) <=> SomeIn(one, Asking) \/ SomeIn(two, Asking)
    BY SomeOfTwo
  <2> QED
    BY <1>7, <2>1, <2>2
<1>9. ASSUME NEW tokens \in Seq(T)
      PROVE  Accepted(tokens, network) <=>
                 tokens # <<>> /\ (network \/ ~Reaches(tokens)) /\ ~Writes(tokens)
  <2>1. SplitShellSegments(tokens) \in Seq(S)
    BY SplitMoved DEF T, S
  <2>2. \A i \in DOMAIN tokens : tokens[i] \in T
    OBVIOUS
  <2>3. \A i \in DOMAIN SplitShellSegments(tokens) : SplitShellSegments(tokens)[i] \in S
    <3>1. PICK all \in Seq(S) : all = SplitShellSegments(tokens)
      BY <2>1
    <3>2. \A i \in DOMAIN all : all[i] \in S
      OBVIOUS
    <3> QED
      BY <3>1, <3>2
  <2>4. Reaches(tokens) <=> \E i \in DOMAIN tokens :
                                IsWord(tokens[i]) /\ tokens[i].text \in NetworkTools
    BY <2>2 DEF SomeIn
  <2>5. Writes(tokens) <=> \E i \in DOMAIN SplitShellSegments(tokens) :
                               ClassifySegmentWriteAccess(SplitShellSegments(tokens)[i])
    BY <2>3 DEF SomeIn
  <2>6. Accepted(tokens, network) <=>
            /\ tokens # <<>>
            /\ network \/ ~\E i \in DOMAIN tokens :
                              IsWord(tokens[i]) /\ tokens[i].text \in NetworkTools
            /\ ~\E i \in DOMAIN SplitShellSegments(tokens) :
                    ClassifySegmentWriteAccess(SplitShellSegments(tokens)[i])
    BY AcceptedIs DEF T
  <2> HIDE DEF Reaches, Writes
  <2> QED
    BY <2>4, <2>5, <2>6
<1>10. before # <<>> /\ after # <<>> =>
           (Accepted(line, network) <=> Accepted(before, network) /\ Accepted(after, network))
  <2>1. /\ Accepted(line, network) <=>
               line # <<>> /\ (network \/ ~Reaches(line)) /\ ~Writes(line)
        /\ Accepted(before, network) <=>
               before # <<>> /\ (network \/ ~Reaches(before)) /\ ~Writes(before)
        /\ Accepted(after, network) <=>
               after # <<>> /\ (network \/ ~Reaches(after)) /\ ~Writes(after)
    BY <1>3, <1>4, <1>9
  <2> HIDE DEF Reaches, Writes
  <2> QED
    BY <1>5, <1>6, <1>8, <2>1
<1>11. /\ Moved(line) \in Seq(T) /\ DOMAIN Moved(line) = DOMAIN line
       /\ \A i \in DOMAIN line : Moved(line)[i] = MovedOut(line[i]) /\ line[i] \in T
       /\ SplitShellSegments(Moved(line)) = MovedAll(SplitShellSegments(line))
  <2>1. /\ Moved(line) \in Seq(T) /\ Len(Moved(line)) = Len(line)
        /\ \A i \in 1..Len(line) : Moved(line)[i] = MovedOut(line[i])
    BY <1>1, <1>4, MovedIs DEF T
  <2>2. SplitShellSegments(Moved(line)) = MovedAll(SplitShellSegments(line))
    BY <1>4, SplitMoved DEF T
  <2>3. DOMAIN line = 1..Len(line) /\ \A i \in DOMAIN line : line[i] \in T
    BY <1>4
  <2>4. DOMAIN Moved(line) = 1..Len(Moved(line))
    BY <2>1
  <2> QED
    BY <2>1, <2>2, <2>3, <2>4
<1>12. Reaches(line) => Reaches(Moved(line))
  <2>1. SUFFICES ASSUME NEW i \in DOMAIN line, line[i] \in Net PROVE Reaches(Moved(line))
    BY DEF SomeIn
  <2>2. line[i].kind = "word" /\ line[i].text \in NetworkTools
    BY <2>1 DEF IsWord
  <2>3. /\ MovedOut(line[i]) \in T /\ MovedOut(line[i]).kind = line[i].kind
        /\ MovedOut(line[i]).text = IF line[i].text = "inside" THEN "outside" ELSE line[i].text
    BY <1>11, MovedOutIs DEF T
  <2>4. MovedOut(line[i]) \in Net
    BY <2>2, <2>3 DEF IsWord, NetworkTools
  <2> QED
    BY <1>11, <2>4 DEF SomeIn
<1>13. Writes(line) => Writes(Moved(line))
  <2>1. PICK all \in Seq(S) : all = SplitShellSegments(line)
    BY <1>7
  <2>2. SUFFICES ASSUME NEW i \in DOMAIN all, all[i] \in Asking PROVE Writes(Moved(line))
    BY <2>1 DEF SomeIn
  <2>3. all[i] \in S /\ ClassifySegmentWriteAccess(all[i])
    BY <2>2
  <2>4. PICK segment \in S : segment = all[i] /\ ClassifySegmentWriteAccess(segment)
    BY <2>3
  <2>5. ClassifySegmentWriteAccess(Moved(segment))
    BY <2>4, MovedIsAsked DEF S, T
  <2>6. Moved(segment) \in S
    BY <1>1, MovedIs DEF S, T
  <2>7. DOMAIN MovedAll(all) = DOMAIN all /\ MovedAll(all)[i] = Moved(segment)
    BY <2>4 DEF MovedAll
  <2>8. SplitShellSegments(Moved(line)) = MovedAll(all)
    BY <1>11, <2>1
  <2>9. Moved(segment) \in Asking
    BY <2>5, <2>6
  <2> HIDE DEF Asking
  <2> QED
    BY <2>7, <2>8, <2>9 DEF SomeIn
<1>14. Accepted(Moved(line), network) => Accepted(line, network)
  <2>1. /\ Accepted(line, network) <=>
               line # <<>> /\ (network \/ ~Reaches(line)) /\ ~Writes(line)
        /\ Accepted(Moved(line), network) =>
               (network \/ ~Reaches(Moved(line))) /\ ~Writes(Moved(line))
    BY <1>4, <1>9, <1>11
  <2> HIDE DEF Reaches, Writes
  <2> QED
    BY <1>5, <1>12, <1>13, <2>1
<1> QED
  BY <1>10, <1>14 DEF line

-----------------------------------------------------------------------------
(* Arguments of a tool                                                      *)

\* What the model may write: fields of any names with values of any types.
Arguments(D, S) == [form : {"object", "string", "other", "text"}, value : Int,
                    fields : [D -> [type : S, value : Int]]]

(* A field is looked up by its name,                                        *)
LEMMA LookupOne ==
    ASSUME NEW D, NEW S, NEW args \in Arguments(D, S), NEW a
    PROVE  Lookup(args, <<a>>) = IF args.form = "object" /\ a \in D THEN args.fields[a] ELSE Absent
<1> DEFINE names == <<a>>
           present == {i \in DOMAIN names : names[i] \in DOMAIN args.fields}
<1>1. DOMAIN args.fields = D
  BY DEF Arguments
<1>2. DOMAIN names = {1} /\ names[1] = a
  OBVIOUS
<1>3. Lookup(args, names) =
          IF args.form # "object" \/ present = {} THEN Absent
          ELSE args.fields[names[CHOOSE i \in present : \A k \in present : i <= k]]
  BY DEF Lookup
<1> HIDE DEF names
<1>4. present = IF a \in D THEN {1} ELSE {}
  BY <1>1, <1>2
<1>5. CASE a \in D
  <2>1. present = {1}
    BY <1>4, <1>5
  <2> HIDE DEF present
  <2>2. (CHOOSE i \in present : \A k \in present : i <= k) = 1
    BY <2>1
  <2> QED
    BY <1>2, <1>3, <1>5, <2>1, <2>2 DEF names
<1>6. CASE a \notin D
  <2>1. present = {}
    BY <1>4, <1>6
  <2> HIDE DEF present
  <2> QED
    BY <1>3, <1>6, <2>1 DEF names
<1> QED
  BY <1>5, <1>6

(* or by the first of its two names that is there.                          *)
LEMMA LookupTwo ==
    ASSUME NEW D, NEW S, NEW args \in Arguments(D, S), NEW a, NEW b
    PROVE  Lookup(args, <<a, b>>) =
               IF args.form # "object" \/ (a \notin D /\ b \notin D) THEN Absent
               ELSE IF a \in D THEN args.fields[a] ELSE args.fields[b]
<1> DEFINE names == <<a, b>>
           present == {i \in DOMAIN names : names[i] \in DOMAIN args.fields}
<1>1. DOMAIN args.fields = D
  BY DEF Arguments
<1>2. DOMAIN names = {1, 2} /\ names[1] = a /\ names[2] = b
  OBVIOUS
<1>3. Lookup(args, names) =
          IF args.form # "object" \/ present = {} THEN Absent
          ELSE args.fields[names[CHOOSE i \in present : \A k \in present : i <= k]]
  BY DEF Lookup
<1> HIDE DEF names
<1>4. /\ 1 \in present <=> a \in D
      /\ 2 \in present <=> b \in D
      /\ present \subseteq {1, 2}
  BY <1>1, <1>2
<1> HIDE DEF present
<1>5. CASE a \in D
  <2>1. 1 \in present /\ \A k \in present : 1 <= k
    BY <1>4, <1>5
  <2>2. \A i \in present : (\A k \in present : i <= k) => i = 1
    BY <1>4, <2>1
  <2>3. (CHOOSE i \in present : \A k \in present : i <= k) = 1
    BY <2>1, <2>2
  <2>4. present # {}
    BY <2>1
  <2> QED
    BY <1>2, <1>3, <1>5, <2>3, <2>4 DEF names
<1>6. CASE a \notin D /\ b \in D
  <2>1. present = {2}
    BY <1>4, <1>6
  <2>2. (CHOOSE i \in present : \A k \in present : i <= k) = 2
    BY <2>1
  <2> QED
    BY <1>2, <1>3, <1>6, <2>1, <2>2 DEF names
<1>7. CASE a \notin D /\ b \notin D
  <2>1. present = {}
    BY <1>4, <1>7
  <2> QED
    BY <1>3, <1>7, <2>1 DEF names
<1> QED
  BY <1>5, <1>6, <1>7

(* A number read stays a number.                                            *)
LEMMA TypedOne ==
    ASSUME NEW D, NEW S, NEW args \in Arguments(D, S), NEW a, NEW type, NEW default \in Int
    PROVE  Typed(args, <<a>>, type, default) \in Int
<1>1. Absent.value = 0
  BY DEF Absent, Field
<1>2. \A x \in D : args.fields[x].value \in Int
  BY DEF Arguments
<1>3. Lookup(args, <<a>>).value \in Int
  BY <1>1, <1>2, LookupOne
<1> QED
  BY <1>3 DEF Typed

(* It does under a second name, too.                                        *)
LEMMA TypedTwo ==
    ASSUME NEW D, NEW S, NEW args \in Arguments(D, S), NEW a, NEW b, NEW type,
           NEW default \in Int
    PROVE  Typed(args, <<a, b>>, type, default) \in Int
<1>1. Absent.value = 0
  BY DEF Absent, Field
<1>2. \A x \in D : args.fields[x].value \in Int
  BY DEF Arguments
<1>3. Lookup(args, <<a, b>>).value \in Int
  BY <1>1, <1>2, LookupTwo
<1> QED
  BY <1>3 DEF Typed

(* Limits hold whatever was written.                                        *)
LEMMA LimitsHold ==
    ASSUME NEW D, NEW S, NEW args \in Arguments(D, S)
    PROVE  ReadWithinLimits(args)
<1>1. ParseWaitArgs(args).timeout \in 1..LongestWait
  <2>3. 30000 \in Int /\ Typed(args, <<"timeout_ms", "timeoutMs">>, "number", 30000) \in Int
    BY TypedTwo
  <2>1. PICK n \in Int : n = Typed(args, <<"timeout_ms", "timeoutMs">>, "number", 30000)
    BY <2>3
  <2>2. ParseWaitArgs(args).timeout = Clamp(n, 1, LongestWait)
    BY <2>1 DEF ParseWaitArgs
  <2>5. LongestWait \in Int /\ 1 <= LongestWait
    BY DEF LongestWait
  <2> QED
    BY <2>2, <2>5 DEF Clamp
<1>2. ParseForgetArgs(args).threshold \in 0..100
  <2>3. Typed(args, <<"similarity_threshold", "similarityThreshold">>, "number", 82) \in Int
    BY TypedTwo
  <2>4. With(args, "query", "number", <<"similarity_threshold", "similarityThreshold">>, 82) \in Int
    BY <2>3 DEF With
  <2>1. PICK n \in Int : n = With(args, "query", "number", <<"similarity_threshold", "similarityThreshold">>, 82)
    BY <2>4
  <2>2. ParseForgetArgs(args).threshold = Clamp(n, 0, 100)
    BY <2>1 DEF ParseForgetArgs
  <2> QED
    BY <2>2 DEF Clamp
<1>3. ParseForgetArgs(args).maxMatches \in 1..50
  <2>3. Typed(args, <<"max_matches", "maxMatches">>, "number", 5) \in Int
    BY TypedTwo
  <2>4. With(args, "query", "number", <<"max_matches", "maxMatches">>, 5) \in Int
    BY <2>3 DEF With
  <2>1. PICK n \in Int : n = With(args, "query", "number", <<"max_matches", "maxMatches">>, 5)
    BY <2>4
  <2>2. ParseForgetArgs(args).maxMatches = Clamp(n, 1, 50)
    BY <2>1 DEF ParseForgetArgs
  <2> QED
    BY <2>2 DEF Clamp
<1>4. ParseMemorizeArgs(args).importance \in 1..5
  <2>3. Typed(args, <<"importance">>, "number", 3) \in Int
    BY TypedOne
  <2>4. With(args, "fact", "number", <<"importance">>, 3) \in Int
    BY <2>3 DEF With
  <2>1. PICK n \in Int : n = With(args, "fact", "number", <<"importance">>, 3)
    BY <2>4
  <2>2. ParseMemorizeArgs(args).importance = Clamp(n, 1, 5)
    BY <2>1 DEF ParseMemorizeArgs
  <2> QED
    BY <2>2 DEF Clamp
<1> QED
  BY <1>1, <1>2, <1>3, <1>4 DEF ReadWithinLimits

(* Arguments with one field under its other name.                           *)
LEMMA RespelledIs ==
    ASSUME NEW D, NEW S, NEW args \in Arguments(D, S), NEW from, NEW to, Only(args, from, to)
    PROVE  LET there == Respelled(args, from, to)
               E == (D \ {from}) \cup {to}
           IN /\ there \in Arguments(E, S) /\ from \in D /\ to \notin D
              /\ there.form = args.form /\ there.value = args.value
              /\ there.fields[to] = args.fields[from]
              /\ \A x \in D \ {from} : there.fields[x] = args.fields[x]
<1> DEFINE there == Respelled(args, from, to)
           E == (D \ {from}) \cup {to}
           F == [type : S, value : Int]
<1>1. /\ args.fields \in [D -> F] /\ DOMAIN args.fields = D
      /\ args.form \in {"object", "string", "other", "text"} /\ args.value \in Int
      /\ args = [form |-> args.form, value |-> args.value, fields |-> args.fields]
  BY DEF Arguments
<1>2. from \in D /\ to \notin D
  BY <1>1 DEF Only
<1> HIDE DEF F
<1>3. PICK moved : moved = [x \in E |-> IF x = to THEN args.fields[from] ELSE args.fields[x]]
  OBVIOUS
<1>4. there = [args EXCEPT !.fields = moved]
  BY <1>1, <1>3 DEF Respelled
<1>5. there = [form |-> args.form, value |-> args.value, fields |-> moved]
  BY <1>1, <1>4
<1>6. moved \in [E -> F]
  BY <1>1, <1>2, <1>3
<1> HIDE DEF there
<1>7. there \in Arguments(E, S)
  BY <1>1, <1>5, <1>6 DEF Arguments, F
<1>8. moved[to] = args.fields[from] /\ \A x \in D \ {from} : moved[x] = args.fields[x]
  BY <1>2, <1>3
<1>9. there.form = args.form /\ there.value = args.value /\ there.fields = moved
  BY <1>5
<1> QED
  BY <1>2, <1>7, <1>8, <1>9 DEF there

(* Every field is found there as it is found here.                          *)
LEMMA RespelledReads ==
    ASSUME NEW D, NEW S, NEW args \in Arguments(D, S), NEW from, NEW to, Only(args, from, to)
    PROVE  LET there == Respelled(args, from, to)
           IN /\ Lookup(there, <<to, from>>) = Lookup(args, <<to, from>>)
              /\ \A a : a \notin {from, to} =>
                     /\ Lookup(there, <<a>>) = Lookup(args, <<a>>)
                     /\ \A type : Has(there, a, type) <=> Has(args, a, type)
                     /\ MainText(there, a) = MainText(args, a)
              /\ \A a, b : a \notin {from, to} /\ b \notin {from, to} =>
                     Lookup(there, <<a, b>>) = Lookup(args, <<a, b>>)
<1> DEFINE there == Respelled(args, from, to)
           E == (D \ {from}) \cup {to}
<1>1. /\ there \in Arguments(E, S) /\ from \in D /\ to \notin D
      /\ there.form = args.form /\ there.value = args.value
      /\ there.fields[to] = args.fields[from]
      /\ \A x \in D \ {from} : there.fields[x] = args.fields[x]
  BY RespelledIs
<1> HIDE DEF there
<1>2. to \in E /\ from \notin E /\ \A x : x \notin {from, to} => (x \in E <=> x \in D)
  BY <1>1
<1> HIDE DEF E
<1>3. Lookup(there, <<to, from>>) = Lookup(args, <<to, from>>)
  <2>1. Lookup(there, <<to, from>>) =
            IF there.form # "object" \/ (to \notin E /\ from \notin E) THEN Absent
            ELSE IF to \in E THEN there.fields[to] ELSE there.fields[from]
    BY <1>1, LookupTwo
  <2>2. Lookup(args, <<to, from>>) =
            IF args.form # "object" \/ (to \notin D /\ from \notin D) THEN Absent
            ELSE IF to \in D THEN args.fields[to] ELSE args.fields[from]
    BY LookupTwo
  <2> QED
    BY <1>1, <1>2, <2>1, <2>2
<1>4. ASSUME NEW a, a \notin {from, to}
      PROVE  /\ Lookup(there, <<a>>) = Lookup(args, <<a>>)
             /\ \A type : Has(there, a, type) <=> Has(args, a, type)
             /\ MainText(there, a) = MainText(args, a)
  <2>1. Lookup(there, <<a>>) =
            IF there.form = "object" /\ a \in E THEN there.fields[a] ELSE Absent
    BY <1>1, LookupOne
  <2>2. Lookup(args, <<a>>) = IF args.form = "object" /\ a \in D THEN args.fields[a] ELSE Absent
    BY LookupOne
  <2>3. Lookup(there, <<a>>) = Lookup(args, <<a>>)
    BY <1>1, <1>2, <1>4, <2>1, <2>2
  <2>4. \A type : Has(there, a, type) <=> Has(args, a, type)
    BY <2>3 DEF Has
  <2>5. Has(args, a, "text") => a \in D
    <3>1. Absent.type = "absent"
      BY DEF Absent, Field
    <3> QED
      BY <2>2, <3>1 DEF Has
  <2>6. Has(args, a, "text") => there.fields[a] = args.fields[a]
    BY <1>1, <1>4, <2>5
  <2>7. MainText(there, a) = MainText(args, a)
    BY <1>1, <2>4, <2>6 DEF MainText
  <2> QED
    BY <2>3, <2>4, <2>7
<1>5. ASSUME NEW a, NEW b, a \notin {from, to}, b \notin {from, to}
      PROVE  Lookup(there, <<a, b>>) = Lookup(args, <<a, b>>)
  <2>1. Lookup(there, <<a, b>>) =
            IF there.form # "object" \/ (a \notin E /\ b \notin E) THEN Absent
            ELSE IF a \in E THEN there.fields[a] ELSE there.fields[b]
    BY <1>1, LookupTwo
  <2>2. Lookup(args, <<a, b>>) =
            IF args.form # "object" \/ (a \notin D /\ b \notin D) THEN Absent
            ELSE IF a \in D THEN args.fields[a] ELSE args.fields[b]
    BY LookupTwo
  <2> QED
    BY <1>1, <1>2, <1>5, <2>1, <2>2
<1> QED
  BY <1>3, <1>4, <1>5 DEF there

(* Either spelling of a field means the same.                               *)
LEMMA SpellingsMeanTheSame ==
    ASSUME NEW D, NEW S, NEW args \in Arguments(D, S)
    PROVE  SpellingsAgree(args)
<1>1. ASSUME Only(args, "cwd", "workdir")
      PROVE  ParseExecArgs(Respelled(args, "cwd", "workdir")) = ParseExecArgs(args)
  <2>1. PICK there : there = Respelled(args, "cwd", "workdir")
    OBVIOUS
  <2>4. /\ Lookup(there, <<"workdir", "cwd">>) = Lookup(args, <<"workdir", "cwd">>)
        /\ \A a : a \notin {"cwd", "workdir"} =>
               /\ Lookup(there, <<a>>) = Lookup(args, <<a>>)
               /\ \A type : Has(there, a, type) <=> Has(args, a, type)
               /\ MainText(there, a) = MainText(args, a)
    BY <1>1, <2>1, RespelledReads
  <2>2. /\ Lookup(there, <<"workdir", "cwd">>) = Lookup(args, <<"workdir", "cwd">>)
        /\ Lookup(there, <<"background">>) = Lookup(args, <<"background">>)
        /\ Has(there, "command", "text") <=> Has(args, "command", "text")
        /\ MainText(there, "command") = MainText(args, "command")
    BY <2>4
  <2>3. ParseExecArgs(there) = ParseExecArgs(args)
    BY <2>2 DEF ParseExecArgs, With, Typed
  <2> QED
    BY <2>1, <2>3
<1>2. ASSUME Only(args, "timeoutMs", "timeout_ms")
      PROVE  ParseWaitArgs(Respelled(args, "timeoutMs", "timeout_ms")) = ParseWaitArgs(args)
  <2>1. PICK there : there = Respelled(args, "timeoutMs", "timeout_ms")
    OBVIOUS
  <2>2. /\ Lookup(there, <<"timeout_ms", "timeoutMs">>) = Lookup(args, <<"timeout_ms", "timeoutMs">>)
        /\ Lookup(there, <<"run_ids", "runIds">>) = Lookup(args, <<"run_ids", "runIds">>)
    BY <1>2, <2>1, RespelledReads
  <2>3. ParseWaitArgs(there) = ParseWaitArgs(args)
    BY <2>2 DEF ParseWaitArgs, Typed
  <2> QED
    BY <2>1, <2>3
<1>3. ASSUME Only(args, "runId", "run_id")
      PROVE  ParseBackgroundArgs(Respelled(args, "runId", "run_id")) = ParseBackgroundArgs(args)
  <2>1. PICK there : there = Respelled(args, "runId", "run_id")
    OBVIOUS
  <2>2. /\ Lookup(there, <<"run_id", "runId">>) = Lookup(args, <<"run_id", "runId">>)
        /\ Lookup(there, <<"action">>) = Lookup(args, <<"action">>)
    BY <1>3, <2>1, RespelledReads
  <2>3. ParseBackgroundArgs(there) = ParseBackgroundArgs(args)
    BY <2>2 DEF ParseBackgroundArgs, Typed
  <2> QED
    BY <2>1, <2>3
<1>4. ASSUME Only(args, "maxMatches", "max_matches")
      PROVE  ParseForgetArgs(Respelled(args, "maxMatches", "max_matches")) = ParseForgetArgs(args)
  <2>1. PICK there : there = Respelled(args, "maxMatches", "max_matches")
    OBVIOUS
  <2>4. /\ Lookup(there, <<"max_matches", "maxMatches">>) = Lookup(args, <<"max_matches", "maxMatches">>)
        /\ \A a : a \notin {"maxMatches", "max_matches"} =>
               /\ Lookup(there, <<a>>) = Lookup(args, <<a>>)
               /\ \A type : Has(there, a, type) <=> Has(args, a, type)
               /\ MainText(there, a) = MainText(args, a)
        /\ \A a, b : a \notin {"maxMatches", "max_matches"} /\ b \notin {"maxMatches", "max_matches"} =>
               Lookup(there, <<a, b>>) = Lookup(args, <<a, b>>)
    BY <1>4, <2>1, RespelledReads
  <2>2. /\ Lookup(there, <<"max_matches", "maxMatches">>)
               = Lookup(args, <<"max_matches", "maxMatches">>)
        /\ Lookup(there, <<"similarity_threshold", "similarityThreshold">>)
               = Lookup(args, <<"similarity_threshold", "similarityThreshold">>)
        /\ Lookup(there, <<"commit">>) = Lookup(args, <<"commit">>)
        /\ Lookup(there, <<"kind">>) = Lookup(args, <<"kind">>)
        /\ Has(there, "query", "text") <=> Has(args, "query", "text")
        /\ MainText(there, "query") = MainText(args, "query")
    BY <2>4
  <2>3. ParseForgetArgs(there) = ParseForgetArgs(args)
    BY <2>2 DEF ParseForgetArgs, With, Typed
  <2> QED
    BY <2>1, <2>3
<1> QED
  BY <1>1, <1>2, <1>3, <1>4 DEF SpellingsAgree

(* Text that is no object reaches every tool alike.                         *)
LEMMA TextReachesEvery ==
    ASSUME NEW D, NEW S, NEW args \in Arguments(D, S)
    PROVE  TextReachesAll(args)
<1>1. SUFFICES ASSUME args.form # "object"
               PROVE  {ParseExecArgs(args).command, ParseTaskArgs(args).prompt,
                       ParseSummonArgs(args).agent, ParseReactArgs(args),
                       ParseMemorizeArgs(args).fact, ParseMemoryArgs(args).text,
                       ParseForgetArgs(args).query}
                          = {ParseSimpleTextArg(args)}
  BY DEF TextReachesAll
<1>2. ASSUME NEW a PROVE ~Has(args, a, "text")
  <2>1. Lookup(args, <<a>>) = Absent
    BY <1>1, LookupOne
  <2>2. Absent.type = "absent"
    BY DEF Absent, Field
  <2> QED
    BY <2>1, <2>2 DEF Has
<1>3. PICK text : text = IF args.form = "string" THEN Field("string", args.value)
                         ELSE Field("verbatim", args.value)
  OBVIOUS
<1>4. \A main : MainText(args, main) = text
  BY <1>2, <1>3 DEF MainText
<1>5. ParseSimpleTextArg(args) = text
  BY <1>2, <1>3 DEF ParseSimpleTextArg
<1>6. /\ ParseExecArgs(args).command = text /\ ParseTaskArgs(args).prompt = text
      /\ ParseSummonArgs(args).agent = text /\ ParseReactArgs(args) = text
      /\ ParseMemorizeArgs(args).fact = text /\ ParseForgetArgs(args).query = text
  BY <1>4 DEF ParseExecArgs, ParseTaskArgs, ParseSummonArgs, ParseReactArgs,
              ParseMemorizeArgs, ParseForgetArgs
<1>7. ParseMemoryArgs(args).text = text
  BY <1>2, <1>4 DEF ParseMemoryArgs
<1> QED
  BY <1>5, <1>6, <1>7

(* A shortened output accounts for every character, and keeps the end.      *)
LEMMA CutsAddUp ==
    ASSUME NEW S, NEW text \in Seq(S), NEW max \in Nat
    PROVE  CutAddsUp(text, max)
<1> DEFINE n == Len(text)
           head == max \div 5
           tail == max - head
           cut == TruncateForToolOutput(text, max)
<1>1. n \in Nat /\ head \in Nat /\ tail \in Nat /\ head + tail = max /\ head <= max
  OBVIOUS
<1> HIDE DEF n, head, tail
<1>2. CASE n <= max
  <2>1. cut = [head |-> text, dropped |-> 0, tail |-> <<>>]
    BY <1>2 DEF TruncateForToolOutput, n
  <2>2. cut.head = text /\ cut.dropped = 0 /\ cut.tail = <<>>
    BY <2>1
  <2> HIDE DEF cut
  <2>3. Len(cut.head) = n /\ Len(cut.tail) = 0 /\ DOMAIN cut.tail = {}
    BY <2>2 DEF n
  <2> QED
    BY <1>1, <1>2, <2>2, <2>3 DEF CutAddsUp, cut, n
<1>3. CASE ~(n <= max)
  <2>1. PICK first, last : first = SubSeq(text, 1, head) /\ last = SubSeq(text, n - tail + 1, n)
    OBVIOUS
  <2>2. cut = [head |-> first, dropped |-> n - head - tail, tail |-> last]
    BY <1>3, <2>1 DEF TruncateForToolOutput, n, head, tail
  <2>3. Len(first) = head /\ Len(last) = tail /\ DOMAIN last = 1..tail
    BY <1>1, <1>3, <2>1 DEF n
  <2>4. \A i \in 1..tail : last[i] = text[n - tail + i]
    BY <1>1, <1>3, <2>1 DEF n
  <2>5. cut.head = first /\ cut.dropped = n - head - tail /\ cut.tail = last
    BY <2>2
  <2> HIDE DEF cut
  <2>6. /\ Len(cut.head) + cut.dropped + Len(cut.tail) = n
        /\ Len(cut.head) + Len(cut.tail) <= max
        /\ \A i \in DOMAIN cut.tail : cut.tail[i] = text[n - Len(cut.tail) + i]
    <3>1. Len(cut.head) = head /\ Len(cut.tail) = tail /\ DOMAIN cut.tail = 1..tail
      BY <2>3, <2>5
    <3>2. \A i \in DOMAIN cut.tail : cut.tail[i] = text[n - Len(cut.tail) + i]
      BY <2>4, <2>5, <3>1
    <3>3. head + (n - head - tail) + tail = n /\ head + tail <= max
      BY <1>1
    <3>4. Len(cut.head) + cut.dropped + Len(cut.tail) = n
      BY <2>5, <3>1, <3>3
    <3>5. Len(cut.head) + Len(cut.tail) <= max
      BY <3>1, <3>3
    <3> QED
      BY <3>2, <3>4, <3>5
  <2> QED
    BY <2>6 DEF CutAddsUp, cut, n
<1> QED
  BY <1>2, <1>3

-----------------------------------------------------------------------------
(* Commands that are asked about                                            *)

Letters == Characters \cup Marks
CommandTexts == {"rm", "cp", "ln", "curl", "chmod", "echo", "-f", "A=1", "inside",
                 "outside", "glob*", ">", "&"} \cup Separators

\* The questions put, of any length.
WordsPut(input) ==
    /\ input[1] \in Seq(Letters) /\ input[1] # <<>>
    /\ input[2] \in Seq(Letters) /\ input[2] # <<>>
VerdictPut(input) ==
    input.before \in Seq(Tokens(CommandTexts)) /\ input.after \in Seq(Tokens(CommandTexts))
ArgumentsPut(input) == \E D, S : input \in Arguments(D, S)
OutputPut(input) == input.max \in Nat /\ \E S : input.text \in Seq(S)
CommandAsked ==
    \/ question = NoQuestion
    \/ question.topic = "words" /\ WordsPut(question.input)
    \/ question.topic = "verdict" /\ VerdictPut(question.input)
    \/ question.topic = "arguments" /\ ArgumentsPut(question.input)
    \/ question.topic = "output" /\ OutputPut(question.input)

(* A bounded sequence is a sequence.                                        *)
LEMMA BoundedIsSeq ==
    ASSUME NEW S, NEW n \in Nat, NEW s \in SeqOf(S, n)
    PROVE  s \in Seq(S)
<1>1. PICK m \in 0..n : s \in [1..m -> S]
  BY DEF SeqOf
<1> QED
  BY <1>1, SeqDef

(* Every question is one of these.                                          *)
LEMMA CommandQuestions == CommandsAsked => CommandAsked'
<1>1. ASSUME AskWords PROVE CommandAsked'
  <2>1. PICK first \in NonEmptyWords(2), second \in NonEmptyWords(2) :
            Put("words", <<first, second>>)
    BY <1>1 DEF AskWords
  <2>2. \A s \in NonEmptyWords(2) : s \in Seq(Characters) /\ s # <<>>
    BY BoundedIsSeq DEF NonEmptyWords
  <2>3. \A s \in Seq(Characters) : s \in Seq(Letters)
    <3>1. Characters \subseteq Letters
      BY DEF Letters
    <3> QED
      BY <3>1
  <2>4. question'.topic = "words" /\ question'.input = <<first, second>>
    BY <2>1 DEF Put
  <2>5. first \in Seq(Letters) /\ first # <<>> /\ second \in Seq(Letters) /\ second # <<>>
    BY <2>2, <2>3
  <2>6. WordsPut(question'.input)
    BY <2>4, <2>5 DEF WordsPut
  <2> QED
    BY <2>4, <2>6 DEF CommandAsked
<1>2. ASSUME AskVerdict PROVE CommandAsked'
  <2> DEFINE T == Tokens(CommandTexts)
  <2>1. PICK before \in SeqOf(Pieces, 3), after \in OtherCommands, network \in BOOLEAN :
            Put("verdict", [before |-> before, after |-> after, network |-> network])
    BY <1>2 DEF AskVerdict
  <2>2. /\ Pieces \subseteq T
        /\ \A t \in CommandTexts : Word(t) \in T
    BY DEF Pieces, Word, Token, Tokens, CommandTexts
  <2>3. before \in Seq(T)
    <3>1. before \in Seq(Pieces)
      BY BoundedIsSeq
    <3> HIDE DEF T
    <3> QED
      BY <2>2, <3>1
  <2>4. after \in Seq(T)
    <3>1. /\ Word("echo") \in T /\ Word("outside") \in T /\ Word("curl") \in T
          /\ Word("chmod") \in T /\ Word("rm") \in T /\ Word("inside") \in T
          /\ Word("glob*") \in T /\ Word("cp") \in T /\ Word("ln") \in T
      BY <2>2 DEF CommandTexts
    <3> HIDE DEF T
    <3>2. /\ <<>> \in Seq(T) /\ \A x \in T : <<x>> \in Seq(T)
          /\ \A x, y \in T : <<x, y>> \in Seq(T)
          /\ \A x, y, z \in T : <<x, y, z>> \in Seq(T)
      OBVIOUS
    <3>3. /\ <<Word("echo"), Word("outside")>> \in Seq(T) /\ <<Word("curl")>> \in Seq(T)
          /\ <<Word("chmod")>> \in Seq(T) /\ <<Word("ln"), Word("outside")>> \in Seq(T)
          /\ <<Word("rm"), Word("inside"), Word("glob*")>> \in Seq(T)
          /\ <<Word("cp"), Word("outside"), Word("inside")>> \in Seq(T)
          /\ <<Word("ln"), Word("inside"), Word("outside")>> \in Seq(T)
      BY <3>1, <3>2
    <3> QED
      BY <3>2, <3>3, Zenon DEF OtherCommands
  <2>5. PICK input : input = [before |-> before, after |-> after, network |-> network]
    OBVIOUS
  <2>6. input.before = before /\ input.after = after
    BY <2>5
  <2>7. question'.topic = "verdict" /\ question'.input = input
    BY <2>1, <2>5 DEF Put
  <2>8. VerdictPut(question'.input)
    BY <2>3, <2>4, <2>6, <2>7 DEF VerdictPut
  <2> QED
    BY <2>7, <2>8 DEF CommandAsked
<1>3. ASSUME AskArguments PROVE CommandAsked'
  <2>1. ASSUME NEW form \in {"object", "string", "other", "text"}, NEW D,
               NEW fields \in [D -> Values],
               Put("arguments", [form |-> form, value |-> 9, fields |-> fields])
        PROVE  CommandAsked'
    <3> DEFINE S == {"text", "number", "bool"}
    <3>1. Values \subseteq [type : S, value : Int]
      BY DEF Values, Field
    <3>2. fields \in [D -> [type : S, value : Int]]
      BY <2>1, <3>1
    <3>3. PICK input : input = [form |-> form, value |-> 9, fields |-> fields]
      OBVIOUS
    <3>4. input \in Arguments(D, S)
      BY <3>2, <3>3 DEF Arguments
    <3>5. question'.topic = "arguments" /\ question'.input = input
      BY <2>1, <3>3 DEF Put
    <3>6. ArgumentsPut(question'.input)
      BY <3>4, <3>5 DEF ArgumentsPut
    <3> QED
      BY <3>5, <3>6 DEF CommandAsked
  <2>2. NoFields \in [{} -> Values]
    BY DEF NoFields
  <2>3. CASE \E form \in {"string", "other", "text"} :
                 Put("arguments", [form |-> form, value |-> 9, fields |-> NoFields])
    BY <2>1, <2>2, <2>3
  <2>4. CASE \E a, b \in FieldNames : \E fields \in [{a, b} -> Values] :
                 Put("arguments", [form |-> "object", value |-> 9, fields |-> fields])
    <3>2. PICK a \in FieldNames, b \in FieldNames : \E fields \in [{a, b} -> Values] :
              Put("arguments", [form |-> "object", value |-> 9, fields |-> fields])
      BY <2>4
    <3>1. PICK fields \in [{a, b} -> Values] :
              Put("arguments", [form |-> "object", value |-> 9, fields |-> fields])
      BY <3>2
    <3> QED
      BY <2>1, <3>1
  <2> QED
    BY <1>3, <2>3, <2>4 DEF AskArguments
<1>4. ASSUME AskOutput PROVE CommandAsked'
  <2>1. PICK n \in 0..8, max \in 0..6 :
            Put("output", [text |-> [i \in 1..n |-> i], max |-> max])
    BY <1>4 DEF AskOutput
  <2>2. PICK text : text = [i \in 1..n |-> i]
    OBVIOUS
  <2>3. text \in [1..n -> Nat] /\ n \in Nat /\ max \in Nat
    BY <2>2
  <2>4. text \in Seq(Nat)
    BY <2>3, SeqDef
  <2>5. question'.topic = "output" /\ question'.input = [text |-> text, max |-> max]
    BY <2>1, <2>2 DEF Put
  <2>6. OutputPut(question'.input)
    BY <2>3, <2>4, <2>5 DEF OutputPut
  <2> QED
    BY <2>5, <2>6 DEF CommandAsked
<1> QED
  BY <1>1, <1>2, <1>3, <1>4 DEF CommandsAsked

(* What is asked about is answered right.                                   *)
LEMMA CommandAnswers == CommandAsked => CommandIsJudgedByParts
<1> SUFFICES ASSUME CommandAsked PROVE CommandIsJudgedByParts
  OBVIOUS
<1>1. WordsAreKept
  <2>1. ASSUME Asked("words") PROVE WordsPut(question.input)
    BY <2>1 DEF Asked, CommandAsked, NoQuestion
  <2>2. Marks \subseteq Letters
    BY DEF Letters
  <2> QED
    BY <2>1, <2>2, QuotedWordsAreKept DEF WordsAreKept, WordsPut
<1>2. VerdictIsOfEveryCommand
  <2>1. ASSUME Asked("verdict") PROVE VerdictPut(question.input)
    BY <2>1 DEF Asked, CommandAsked, NoQuestion
  <2>2. "outside" \in CommandTexts /\ "&" \in CommandTexts /\ Separators \subseteq CommandTexts
    BY DEF CommandTexts
  <2> QED
    BY <2>1, <2>2, LinesAreJudgedByEach DEF VerdictIsOfEveryCommand, VerdictPut
<1>3. ArgumentsAreBounded
  <2>1. ASSUME Asked("arguments") PROVE ArgumentsPut(question.input)
    BY <2>1 DEF Asked, CommandAsked, NoQuestion
  <2> QED
    BY <2>1, LimitsHold, SpellingsMeanTheSame, TextReachesEvery
       DEF ArgumentsAreBounded, ArgumentsPut
<1>4. OutputAddsUp
  <2>1. ASSUME Asked("output") PROVE OutputPut(question.input)
    BY <2>1 DEF Asked, CommandAsked, NoQuestion
  <2> QED
    BY <2>1, CutsAddUp DEF OutputAddsUp, OutputPut
<1> QED
  BY <1>1, <1>2, <1>3, <1>4 DEF CommandIsJudgedByParts

(* exec judges every command that it separates from the others             *)
(* (src/tools/builtin/exec.rs:227-652, common.rs): the property of the      *)
(* runs, from the theorems for all commands.                                *)
THEOREM CommandsAreJudgedByParts == ExecSpec => []CommandIsJudgedByParts
<1>1. QuestionInit => CommandAsked
  BY DEF QuestionInit, CommandAsked
<1>2. CommandAsked /\ [CommandsAsked]_question => CommandAsked'
  BY CommandQuestions DEF CommandAsked
<1> QED
  BY <1>1, <1>2, CommandAnswers, PTL DEF ExecSpec

-----------------------------------------------------------------------------
(* Orders                                                                   *)

(* A key puts any two places of it in an order.                             *)
LEMMA BeforeIsOrder ==
    ASSUME NEW D, D \subseteq Nat, NEW key \in [D -> Int]
    PROVE  /\ \A i \in D : ~Before(key, i, i)
           /\ \A i, k \in D : i = k \/ Before(key, i, k) \/ Before(key, k, i)
           /\ \A i, k, m \in D : Before(key, i, k) /\ Before(key, k, m) => Before(key, i, m)
<1>1. \A i \in D : i \in Nat /\ key[i] \in Int
  OBVIOUS
<1> QED
  BY <1>1 DEF Before

\* The ranks of a key are the first numbers, each of one place.
RanksFill(D, key) ==
    /\ \A i \in D : RankOf(key, i) \in 0..(Cardinality(D) - 1)
    /\ \A i, k \in D : Before(key, i, k) => RankOf(key, i) < RankOf(key, k)
    /\ \A i, k \in D : RankOf(key, i) = RankOf(key, k) => i = k
    /\ \A n \in 0..(Cardinality(D) - 1) : \E i \in D : RankOf(key, i) = n

(* What comes before in a sorted key has the smaller rank, and there are as *)
(* many ranks as places.                                                    *)
LEMMA RanksAre ==
    ASSUME NEW D, D \subseteq Nat, IsFiniteSet(D), NEW key \in [D -> Int]
    PROVE  RanksFill(D, key)
<1> DEFINE N == Cardinality(D)
           R(i) == {k \in D : Before(key, k, i)}
<1>1. /\ \A i \in D : ~Before(key, i, i)
      /\ \A i, k \in D : i = k \/ Before(key, i, k) \/ Before(key, k, i)
      /\ \A i, k, m \in D : Before(key, i, k) /\ Before(key, k, m) => Before(key, i, m)
  BY BeforeIsOrder
<1>2. \A i : RankOf(key, i) = Cardinality(R(i))
  BY DEF RankOf
<1>3. N \in Nat
  BY FS_CardinalityType
<1>4. ASSUME NEW i \in D
      PROVE  IsFiniteSet(R(i)) /\ Cardinality(R(i)) \in 0..(N - 1)
  <2>1. R(i) \in SUBSET (D \ {i})
    BY <1>1
  <2>2. IsFiniteSet(D \ {i}) /\ Cardinality(D \ {i}) = N - 1
    BY FS_RemoveElement
  <2>3. IsFiniteSet(R(i)) /\ Cardinality(R(i)) <= N - 1
    <3> HIDE DEF R
    <3> QED
      BY <2>1, <2>2, FS_Subset
  <2>4. Cardinality(R(i)) \in Nat
    <3> HIDE DEF R
    <3> QED
      BY <2>3, FS_CardinalityType
  <2> HIDE DEF R, N
  <2> QED
    BY <1>3, <2>3, <2>4
<1>5. ASSUME NEW i \in D, NEW k \in D, Before(key, i, k)
      PROVE  Cardinality(R(i)) < Cardinality(R(k))
  <2>1. R(i) \in SUBSET R(k) /\ i \in R(k) /\ i \notin R(i)
    BY <1>1, <1>5
  <2> HIDE DEF R
  <2>2. Cardinality(R(i)) <= Cardinality(R(k)) /\ Cardinality(R(i)) # Cardinality(R(k))
    BY <1>4, <2>1, FS_Subset
  <2>3. Cardinality(R(i)) \in Int /\ Cardinality(R(k)) \in Int
    BY <1>3, <1>4 DEF N
  <2> QED
    BY <2>2, <2>3
<1> DEFINE f == [i \in D |-> RankOf(key, i)]
<1> HIDE DEF R, N
<1>6. /\ \A i \in D : RankOf(key, i) \in 0..(N - 1)
      /\ \A i, k \in D : Before(key, i, k) => RankOf(key, i) < RankOf(key, k)
  BY <1>2, <1>4, <1>5
<1>7. ASSUME NEW i \in D, NEW k \in D, RankOf(key, i) = RankOf(key, k) PROVE i = k
  <2>1. ~(RankOf(key, i) < RankOf(key, k)) /\ ~(RankOf(key, k) < RankOf(key, i))
    <3>1. RankOf(key, i) \in Int /\ RankOf(key, k) \in Int
      BY <1>3, <1>6
    <3> QED
      BY <1>7, <3>1
  <2> QED
    BY <1>1, <1>6, <2>1
<1>8. f \in Surjection(D, 0..(N - 1))
  <2>1. f \in Injection(D, 0..(N - 1))
    BY <1>6, <1>7 DEF Injection, IsInjective
  <2>2. IsFiniteSet(0..(N - 1)) /\ Cardinality(0..(N - 1)) = N
    <3>1. 0 \in Int /\ N - 1 \in Int
      BY <1>3
    <3>2. IsFiniteSet(0..(N - 1)) /\ Cardinality(0..(N - 1)) = IF 0 > N - 1 THEN 0 ELSE (N - 1) - 0 + 1
      BY <3>1, FS_Interval
    <3> QED
      BY <1>3, <3>2
  <2> HIDE DEF f
  <2> QED
    BY <2>1, <2>2, FS_Injection DEF N
<1>9. \A n \in 0..(N - 1) : \E i \in D : RankOf(key, i) = n
  BY <1>8 DEF Surjection
<1> QED
  BY <1>6, <1>7, <1>9 DEF N, RanksFill

(* Sorting a key lists every place of it once, the greatest first.          *)
LEMMA SortedIs ==
    ASSUME NEW D, D \subseteq Nat, IsFiniteSet(D), NEW key \in [D -> Int]
    PROVE  /\ Sorted(key) \in Seq(D) /\ DOMAIN Sorted(key) = 1..Len(Sorted(key))
           /\ \A i \in D : \E n \in DOMAIN Sorted(key) : Sorted(key)[n] = i
           /\ \A n, m \in DOMAIN Sorted(key) : n < m => Before(key, Sorted(key)[n], Sorted(key)[m])
<1> DEFINE N == Cardinality(D)
           order == Sorted(key)
<1>1. N \in Nat /\ DOMAIN key = D
  BY FS_CardinalityType
<1>2. order = [n \in 1..N |-> CHOOSE i \in D : RankOf(key, i) = n - 1]
  BY <1>1 DEF Sorted
<1> HIDE DEF N, order
<1>3. /\ \A i \in D : RankOf(key, i) \in 0..(N - 1)
      /\ \A i, k \in D : Before(key, i, k) => RankOf(key, i) < RankOf(key, k)
      /\ \A i, k \in D : RankOf(key, i) = RankOf(key, k) => i = k
      /\ \A n \in 0..(N - 1) : \E i \in D : RankOf(key, i) = n
  <2>1. RanksFill(D, key)
    BY RanksAre
  <2> QED
    BY <2>1 DEF N, RanksFill
<1>4. ASSUME NEW n \in 1..N PROVE order[n] \in D /\ RankOf(key, order[n]) = n - 1
  <2>1. n - 1 \in 0..(N - 1) /\ order[n] = CHOOSE i \in D : RankOf(key, i) = n - 1
    BY <1>1, <1>2
  <2>2. \E i \in D : RankOf(key, i) = n - 1
    BY <1>3, <2>1
  <2> QED
    BY <2>1, <2>2
<1>5. order \in Seq(D) /\ Len(order) = N /\ DOMAIN order = 1..N
  <2>1. order = [n \in 1..N |-> order[n]]
    BY <1>2
  <2>2. order \in [1..N -> D]
    BY <1>4, <2>1
  <2> QED
    BY <1>1, <2>2
<1>6. ASSUME NEW i \in D PROVE \E n \in 1..N : order[n] = i
  <2>1. PICK n \in 1..N : n - 1 = RankOf(key, i)
    <3>1. RankOf(key, i) + 1 \in 1..N /\ (RankOf(key, i) + 1) - 1 = RankOf(key, i)
      BY <1>1, <1>3
    <3> QED
      BY <3>1
  <2> QED
    BY <1>3, <1>4, <2>1
<1>7. ASSUME NEW n \in 1..N, NEW m \in 1..N, n < m PROVE Before(key, order[n], order[m])
  <2>1. order[n] \in D /\ order[m] \in D
    BY <1>4
  <2>2. RankOf(key, order[n]) = n - 1 /\ RankOf(key, order[m]) = m - 1
    BY <1>4
  <2>3. n - 1 < m - 1 /\ n - 1 # m - 1
    BY <1>1, <1>7
  <2>4. ~(m - 1 < n - 1)
    BY <1>1, <1>7
  <2>5. ~Before(key, order[m], order[n]) /\ order[m] # order[n]
    <3>1. ~(RankOf(key, order[m]) < RankOf(key, order[n]))
      BY <2>2, <2>4
    <3>2. RankOf(key, order[n]) # RankOf(key, order[m])
      BY <2>2, <2>3
    <3> QED
      BY <1>3, <2>1, <3>1, <3>2
  <2> QED
    BY <2>1, <2>5, BeforeIsOrder
<1> QED
  BY <1>5, <1>6, <1>7 DEF order
-----------------------------------------------------------------------------
(* Hits                                                                     *)

\* What is selected of some hits in their order.
Selected(s, topK, minScore) ==
    FoldLeft(LAMBDA out, hit : SelectHit(out, hit, topK, minScore), <<>>, s)

\* Selecting has gone through the hits one by one.
SelectsOneByOne(H, s, topK, minScore) ==
    \E g \in [0..Len(s) -> Seq(H)] :
        /\ g[0] = <<>> /\ Selected(s, topK, minScore) = g[Len(s)]
        /\ \A k \in 1..Len(s) : g[k] = SelectHit(g[k - 1], s[k], topK, minScore)

(* The hits are gone through one by one.                                    *)
LEMMA SelectRun ==
    ASSUME NEW H, NEW topK, NEW minScore, NEW s \in Seq(H)
    PROVE  SelectsOneByOne(H, s, topK, minScore)
<1> DEFINE n == Len(s)
           V == Seq(H)
           X == H
           base == <<>>
           f == [p \in V \X X |-> SelectHit(p[1], p[2], topK, minScore)]
           step == [p \in V \X (1..n) |-> f[<<p[1], s[p[2]]>>]]
           F(d) == [t \in SUBSET DOMAIN s |->
                       IF t = {} THEN base ELSE SelectHit(d[t \ {Max(t)}], s[Max(t)], topK, minScore)]
           c == CHOOSE d : d = F(d)
<1>1. n \in Nat /\ DOMAIN s = 1..n /\ \A i \in 1..n : s[i] \in X
  OBVIOUS
<1>2. f \in [V \X X -> V] /\ base \in V
  BY DEF SelectHit
<1> HIDE DEF V, X
<1>3. \A v \in V, x \in X : f[<<v, x>>] = SelectHit(v, x, topK, minScore)
  OBVIOUS
<1> HIDE DEF f, n
<1>4. step \in [V \X (1..n) -> V]
  BY <1>1, <1>2
<1>5. PICK h \in [SUBSET (1..n) -> V] : IsFold(h, n, base, step)
  <2> HIDE DEF step, base
  <2> QED
    BY <1>1, <1>2, <1>4, FoldExists
<1>6. h = F(h)
  <2>1. ASSUME NEW t \in SUBSET (1..n), t # {}
        PROVE  step[<<h[t \ {Max(t)}], Max(t)>>] = SelectHit(h[t \ {Max(t)}], s[Max(t)], topK, minScore)
    <3>1. Max(t) \in 1..n /\ t \ {Max(t)} \in SUBSET (1..n)
      BY <1>1, <2>1, MaxOfSome
    <3>2. h[t \ {Max(t)}] \in V /\ s[Max(t)] \in X
      BY <1>1, <1>5, <3>1
    <3> QED
      BY <1>3, <3>1, <3>2
  <2>2. h = [t \in SUBSET (1..n) |->
               IF t = {} THEN base ELSE step[<<h[t \ {Max(t)}], Max(t)>>]]
    BY <1>5 DEF IsFold
  <2> HIDE DEF step, base
  <2> QED
    BY <1>1, <2>1, <2>2
<1>7. c = F(c)
  <2> HIDE DEF F
  <2> QED
    BY <1>6
<1>8. Selected(s, topK, minScore) = c[DOMAIN s]
  BY DEF Selected, FoldLeft, MapThenFoldSet
<1> HIDE DEF c, step, base
<1> DEFINE g == [k \in 0..n |-> c[1..k]]
<1>9. c[1..0] = base
  <2>1. 1..0 = {} /\ (1..0) \in SUBSET DOMAIN s
    OBVIOUS
  <2> QED
    BY <1>7, <2>1
<1>10. ASSUME NEW k \in 1..n PROVE c[1..k] = SelectHit(c[1..(k - 1)], s[k], topK, minScore)
  <2>1. Max(1..k) = k /\ (1..k) \ {k} = 1..(k - 1) /\ 1..k # {}
    <3>1. k \in Nat /\ k # 0
      BY <1>1
    <3> QED
      BY <3>1, MaxOfAll
  <2>2. (1..k) \in SUBSET DOMAIN s
    BY <1>1
  <2> QED
    BY <1>7, <2>1, <2>2
<1>11. /\ g[0] = base /\ g[n] = c[DOMAIN s] /\ g = [k \in 0..n |-> g[k]]
       /\ \A k \in 1..n : g[k] = SelectHit(g[k - 1], s[k], topK, minScore)
  BY <1>1, <1>9, <1>10
<1> HIDE DEF g
<1>12. \A k \in 1..n : g[k - 1] \in V => g[k] = f[<<g[k - 1], s[k]>>]
  BY <1>1, <1>3, <1>11
<1>13. g \in [0..n -> V]
  <2>1. s \in Seq(X) /\ g[0] \in V
    BY <1>2, <1>11 DEF X
  <2>2. IsRun(g, f, V, g[0], s)
    BY <1>2, <1>11, <1>12, <2>1, ChainIsRun DEF n
  <2> QED
    BY <2>2 DEF IsRun, n
<1> QED
  BY <1>8, <1>11, <1>13 DEF n, V, X, base, SelectsOneByOne

\* What recall promises of a selection of hits.
Selection(out, hits, topK, minScore) ==
    /\ Len(out) <= topK
    /\ \A n \in DOMAIN out : \E m \in DOMAIN hits : out[n] = hits[m]
    /\ \A n, m \in DOMAIN out : n < m =>
           out[n].text # out[m].text /\ out[n].score >= out[m].score
    /\ \A m \in DOMAIN hits : hits[m].likeness >= minScore /\ hits[m].text # NoWords =>
           Len(out) = topK \/ \E n \in DOMAIN out : out[n].text = hits[m].text

(* A hit is passed over or comes last.                                      *)
LEMMA SelectHitIs ==
    ASSUME NEW H, NEW out \in Seq(H), NEW hit \in H, NEW topK \in Nat,
           NEW minScore \in Int, hit.likeness \in Int, Len(out) <= topK
    PROVE  \/ /\ SelectHit(out, hit, topK, minScore) = out
              /\ hit.likeness >= minScore /\ hit.text # NoWords =>
                     Len(out) = topK \/ \E n \in DOMAIN out : out[n].text = hit.text
           \/ /\ SelectHit(out, hit, topK, minScore) = Append(out, hit)
              /\ Len(out) < topK /\ \A n \in DOMAIN out : out[n].text # hit.text
<1>1. Len(out) \in Nat
  OBVIOUS
<1>2. CASE \/ hit.likeness < minScore \/ hit.text = NoWords \/ Len(out) >= topK
           \/ \E n \in DOMAIN out : out[n].text = hit.text
  <2>1. SelectHit(out, hit, topK, minScore) = out
    BY <1>2 DEF SelectHit
  <2>2. hit.likeness >= minScore => ~(hit.likeness < minScore)
    OBVIOUS
  <2>3. Len(out) >= topK => Len(out) = topK
    BY <1>1
  <2> QED
    BY <1>2, <2>1, <2>2, <2>3
<1>3. CASE ~(\/ hit.likeness < minScore \/ hit.text = NoWords \/ Len(out) >= topK
             \/ \E n \in DOMAIN out : out[n].text = hit.text)
  <2>1. SelectHit(out, hit, topK, minScore) = Append(out, hit)
    BY <1>3 DEF SelectHit
  <2>2. Len(out) < topK
    BY <1>1, <1>3
  <2> QED
    BY <1>3, <2>1, <2>2
<1> QED
  BY <1>2, <1>3

(* What is selected of hits that come best first keeps the promise.         *)
LEMMA SelectedIs ==
    ASSUME NEW H, \A h \in H : h.score \in Int /\ h.likeness \in Int,
           NEW topK \in Nat, NEW minScore \in Int, NEW s \in Seq(H),
           \A n, m \in DOMAIN s : n < m => s[n].score >= s[m].score
    PROVE  /\ Selected(s, topK, minScore) \in Seq(H)
           /\ Selection(Selected(s, topK, minScore), s, topK, minScore)
<1>1. PICK g \in [0..Len(s) -> Seq(H)] :
          /\ g[0] = <<>> /\ Selected(s, topK, minScore) = g[Len(s)]
          /\ \A k \in 1..Len(s) : g[k] = SelectHit(g[k - 1], s[k], topK, minScore)
  <2>1. SelectsOneByOne(H, s, topK, minScore)
    BY SelectRun
  <2> QED
    BY <2>1 DEF SelectsOneByOne
<1> DEFINE n == Len(s)
           So(k) == /\ Len(g[k]) <= topK
                    /\ \A i \in DOMAIN g[k] : \E m \in 1..k : g[k][i] = s[m]
                    /\ \A i, m \in DOMAIN g[k] : i < m =>
                           g[k][i].text # g[k][m].text /\ g[k][i].score >= g[k][m].score
                    /\ \A m \in 1..k : s[m].likeness >= minScore /\ s[m].text # NoWords =>
                           Len(g[k]) = topK \/ \E i \in DOMAIN g[k] : g[k][i].text = s[m].text
           P == {k \in 0..n : So(k)}
<1>2. n \in Nat /\ DOMAIN s = 1..n /\ \A k \in 1..n : s[k] \in H
  OBVIOUS
<1>3. g \in [0..n -> Seq(H)] /\ \A k \in 1..n : g[k] = SelectHit(g[k - 1], s[k], topK, minScore)
  BY <1>1
<1> HIDE DEF n
<1>4. 0 \in P
  <2>1. Len(g[0]) = 0 /\ DOMAIN g[0] = {} /\ 1..0 = {} /\ 0 \in 0..n
    BY <1>1, <1>2
  <2> QED
    BY <2>1
<1>5. ASSUME NEW k \in 0..(n - 1), k \in P PROVE k + 1 \in P
  <2> DEFINE out == g[k]
             hit == s[k + 1]
             new == g[k + 1]
  <2>1. /\ k \in 0..n /\ k + 1 \in 0..n /\ k + 1 \in 1..n /\ (k + 1) - 1 = k
        /\ k \in Nat
    BY <1>2, <1>5
  <2>2. out \in Seq(H) /\ hit \in H /\ hit.likeness \in Int /\ hit.score \in Int
    BY <1>2, <1>3, <2>1
  <2>3. new = SelectHit(out, hit, topK, minScore)
    BY <1>3, <2>1
  <2>4. So(k)
    BY <1>5
  <2>5. \A m \in 1..(k + 1) : m \in 1..k \/ m = k + 1
    BY <2>1
  <2>6. \A m \in 1..k : m \in 1..(k + 1)
    BY <2>1
  <2>7. CASE /\ new = out
             /\ hit.likeness >= minScore /\ hit.text # NoWords =>
                    Len(out) = topK \/ \E i \in DOMAIN out : out[i].text = hit.text
    <3> HIDE DEF hit
    <3>1. \A i \in DOMAIN new : \E m \in 1..(k + 1) : new[i] = s[m]
      BY <2>4, <2>6, <2>7
    <3>2. \A m \in 1..(k + 1) : s[m].likeness >= minScore /\ s[m].text # NoWords =>
                Len(new) = topK \/ \E i \in DOMAIN new : new[i].text = s[m].text
      BY <2>4, <2>5, <2>7 DEF hit
    <3>3. Len(new) <= topK
      BY <2>4, <2>7
    <3>4. \A i, m \in DOMAIN new : i < m => new[i].text # new[m].text /\ new[i].score >= new[m].score
      BY <2>4, <2>7
    <3> HIDE DEF out
    <3>5. So(k + 1)
      BY <3>1, <3>2, <3>3, <3>4
    <3> QED
      BY <2>1, <3>5
  <2>8. CASE /\ new = Append(out, hit)
             /\ Len(out) < topK /\ \A i \in DOMAIN out : out[i].text # hit.text
    <3> DEFINE l == Len(out)
    <3>1. /\ l \in Nat /\ DOMAIN out = 1..l /\ DOMAIN new = 1..(l + 1) /\ Len(new) = l + 1
          /\ new[l + 1] = hit /\ \A i \in 1..l : new[i] = out[i]
      BY <2>2, <2>8
    <3>2. \A i \in 1..(l + 1) : i \in 1..l \/ i = l + 1
      BY <3>1
    <3>3. \A i, m \in 1..(l + 1) : i < m => i \in 1..l
      BY <3>1
    <3>4. \A i \in 1..l : out[i].score >= hit.score
      <4> SUFFICES ASSUME NEW i \in 1..l PROVE out[i].score >= hit.score
        OBVIOUS
      <4>1. PICK m \in 1..k : out[i] = s[m]
        BY <2>4, <3>1
      <4>2. m \in 1..n /\ m < k + 1
        BY <1>2, <2>1
      <4> QED
        BY <1>2, <2>1, <4>1, <4>2
    <3>5. Len(out) <= topK
      BY <2>4
    <3> HIDE DEF out, hit, new, l
    <3>6. Len(new) <= topK
      BY <2>8, <3>1 DEF l
    <3>7. \A i \in DOMAIN new : \E m \in 1..(k + 1) : new[i] = s[m]
      <4>1. k + 1 \in 1..(k + 1)
        BY <2>1
      <4>2. \A i \in 1..l : \E m \in 1..k : out[i] = s[m]
        BY <2>4, <3>1 DEF out
      <4> QED
        BY <2>6, <3>1, <3>2, <4>1, <4>2 DEF hit
    <3>8. \A i, m \in DOMAIN out : i < m => out[i].text # out[m].text /\ out[i].score >= out[m].score
      BY <2>4 DEF out
    <3>9. \A i, m \in DOMAIN new : i < m => new[i].text # new[m].text /\ new[i].score >= new[m].score
      BY <2>8, <3>1, <3>2, <3>3, <3>4, <3>8
    <3>10. \A m \in 1..(k + 1) : s[m].likeness >= minScore /\ s[m].text # NoWords =>
                Len(new) = topK \/ \E i \in DOMAIN new : new[i].text = s[m].text
      <4>1. l + 1 \in DOMAIN new /\ \A i \in 1..l : i \in DOMAIN new
        BY <3>1
      <4>2. Len(out) # topK
        <5>1. Len(out) \in Nat /\ Len(out) < topK
          BY <2>8, <3>1 DEF l
        <5> QED
          BY <5>1
      <4>3. \A m \in 1..k : s[m].likeness >= minScore /\ s[m].text # NoWords =>
                \E i \in DOMAIN out : out[i].text = s[m].text
        BY <2>4, <4>2 DEF out
      <4> QED
        BY <2>5, <3>1, <4>1, <4>3 DEF hit
    <3> QED
      BY <2>1, <3>6, <3>7, <3>9, <3>10 DEF new
  <2> HIDE DEF P, So
  <2>9. Len(out) <= topK
    BY <2>4 DEF So
  <2> HIDE DEF out, hit, new
  <2> QED
    BY <2>2, <2>3, <2>7, <2>8, <2>9, SelectHitIs
<1>6. \A k \in 0..n : k \in P
  <2> HIDE DEF P
  <2> QED
    BY <1>2, <1>4, <1>5, UpTo
<1>7. n \in 0..n
  BY <1>2
<1>8. So(n) /\ g[n] \in Seq(H)
  BY <1>3, <1>6, <1>7
<1> HIDE DEF P
<1> QED
  <2>1. Selection(g[n], s, topK, minScore)
    BY <1>2, <1>8 DEF Selection
  <2> QED
    BY <1>1, <1>8, <2>1 DEF n

(* The best come first.                                                     *)
LEMMA ByScoreIs ==
    ASSUME NEW H, \A h \in H : h.score \in Int, NEW hits \in Seq(H)
    PROVE  /\ ByScore(hits) \in Seq(H)
           /\ \A n \in DOMAIN ByScore(hits) : \E m \in DOMAIN hits : ByScore(hits)[n] = hits[m]
           /\ \A m \in DOMAIN hits : \E n \in DOMAIN ByScore(hits) : ByScore(hits)[n] = hits[m]
           /\ \A n, m \in DOMAIN ByScore(hits) : n < m =>
                  ByScore(hits)[n].score >= ByScore(hits)[m].score
<1> DEFINE D == DOMAIN hits
           key == [n \in DOMAIN hits |-> hits[n].score]
           order == Sorted(key)
           l == Len(order)
<1>1. D \subseteq Nat /\ IsFiniteSet(D)
  <2>1. D = 1..Len(hits) /\ Len(hits) \in Nat
    OBVIOUS
  <2>2. 1 \in Int /\ Len(hits) \in Int
    BY <2>1
  <2>3. IsFiniteSet(1..Len(hits))
    BY <2>2, FS_Interval
  <2> QED
    BY <2>1, <2>3
<1>2. \A n \in D : hits[n] \in H
  OBVIOUS
<1>3. key \in [D -> Int] /\ \A n \in D : key[n] = hits[n].score
  BY <1>2
<1>4. ByScore(hits) = [n \in DOMAIN order |-> hits[order[n]]]
  BY DEF ByScore
<1> HIDE DEF D, key
<1>5. /\ order \in Seq(D) /\ DOMAIN order = 1..Len(order)
      /\ \A i \in D : \E n \in DOMAIN order : order[n] = i
      /\ \A n, m \in DOMAIN order : n < m => Before(key, order[n], order[m])
  BY <1>1, <1>3, SortedIs
<1> HIDE DEF order
<1>6. l \in Nat /\ \A n \in 1..l : order[n] \in D
  BY <1>5
<1> HIDE DEF l
<1>7. ByScore(hits) \in Seq(H) /\ DOMAIN ByScore(hits) = 1..l
  <2>1. ByScore(hits) \in [1..l -> H]
    BY <1>2, <1>4, <1>5, <1>6 DEF l
  <2> QED
    BY <1>6, <2>1
<1>8. ASSUME NEW n \in 1..l, NEW m \in 1..l, n < m
      PROVE  hits[order[n]].score >= hits[order[m]].score
  <2>1. Before(key, order[n], order[m])
    BY <1>5, <1>8 DEF l
  <2>2. key[order[n]] \in Int /\ key[order[m]] \in Int
    BY <1>3, <1>6
  <2> QED
    BY <1>3, <1>6, <2>1, <2>2 DEF Before
<1>9. \A n \in 1..l : ByScore(hits)[n] = hits[order[n]]
  BY <1>4, <1>5 DEF l
<1>10. \A m \in D : \E n \in 1..l : order[n] = m
  BY <1>5 DEF l
<1>11. \A n \in 1..l : \E m \in D : ByScore(hits)[n] = hits[m]
  BY <1>6, <1>9
<1>12. \A m \in D : \E n \in 1..l : ByScore(hits)[n] = hits[m]
  <2> SUFFICES ASSUME NEW m \in D PROVE \E n \in 1..l : ByScore(hits)[n] = hits[m]
    OBVIOUS
  <2>1. PICK n \in 1..l : order[n] = m
    BY <1>10
  <2> QED
    BY <1>9, <2>1
<1>13. \A n, m \in 1..l : n < m => ByScore(hits)[n].score >= ByScore(hits)[m].score
  BY <1>8, <1>9
<1> QED
  BY <1>7, <1>11, <1>12, <1>13 DEF D

(* Ranking keeps the promise.                                               *)
LEMMA RankedIs ==
    ASSUME NEW H, \A h \in H : h.score \in Int /\ h.likeness \in Int,
           NEW topK \in Nat, NEW minScore \in Int, NEW hits \in Seq(H)
    PROVE  /\ RankRecallHits(hits, topK, minScore) \in Seq(H)
           /\ Selection(RankRecallHits(hits, topK, minScore), hits, topK, minScore)
<1> DEFINE s == ByScore(hits)
           out == RankRecallHits(hits, topK, minScore)
<1>1. /\ s \in Seq(H)
      /\ \A n \in DOMAIN s : \E m \in DOMAIN hits : s[n] = hits[m]
      /\ \A m \in DOMAIN hits : \E n \in DOMAIN s : s[n] = hits[m]
      /\ \A n, m \in DOMAIN s : n < m => s[n].score >= s[m].score
  BY ByScoreIs
<1>2. out = Selected(s, topK, minScore)
  BY DEF RankRecallHits, Selected
<1> HIDE DEF s, out
<1>3. out \in Seq(H) /\ Selection(out, s, topK, minScore)
  BY <1>1, <1>2, SelectedIs
<1>4. \A n \in DOMAIN out : \E m \in DOMAIN hits : out[n] = hits[m]
  BY <1>1, <1>3 DEF Selection
<1>5. \A m \in DOMAIN hits : hits[m].likeness >= minScore /\ hits[m].text # NoWords =>
           Len(out) = topK \/ \E n \in DOMAIN out : out[n].text = hits[m].text
  <2> SUFFICES ASSUME NEW m \in DOMAIN hits, hits[m].likeness >= minScore, hits[m].text # NoWords
        PROVE  Len(out) = topK \/ \E n \in DOMAIN out : out[n].text = hits[m].text
    OBVIOUS
  <2>1. PICK n \in DOMAIN s : s[n] = hits[m]
    BY <1>1
  <2> QED
    BY <1>3, <2>1 DEF Selection
<1> QED
  BY <1>3, <1>4, <1>5 DEF Selection, out

-----------------------------------------------------------------------------
(* Excerpts                                                                 *)

Spans == [start : Int, end : Int]
\* The spans around some ids in their order.
Merged(s, radius) ==
    FoldLeft(LAMBDA merged, i : MergeSpan(merged, i, radius), <<>>, s)

\* A span more, or the last one longer.
MergesInto(new, merged, i, radius) ==
    \/ \E span \in Spans :
           /\ new = Append(merged, span)
           /\ span.start = i - radius /\ span.end = i + radius
    \/ \E span \in Spans :
           /\ merged # <<>>
           /\ new = [merged EXCEPT ![Len(merged)] = span]
           /\ span.start = merged[Len(merged)].start
           /\ span.end >= i + radius /\ span.end >= merged[Len(merged)].end

(* A match begins a span or makes the last one longer.                      *)
LEMMA MergeSpanIs ==
    ASSUME NEW radius \in Int, NEW merged \in Seq(Spans), NEW i \in Int
    PROVE  MergesInto(MergeSpan(merged, i, radius), merged, i, radius)
<1> DEFINE n == Len(merged)
           last == merged[n]
           span == [start |-> i - radius, end |-> i + radius]
           long == [last EXCEPT !.end = IF @ < i + radius THEN i + radius ELSE @]
<1>1. span \in Spans /\ span.start = i - radius /\ span.end = i + radius
  BY DEF Spans
<1>2. CASE ~(merged # <<>> /\ i - radius <= Last(merged).end + 1)
  BY <1>1, <1>2 DEF MergeSpan, MergesInto
<1>3. CASE merged # <<>> /\ i - radius <= Last(merged).end + 1
  <2>1. n \in DOMAIN merged /\ last \in Spans
    BY <1>3
  <2>2. /\ long \in Spans /\ long.start = last.start
        /\ long.end >= i + radius /\ long.end >= last.end
    BY <2>1 DEF Spans
  <2>3. MergeSpan(merged, i, radius) = [merged EXCEPT ![n] = long]
    BY <1>3, <2>1 DEF MergeSpan
  <2> QED
    BY <1>3, <2>2, <2>3 DEF MergesInto
<1> QED
  BY <1>2, <1>3

(* A sequence whose last element is another.                                *)
LEMMA LastChanged ==
    ASSUME NEW S, NEW s \in Seq(S), s # <<>>, NEW x \in S
    PROVE  /\ [s EXCEPT ![Len(s)] = x] \in Seq(S)
           /\ Len([s EXCEPT ![Len(s)] = x]) = Len(s)
           /\ [s EXCEPT ![Len(s)] = x][Len(s)] = x
           /\ \A k \in 1..(Len(s) - 1) : [s EXCEPT ![Len(s)] = x][k] = s[k]
<1> DEFINE n == Len(s)
           t == [s EXCEPT ![n] = x]
<1>1. n \in Nat /\ n \in 1..n /\ DOMAIN s = 1..n /\ s \in [1..n -> S]
  OBVIOUS
<1> HIDE DEF n
<1>2. t \in [1..n -> S] /\ t[n] = x /\ \A k \in 1..(n - 1) : t[k] = s[k]
  BY <1>1
<1> HIDE DEF t
<1>3. t \in Seq(S) /\ Len(t) = n
  BY <1>1, <1>2
<1> QED
  BY <1>2, <1>3 DEF n, t

(* Spans stay spans.                                                        *)
LEMMA MergeSpanType ==
    ASSUME NEW radius \in Int, NEW merged \in Seq(Spans), NEW i \in Int
    PROVE  MergeSpan(merged, i, radius) \in Seq(Spans)
<1>1. \A span \in Spans : Append(merged, span) \in Seq(Spans)
  OBVIOUS
<1>2. ASSUME NEW span \in Spans, merged # <<>>
      PROVE  [merged EXCEPT ![Len(merged)] = span] \in Seq(Spans)
  BY <1>2, LastChanged
<1>3. CASE \E span \in Spans : MergeSpan(merged, i, radius) = Append(merged, span)
  BY <1>1, <1>3
<1>4. CASE \E span \in Spans :
               merged # <<>> /\ MergeSpan(merged, i, radius) = [merged EXCEPT ![Len(merged)] = span]
  <2>1. PICK span \in Spans :
               merged # <<>> /\ MergeSpan(merged, i, radius) = [merged EXCEPT ![Len(merged)] = span]
    BY <1>4
  <2> QED
    BY <1>2, <2>1
<1> QED
  BY <1>3, <1>4, MergeSpanIs DEF MergesInto

\* Merging has gone through the matches one by one.
MergesOneByOne(s, radius) ==
    \E g \in [0..Len(s) -> Seq(Spans)] :
        /\ g[0] = <<>> /\ Merged(s, radius) = g[Len(s)]
        /\ \A k \in 1..Len(s) : g[k] = MergeSpan(g[k - 1], s[k], radius)

(* The matches are gone through one by one.                                 *)
LEMMA MergeRun ==
    ASSUME NEW radius \in Int, NEW s \in Seq(Int)
    PROVE  MergesOneByOne(s, radius)
<1> DEFINE n == Len(s)
           V == Seq(Spans)
           X == Int
           base == <<>>
           f == [p \in V \X X |-> MergeSpan(p[1], p[2], radius)]
           step == [p \in V \X (1..n) |-> f[<<p[1], s[p[2]]>>]]
           F(d) == [t \in SUBSET DOMAIN s |->
                       IF t = {} THEN base ELSE MergeSpan(d[t \ {Max(t)}], s[Max(t)], radius)]
           c == CHOOSE d : d = F(d)
<1>1. n \in Nat /\ DOMAIN s = 1..n /\ \A i \in 1..n : s[i] \in X
  OBVIOUS
<1>2. f \in [V \X X -> V] /\ base \in V
  BY MergeSpanType
<1> HIDE DEF V, X
<1>3. \A v \in V, x \in X : f[<<v, x>>] = MergeSpan(v, x, radius)
  OBVIOUS
<1> HIDE DEF f, n
<1>4. step \in [V \X (1..n) -> V]
  BY <1>1, <1>2
<1>5. PICK h \in [SUBSET (1..n) -> V] : IsFold(h, n, base, step)
  <2> HIDE DEF step, base
  <2> QED
    BY <1>1, <1>2, <1>4, FoldExists
<1>6. h = F(h)
  <2>1. ASSUME NEW t \in SUBSET (1..n), t # {}
        PROVE  step[<<h[t \ {Max(t)}], Max(t)>>] = MergeSpan(h[t \ {Max(t)}], s[Max(t)], radius)
    <3>1. Max(t) \in 1..n /\ t \ {Max(t)} \in SUBSET (1..n)
      BY <1>1, <2>1, MaxOfSome
    <3>2. h[t \ {Max(t)}] \in V /\ s[Max(t)] \in X
      BY <1>1, <1>5, <3>1
    <3> QED
      BY <1>3, <3>1, <3>2
  <2>2. h = [t \in SUBSET (1..n) |->
               IF t = {} THEN base ELSE step[<<h[t \ {Max(t)}], Max(t)>>]]
    BY <1>5 DEF IsFold
  <2> HIDE DEF step, base
  <2> QED
    BY <1>1, <2>1, <2>2
<1>7. c = F(c)
  <2> HIDE DEF F
  <2> QED
    BY <1>6
<1>8. Merged(s, radius) = c[DOMAIN s]
  BY DEF Merged, FoldLeft, MapThenFoldSet
<1> HIDE DEF c, step, base
<1> DEFINE g == [k \in 0..n |-> c[1..k]]
<1>9. c[1..0] = base
  <2>1. 1..0 = {} /\ (1..0) \in SUBSET DOMAIN s
    OBVIOUS
  <2> QED
    BY <1>7, <2>1
<1>10. ASSUME NEW k \in 1..n PROVE c[1..k] = MergeSpan(c[1..(k - 1)], s[k], radius)
  <2>1. Max(1..k) = k /\ (1..k) \ {k} = 1..(k - 1) /\ 1..k # {}
    <3>1. k \in Nat /\ k # 0
      BY <1>1
    <3> QED
      BY <3>1, MaxOfAll
  <2>2. (1..k) \in SUBSET DOMAIN s
    BY <1>1
  <2> QED
    BY <1>7, <2>1, <2>2
<1>11. /\ g[0] = base /\ g[n] = c[DOMAIN s] /\ g = [k \in 0..n |-> g[k]]
       /\ \A k \in 1..n : g[k] = MergeSpan(g[k - 1], s[k], radius)
  BY <1>1, <1>9, <1>10
<1> HIDE DEF g
<1>12. \A k \in 1..n : g[k - 1] \in V => g[k] = f[<<g[k - 1], s[k]>>]
  BY <1>1, <1>3, <1>11
<1>13. g \in [0..n -> V]
  <2>1. s \in Seq(X) /\ g[0] \in V
    BY <1>2, <1>11 DEF X
  <2>2. IsRun(g, f, V, g[0], s)
    BY <1>2, <1>11, <1>12, <2>1, ChainIsRun DEF n
  <2> QED
    BY <2>2 DEF IsRun, n
<1> QED
  BY <1>8, <1>11, <1>13 DEF n, V, X, base, MergesOneByOne

(* A longer span covers what the shorter one does.                          *)
LEMMA CoversMore ==
    ASSUME NEW less \in Spans, NEW more \in Spans, more.start = less.start,
           more.end >= less.end, NEW i \in Int, Covers(less, i)
    PROVE  Covers(more, i)
BY DEF Covers, Spans

(* Every match is in a span.                                                *)
LEMMA MergedCovers ==
    ASSUME NEW radius \in Nat, NEW s \in Seq(Int),
           \A i, k \in DOMAIN s : i < k => s[i] < s[k]
    PROVE  /\ Merged(s, radius) \in Seq(Spans)
           /\ \A i \in DOMAIN s : \E k \in DOMAIN Merged(s, radius) :
                  Covers(Merged(s, radius)[k], s[i])
<1>1. PICK g \in [0..Len(s) -> Seq(Spans)] :
          /\ g[0] = <<>> /\ Merged(s, radius) = g[Len(s)]
          /\ \A k \in 1..Len(s) : g[k] = MergeSpan(g[k - 1], s[k], radius)
  <2>1. MergesOneByOne(s, radius)
    BY MergeRun
  <2> QED
    BY <2>1 DEF MergesOneByOne
<1> DEFINE n == Len(s)
           So(k) == /\ g[k] # <<>> => k > 0 /\ g[k][Len(g[k])].start <= s[k]
                    /\ \A i \in 1..k : \E m \in DOMAIN g[k] : Covers(g[k][m], s[i])
           P == {k \in 0..n : So(k)}
<1>2. n \in Nat /\ DOMAIN s = 1..n /\ \A k \in 1..n : s[k] \in Int
  OBVIOUS
<1>3. g \in [0..n -> Seq(Spans)] /\ \A k \in 1..n : g[k] = MergeSpan(g[k - 1], s[k], radius)
  BY <1>1
<1> HIDE DEF n
<1>4. 0 \in P
  <2>1. 1..0 = {} /\ 0 \in 0..n
    BY <1>2
  <2> QED
    BY <1>1, <2>1
<1>5. ASSUME NEW k \in 0..(n - 1), k \in P PROVE k + 1 \in P
  <2> DEFINE merged == g[k]
             id == s[k + 1]
             new == g[k + 1]
             l == Len(merged)
  <2>1. /\ k \in 0..n /\ k + 1 \in 0..n /\ k + 1 \in 1..n /\ (k + 1) - 1 = k
        /\ k \in Nat /\ k + 1 > 0
    BY <1>2
  <2>2. merged \in Seq(Spans) /\ id \in Int
    <3>1. g[k] \in Seq(Spans)
      BY <1>3, <2>1
    <3>2. s[k + 1] \in Int
      BY <1>2, <2>1
    <3> QED
      BY <3>1, <3>2
  <2>3. new = MergeSpan(merged, id, radius)
    BY <1>3, <2>1
  <2>4. So(k)
    BY <1>5
  <2>5. \A i \in 1..(k + 1) : i \in 1..k \/ i = k + 1
    BY <2>1
  <2>6. merged # <<>> => merged[l].start <= id
    <3>1. SUFFICES ASSUME merged # <<>> PROVE merged[l].start <= id
      OBVIOUS
    <3>2. k > 0 /\ merged[l].start <= s[k]
      BY <2>4, <3>1
    <3>3. k \in 1..n /\ k < k + 1
      BY <2>1, <3>2
    <3>4. s[k] < id /\ s[k] \in Int
      BY <1>2, <2>1, <3>3
    <3>5. merged[l].start \in Int
      <4>1. l \in DOMAIN merged
        BY <2>2, <3>1
      <4>2. merged[l] \in Spans
        BY <2>2, <4>1
      <4> QED
        BY <4>2 DEF Spans
    <3> DEFINE from == merged[l].start
               last == s[k]
    <3>6. from <= last /\ last < id /\ from \in Int /\ last \in Int /\ id \in Int
      BY <2>2, <3>2, <3>4, <3>5
    <3> HIDE DEF from, last, id
    <3>7. from <= id
      BY <3>6
    <3> QED
      BY <3>7 DEF from
  <2>7. l \in Nat /\ DOMAIN merged = 1..l /\ \A m \in 1..l : merged[m] \in Spans
    BY <2>2
  <2>8. \A i \in 1..k : \E m \in 1..l : Covers(merged[m], s[i])
    BY <2>4, <2>7
  <2>9. \A i \in 1..k : s[i] \in Int
    BY <1>2, <2>1
  <2> HIDE DEF id, l
  <2>10. ASSUME NEW span \in Spans, new = Append(merged, span),
                span.start = id - radius, span.end = id + radius
         PROVE  /\ new[Len(new)].start <= id
                /\ \A i \in 1..(k + 1) : \E m \in DOMAIN new : Covers(new[m], s[i])
    <3>1. /\ Len(new) = l + 1 /\ DOMAIN new = 1..(l + 1) /\ new[l + 1] = span
          /\ \A m \in 1..l : new[m] = merged[m] /\ m \in 1..(l + 1)
      BY <2>2, <2>10 DEF l
    <3>2. Covers(span, id) /\ span.start <= id
      BY <2>2, <2>10 DEF Covers
    <3>3. l + 1 \in 1..(l + 1)
      BY <2>7
    <3> HIDE DEF new, merged
    <3>4. \A i \in 1..k : \E m \in DOMAIN new : Covers(new[m], s[i])
      BY <2>8, <3>1
    <3>5. \E m \in DOMAIN new : Covers(new[m], s[k + 1])
      BY <3>1, <3>2, <3>3 DEF id
    <3> QED
      BY <2>5, <3>1, <3>2, <3>4, <3>5
  <2>11. ASSUME NEW span \in Spans, merged # <<>>, new = [merged EXCEPT ![l] = span],
                span.start = merged[l].start, span.end >= id + radius, span.end >= merged[l].end
         PROVE  /\ new[Len(new)].start <= id
                /\ \A i \in 1..(k + 1) : \E m \in DOMAIN new : Covers(new[m], s[i])
    <3>1. /\ new \in Seq(Spans) /\ Len(new) = l /\ new[l] = span
          /\ \A m \in 1..(l - 1) : new[m] = merged[m]
      BY <2>2, <2>11, LastChanged DEF l
    <3>2. DOMAIN new = 1..l /\ l \in 1..l
      BY <2>2, <2>11, <3>1 DEF l
    <3>3. \A m \in 1..l : m \in 1..(l - 1) \/ m = l
      BY <2>7
    <3>4. /\ span.start \in Int /\ span.end \in Int
          /\ merged[l].start \in Int /\ merged[l].end \in Int
      BY <2>7, <3>2 DEF Spans
    <3>5. span.start <= id
      BY <2>6, <2>11
    <3>6. Covers(span, id)
      BY <2>2, <2>11, <3>4, <3>5 DEF Covers
    <3>7. ASSUME NEW i \in 1..k, Covers(merged[l], s[i]) PROVE Covers(span, s[i])
      <4>1. s[i] \in Int /\ merged[l] \in Spans
        BY <2>7, <2>9, <3>2
      <4> QED
        BY <2>11, <3>7, <4>1, CoversMore
    <3> HIDE DEF new, merged
    <3>8. \A i \in 1..k : \E m \in DOMAIN new : Covers(new[m], s[i])
      <4> SUFFICES ASSUME NEW i \in 1..k PROVE \E m \in 1..l : Covers(new[m], s[i])
        BY <3>2
      <4>1. PICK m \in 1..l : Covers(merged[m], s[i])
        BY <2>8
      <4> QED
        BY <3>1, <3>2, <3>3, <3>7, <4>1
    <3>9. \E m \in DOMAIN new : Covers(new[m], s[k + 1])
      BY <3>1, <3>2, <3>6 DEF id
    <3> QED
      BY <2>5, <3>1, <3>5, <3>8, <3>9
  <2>12. /\ new[Len(new)].start <= id
         /\ \A i \in 1..(k + 1) : \E m \in DOMAIN new : Covers(new[m], s[i])
    <3>1. radius \in Int
      OBVIOUS
    <3> HIDE DEF new, merged
    <3>2. MergesInto(new, merged, id, radius)
      BY <2>2, <2>3, <3>1, MergeSpanIs
    <3>3. CASE \E span \in Spans : /\ new = Append(merged, span)
                                   /\ span.start = id - radius /\ span.end = id + radius
      BY <2>10, <3>3
    <3>4. CASE \E span \in Spans :
                   /\ merged # <<>>
                   /\ new = [merged EXCEPT ![l] = span]
                   /\ span.start = merged[l].start
                   /\ span.end >= id + radius /\ span.end >= merged[l].end
      BY <2>11, <3>4
    <3> QED
      BY <3>2, <3>3, <3>4 DEF MergesInto, l
  <2>13. So(k + 1)
    BY <2>1, <2>12 DEF id
  <2> QED
    BY <2>1, <2>13
<1>6. \A k \in 0..n : k \in P
  <2> HIDE DEF P
  <2> QED
    BY <1>2, <1>4, <1>5, UpTo
<1>7. n \in 0..n
  BY <1>2
<1>8. So(n) /\ g[n] \in Seq(Spans)
  BY <1>3, <1>6, <1>7
<1> HIDE DEF P
<1> QED
  BY <1>1, <1>2, <1>8 DEF n

(* Ids in ascending order.                                                  *)
LEMMA AscendingIs ==
    ASSUME NEW D, D \subseteq Nat, IsFiniteSet(D)
    PROVE  /\ Ascending(D) \in Seq(D) /\ DOMAIN Ascending(D) = 1..Len(Ascending(D))
           /\ \A i \in D : \E n \in DOMAIN Ascending(D) : Ascending(D)[n] = i
           /\ \A n, m \in DOMAIN Ascending(D) : n < m => Ascending(D)[n] < Ascending(D)[m]
<1> DEFINE key == [i \in D |-> 0]
           s == Sorted(key)
<1>1. key \in [D -> Int] /\ \A i \in D : key[i] = 0
  OBVIOUS
<1>2. Ascending(D) = s
  BY DEF Ascending
<1> HIDE DEF key, s
<1>3. /\ s \in Seq(D) /\ DOMAIN s = 1..Len(s)
      /\ \A i \in D : \E n \in DOMAIN s : s[n] = i
      /\ \A n, m \in DOMAIN s : n < m => Before(key, s[n], s[m])
  BY <1>1, SortedIs DEF s
<1>4. ASSUME NEW n \in DOMAIN s, NEW m \in DOMAIN s, n < m PROVE s[n] < s[m]
  <2>1. s[n] \in D /\ s[m] \in D /\ Before(key, s[n], s[m])
    BY <1>3, <1>4
  <2>2. key[s[n]] = 0 /\ key[s[m]] = 0
    BY <1>1, <2>1
  <2> QED
    BY <2>1, <2>2 DEF Before
<1> QED
  BY <1>2, <1>3, <1>4

-----------------------------------------------------------------------------
(* Candidates                                                               *)

Hits(T) == [store : {"long", "short"}, id : Nat, text : T, likeness : Int,
            context : SUBSET Nat, score : Int]
\* What is stored: rows with a likeness to the query.
StoredMessages(N, T) == [session : N, role : N, likeness : Int, text : T]
StoredFacts(T) == [likeness : Int, importance : Int, text : T]

(* Places of a sequence are numbers, and finitely many.                     *)
LEMMA PlacesAre ==
    ASSUME NEW X, NEW s \in Seq(X), NEW D, D \subseteq DOMAIN s
    PROVE  D \subseteq Nat /\ IsFiniteSet(D)
<1>1. DOMAIN s = 1..Len(s) /\ Len(s) \in Nat
  OBVIOUS
<1>2. 1 \in Int /\ Len(s) \in Int
  BY <1>1
<1>3. IsFiniteSet(1..Len(s))
  BY <1>2, FS_Interval
<1>4. D \in SUBSET (1..Len(s))
  BY <1>1
<1> QED
  BY <1>3, <1>4, FS_Subset

(* Rows sorted by likeness are those rows.                                  *)
LEMMA ByLikenessIs ==
    ASSUME NEW X, \A x \in X : x.likeness \in Int, NEW rows \in Seq(X),
           NEW D, D \subseteq DOMAIN rows
    PROVE  /\ ByLikeness(rows, D) \in Seq(D)
           /\ DOMAIN ByLikeness(rows, D) = 1..Len(ByLikeness(rows, D))
           /\ \A i \in D : \E n \in DOMAIN ByLikeness(rows, D) : ByLikeness(rows, D)[n] = i
<1> DEFINE key == LikenessOf(rows, D)
<1>1. key \in [D -> Int]
  <2>1. \A i \in D : rows[i] \in X
    OBVIOUS
  <2>2. \A i \in D : rows[i].likeness \in Int
    BY <2>1
  <2> QED
    BY <2>2 DEF LikenessOf
<1>2. D \subseteq Nat /\ IsFiniteSet(D)
  BY PlacesAre
<1>3. ByLikeness(rows, D) = Sorted(key)
  BY DEF ByLikeness
<1> HIDE DEF key
<1> QED
  BY <1>1, <1>2, <1>3, SortedIs

(* Two numbers have a product.                                              *)
LEMMA ProductIs ==
    ASSUME NEW a \in Int, NEW b \in Int
    PROVE  a * b \in Int
OBVIOUS

(* A value within limits.                                                   *)
LEMMA WithinIs ==
    ASSUME NEW n \in Int, NEW low \in Int, NEW high \in Int
    PROVE  /\ Within(n, low, high) \in Int
           /\ low <= high => low <= Within(n, low, high) /\ Within(n, low, high) <= high
BY DEF Within

(* The facts that are candidates.                                           *)
LEMMA LongCandidates ==
    ASSUME NEW T, NEW facts \in Seq(StoredFacts(T)), NEW limit, NEW weight \in Int
    PROVE  /\ FetchLongTermCandidates(facts, limit, weight) \in Seq(Hits(T))
           /\ \A n \in DOMAIN FetchLongTermCandidates(facts, limit, weight) :
                  FetchLongTermCandidates(facts, limit, weight)[n].store = "long"
<1> DEFINE D == Nearest(facts, limit)
           ids == ByLikeness(facts, D)
           l == Len(ids)
           hit(i) == [store |-> "long", id |-> i, text |-> facts[i].text,
                      likeness |-> facts[i].likeness, context |-> {},
                      score |-> facts[i].likeness * weight
                                * (9 + Within(facts[i].importance, 1, 5))]
           c == FetchLongTermCandidates(facts, limit, weight)
<1>1. D \subseteq DOMAIN facts
  BY DEF Nearest
<1>2. c = [n \in DOMAIN ids |-> hit(ids[n])]
  BY DEF FetchLongTermCandidates
<1>3. ASSUME NEW i \in DOMAIN facts PROVE hit(i) \in Hits(T) /\ hit(i).store = "long"
  <2>1. facts[i] \in StoredFacts(T) /\ i \in Nat
    OBVIOUS
  <2>2. facts[i].likeness \in Int /\ facts[i].importance \in Int /\ facts[i].text \in T
    BY <2>1 DEF StoredFacts
  <2>3. Within(facts[i].importance, 1, 5) \in Int
    BY <2>2, SMT, WithinIs DEF Within
  <2>4. 9 + Within(facts[i].importance, 1, 5) \in Int
    BY <2>3
  <2>5. facts[i].likeness * weight * (9 + Within(facts[i].importance, 1, 5)) \in Int
    <3>1. facts[i].likeness * weight \in Int
      BY <2>2, ProductIs
    <3> QED
      BY <2>4, <3>1, ProductIs
  <2>6. PICK score \in Int : score = facts[i].likeness * weight
                                     * (9 + Within(facts[i].importance, 1, 5))
    BY <2>5
  <2>7. hit(i) = [store |-> "long", id |-> i, text |-> facts[i].text,
                  likeness |-> facts[i].likeness, context |-> {}, score |-> score]
    BY <2>6
  <2> QED
    BY <2>1, <2>2, <2>7 DEF Hits
<1> HIDE DEF D, c, hit
<1>4. ids \in Seq(D) /\ DOMAIN ids = 1..l
  <2>1. \A x \in StoredFacts(T) : x.likeness \in Int
    BY DEF StoredFacts
  <2> QED
    BY <1>1, <2>1, ByLikenessIs
<1> HIDE DEF ids
<1>5. l \in Nat /\ \A n \in 1..l : ids[n] \in DOMAIN facts
  BY <1>1, <1>4
<1> HIDE DEF l
<1>6. c \in [1..l -> Hits(T)] /\ \A n \in 1..l : c[n].store = "long"
  BY <1>2, <1>3, <1>4, <1>5
<1>7. c \in Seq(Hits(T)) /\ DOMAIN c = 1..l
  BY <1>5, <1>6
<1> QED
  BY <1>6, <1>7 DEF c

\* A session's excerpts: each holds the message it was found for, and neither a
\* message of the window nor one of another session.
OwnExcerpts(hits, messages, session, excluded) ==
    \A n \in DOMAIN hits :
        /\ hits[n].store = "short" /\ hits[n].id \in hits[n].context
        /\ \A i \in hits[n].context : i \notin excluded /\ messages[i].session = session
\* The messages of a session that are found and not in the window.
MatchedIn(messages, session, limit, excluded) ==
    {i \in Nearest(messages, limit) :
        /\ messages[i].session = session /\ Conversational(messages[i])
        /\ i \notin excluded}

(* The messages that are candidates.                                        *)
LEMMA ShortCandidates ==
    ASSUME NEW N, NEW T, NEW messages \in Seq(StoredMessages(N, T)), NEW session, NEW limit,
           NEW window, NEW radius \in Nat,
           NEW c, c = FetchShortTermCandidates(messages, session, limit, window, radius),
           NEW excluded, excluded = FetchRecentShortTermIds(messages, session, window)
    PROVE  /\ c \in Seq(Hits(T)) /\ OwnExcerpts(c, messages, session, excluded)
           /\ \A i \in MatchedIn(messages, session, limit, excluded) :
                  \E n \in DOMAIN c : /\ c[n].text = messages[i].text
                                      /\ c[n].likeness = messages[i].likeness
<1> DEFINE D == MatchedIn(messages, session, limit, excluded)
           spans == MergeShortTermContextSpans(D, radius)
           spanOf(i) == spans[CHOOSE n \in DOMAIN spans : Covers(spans[n], i)]
           context(i) == FetchShortTermContextMessages(messages, session, spanOf(i), excluded)
           hit(i) == [store |-> "short", id |-> i, text |-> messages[i].text,
                      likeness |-> messages[i].likeness, context |-> context(i),
                      score |-> messages[i].likeness * 10]
           ids == ByLikeness(messages, D)
           l == Len(ids)
<1>1. D \subseteq DOMAIN messages
  BY DEF MatchedIn, Nearest
<1>2. D \subseteq Nat /\ IsFiniteSet(D)
  <2> HIDE DEF D
  <2> QED
    BY <1>1, PlacesAre
<1>3. c = [n \in DOMAIN ids |-> hit(ids[n])]
  BY DEF FetchShortTermCandidates, MatchedIn
<1>4. \A i \in D : messages[i].session = session /\ Conversational(messages[i]) /\ i \notin excluded
  BY DEF MatchedIn
<1> HIDE DEF D
<1>5. spans \in Seq(Spans) /\ \A i \in D : \E n \in DOMAIN spans : Covers(spans[n], i)
  <2> DEFINE s == Ascending(D)
  <2>1. spans = Merged(s, radius)
    BY DEF MergeShortTermContextSpans, Merged
  <2>2. /\ s \in Seq(D) /\ \A i \in D : \E n \in DOMAIN s : s[n] = i
        /\ \A n, m \in DOMAIN s : n < m => s[n] < s[m]
    BY <1>2, AscendingIs
  <2> HIDE DEF s, spans
  <2>3. s \in Seq(Int)
    <3>1. D \subseteq Int /\ Len(s) \in Nat /\ s \in [1..Len(s) -> D]
      BY <1>2, <2>2
    <3>2. s \in [1..Len(s) -> Int]
      BY <3>1
    <3> QED
      BY <3>1, <3>2
  <2>4. /\ Merged(s, radius) \in Seq(Spans)
        /\ \A i \in DOMAIN s : \E k \in DOMAIN Merged(s, radius) :
               Covers(Merged(s, radius)[k], s[i])
    BY <2>2, <2>3, MergedCovers
  <2>5. ASSUME NEW i \in D PROVE \E n \in DOMAIN spans : Covers(spans[n], i)
    <3>1. PICK m \in DOMAIN s : s[m] = i
      BY <2>2
    <3> QED
      BY <2>1, <2>4, <3>1
  <2> QED
    BY <2>1, <2>4, <2>5
<1> HIDE DEF spans
<1>6. ASSUME NEW i \in D
      PROVE  /\ i \in context(i) /\ context(i) \subseteq Nat
             /\ \A k \in context(i) : k \notin excluded /\ messages[k].session = session
  <2>1. Covers(spanOf(i), i) /\ spanOf(i) \in Spans
    <3>1. \E n \in DOMAIN spans : Covers(spans[n], i)
      BY <1>5
    <3>2. PICK n \in DOMAIN spans : spanOf(i) = spans[n] /\ Covers(spans[n], i)
      BY <3>1
    <3>3. spans[n] \in Spans
      BY <1>5
    <3> HIDE DEF spanOf
    <3> QED
      BY <3>2, <3>3
  <2> HIDE DEF spanOf
  <2>2. spanOf(i).start \in Int /\ spanOf(i).end \in Int /\ i \in Int
    BY <1>2, <2>1 DEF Spans
  <2>3. i \in spanOf(i).start..spanOf(i).end
    BY <2>1, <2>2 DEF Covers
  <2>4. i \in DOMAIN messages /\ DOMAIN messages \subseteq Nat
    BY <1>1
  <2> QED
    BY <1>4, <2>3, <2>4 DEF FetchShortTermContextMessages
<1> HIDE DEF context
<1>7. ASSUME NEW i \in D PROVE hit(i) \in Hits(T)
  <2>1. messages[i] \in StoredMessages(N, T) /\ i \in Nat
    BY <1>1
  <2>2. messages[i].likeness \in Int /\ messages[i].text \in T
    BY <2>1 DEF StoredMessages
  <2>3. messages[i].likeness * 10 \in Int /\ context(i) \in SUBSET Nat
    BY <1>6, <2>2
  <2> QED
    BY <2>1, <2>2, <2>3 DEF Hits
<1>8. \A i \in D : /\ hit(i).store = "short" /\ hit(i).id = i /\ hit(i).context = context(i)
                   /\ hit(i).text = messages[i].text /\ hit(i).likeness = messages[i].likeness
  OBVIOUS
<1> HIDE DEF hit
<1>9. /\ ids \in Seq(D) /\ DOMAIN ids = 1..l
      /\ \A i \in D : \E n \in DOMAIN ids : ids[n] = i
  <2>1. \A x \in StoredMessages(N, T) : x.likeness \in Int
    BY DEF StoredMessages
  <2> QED
    BY <1>1, <2>1, ByLikenessIs
<1> HIDE DEF ids
<1>10. l \in Nat /\ \A n \in 1..l : ids[n] \in D
  BY <1>9
<1> HIDE DEF l
<1>11. c \in [1..l -> Hits(T)] /\ \A n \in 1..l : c[n] = hit(ids[n])
  BY <1>3, <1>7, <1>9, <1>10
<1>12. c \in Seq(Hits(T)) /\ DOMAIN c = 1..l
  BY <1>10, <1>11
<1>13. OwnExcerpts(c, messages, session, excluded)
  BY <1>6, <1>8, <1>10, <1>11, <1>12 DEF OwnExcerpts
<1>14. ASSUME NEW i \in D
       PROVE  \E n \in 1..l : c[n].text = messages[i].text /\ c[n].likeness = messages[i].likeness
  <2>1. PICK n \in 1..l : ids[n] = i
    BY <1>9
  <2> QED
    BY <1>8, <1>11, <2>1
<1> QED
  BY <1>12, <1>13, <1>14 DEF D

-----------------------------------------------------------------------------
(* What a turn is reminded of                                               *)

\* RecallIsRight of given hits.
Promise(hits, preferLong, messages, excluded, reachable, topK) ==
    /\ Len(hits) <= topK
    /\ BestFirst(hits, preferLong)
    /\ ExcerptsAreOwn(hits, messages, excluded)
    /\ \A i \in reachable :
           \/ \E n \in DOMAIN hits : hits[n].text = messages[i].text
           \/ Len(hits) = topK
\* The candidates that hits are selected from.
Candidates(T, long, short, messages, excluded, reachable, minScore) ==
    /\ long \in Seq(Hits(T)) /\ short \in Seq(Hits(T))
    /\ \A n \in DOMAIN long : long[n].store = "long"
    /\ OwnExcerpts(short, messages, "s", excluded)
    /\ \A i \in reachable : \E n \in DOMAIN short :
           /\ short[n].text = messages[i].text /\ short[n].text # NoWords
           /\ short[n].likeness >= minScore

(* Facts first, and messages as far as there is room.                       *)
LEMMA FactsFirst ==
    ASSUME NEW T, NEW long, NEW short, NEW messages, NEW excluded, NEW reachable,
           NEW minScore \in Int, NEW topK \in Nat,
           Candidates(T, long, short, messages, excluded, reachable, minScore),
           NEW ranked, ranked = RankRecallHits(long, topK, minScore),
           NEW rest, rest = RankRecallHits(short, topK, minScore)
    PROVE  Promise(ranked \o SubSeq(rest, 1, Within(topK - Len(ranked), 0, Len(rest))),
                   TRUE, messages, excluded, reachable, topK)
<1> DEFINE H == Hits(T)
           r == Len(ranked)
           m == Len(rest)
           cut == Within(topK - r, 0, m)
           hits == ranked \o SubSeq(rest, 1, cut)
<1>1. \A h \in H : h.score \in Int /\ h.likeness \in Int
  BY DEF Hits
<1>2. long \in Seq(H) /\ short \in Seq(H)
  BY DEF Candidates
<1> HIDE DEF H
<1>3. ranked \in Seq(H) /\ Selection(ranked, long, topK, minScore)
  BY <1>1, <1>2, RankedIs
<1>4. rest \in Seq(H) /\ Selection(rest, short, topK, minScore)
  BY <1>1, <1>2, RankedIs
<1>5. /\ r \in Nat /\ DOMAIN ranked = 1..r /\ r <= topK
      /\ m \in Nat /\ DOMAIN rest = 1..m /\ m <= topK
  BY <1>3, <1>4 DEF Selection
<1> HIDE DEF r, m
<1>6. /\ cut \in Nat /\ cut <= m /\ r + cut <= topK /\ (cut < m => r + cut = topK)
      /\ m = topK => r + cut = topK
  BY <1>5 DEF Within
<1> HIDE DEF cut
<1>7. /\ Len(hits) = r + cut /\ DOMAIN hits = 1..(r + cut)
      /\ \A n \in 1..r : hits[n] = ranked[n]
      /\ \A n \in (r + 1)..(r + cut) : hits[n] = rest[n - r]
  <2> DEFINE cutRest == SubSeq(rest, 1, cut)
  <2>1. /\ cutRest \in Seq(H) /\ Len(cutRest) = cut
        /\ \A k \in 1..cut : cutRest[k] = rest[k]
    <3>1. cut \in Nat /\ cut <= Len(rest) /\ rest \in Seq(H)
      BY <1>4, <1>5, <1>6 DEF m
    <3>2. \A k \in 1..cut : k \in 1..Len(rest)
      BY <3>1
    <3>3. cutRest = [k \in 1..cut |-> rest[k]]
      BY <3>1
    <3>4. cutRest \in [1..cut -> H]
      <4>1. \A k \in 1..cut : rest[k] \in H
        BY <3>1, <3>2
      <4> HIDE DEF cutRest
      <4> QED
        BY <3>3, <4>1
    <3> QED
      BY <3>1, <3>3, <3>4
  <2> HIDE DEF cutRest
  <2>2. hits = ranked \o cutRest
    BY DEF cutRest
  <2>3. /\ Len(hits) = r + cut /\ DOMAIN hits = 1..(r + cut)
        /\ \A n \in 1..r : hits[n] = ranked[n]
        /\ \A n \in (r + 1)..(r + cut) : hits[n] = cutRest[n - r]
    BY <1>3, <1>5, <1>6, <2>1, <2>2 DEF r
  <2>4. \A n \in (r + 1)..(r + cut) : n - r \in 1..cut
    BY <1>5, <1>6
  <2> QED
    BY <2>1, <2>3, <2>4
<1> HIDE DEF hits
<1>8. \A n \in (r + 1)..(r + cut) : n - r \in 1..m
  BY <1>5, <1>6
<1>9. \A n \in 1..(r + cut) : n \in 1..r \/ n \in (r + 1)..(r + cut)
  BY <1>5, <1>6
<1>10. \A n \in 1..r : hits[n].store = "long"
  <2> SUFFICES ASSUME NEW n \in 1..r PROVE hits[n].store = "long"
    OBVIOUS
  <2>1. PICK k \in DOMAIN long : ranked[n] = long[k]
    BY <1>3, <1>5 DEF Selection
  <2>2. long[k].store = "long"
    BY DEF Candidates
  <2> QED
    BY <1>7, <2>1, <2>2
<1>11. \A n \in (r + 1)..(r + cut) : \E k \in DOMAIN short : hits[n] = short[k]
  BY <1>4, <1>5, <1>7, <1>8 DEF Selection
<1>12. \A n \in (r + 1)..(r + cut) :
           /\ hits[n].store = "short" /\ hits[n].id \in hits[n].context
           /\ \A i \in hits[n].context : i \notin excluded /\ messages[i].session = "s"
  BY <1>11 DEF Candidates, OwnExcerpts
<1>13. ASSUME NEW n \in 1..(r + cut), NEW k \in 1..(r + cut), n < k
       PROVE  /\ hits[n].text = hits[k].text => hits[n].store # hits[k].store
              /\ hits[n].store = hits[k].store => hits[n].score >= hits[k].score
  <2>1. CASE n \in 1..r /\ k \in 1..r
    <3>1. n \in DOMAIN ranked /\ k \in DOMAIN ranked
      BY <1>5, <2>1
    <3>2. ranked[n].text # ranked[k].text /\ ranked[n].score >= ranked[k].score
      BY <1>3, <1>13, <3>1 DEF Selection
    <3> QED
      BY <1>7, <2>1, <3>2
  <2>2. CASE n \in (r + 1)..(r + cut) /\ k \in (r + 1)..(r + cut)
    <3>1. n - r < k - r /\ n - r \in 1..m /\ k - r \in 1..m
      BY <1>5, <1>8, <1>13, <2>2
    <3>2. rest[n - r].text # rest[k - r].text /\ rest[n - r].score >= rest[k - r].score
      BY <1>4, <1>5, <3>1 DEF Selection
    <3> QED
      BY <1>7, <2>2, <3>2
  <2>3. CASE n \in 1..r /\ k \in (r + 1)..(r + cut)
    <3>1. hits[n].store = "long" /\ hits[k].store = "short"
      BY <1>10, <1>12, <2>3
    <3> QED
      BY <3>1
  <2>4. ~(n \in (r + 1)..(r + cut) /\ k \in 1..r)
    BY <1>5, <1>13
  <2> QED
    BY <1>9, <2>1, <2>2, <2>3, <2>4
<1>14. ASSUME NEW i \in reachable
       PROVE  \/ \E n \in DOMAIN hits : hits[n].text = messages[i].text
              \/ Len(hits) = topK
  <2>1. PICK k \in DOMAIN short : /\ short[k].text = messages[i].text /\ short[k].text # NoWords
                                  /\ short[k].likeness >= minScore
    BY DEF Candidates
  <2>2. m = topK \/ \E n \in 1..m : rest[n].text = messages[i].text
    <3>1. Len(rest) = topK \/ \E n \in DOMAIN rest : rest[n].text = short[k].text
      BY <1>4, <2>1 DEF Selection
    <3> QED
      BY <1>5, <2>1, <3>1 DEF m
  <2>3. CASE m = topK
    BY <1>6, <1>7, <2>3
  <2>4. ASSUME NEW n \in 1..m, rest[n].text = messages[i].text, n <= cut
        PROVE  \E k2 \in DOMAIN hits : hits[k2].text = messages[i].text
    <3>1. /\ n + r \in (r + 1)..(r + cut) /\ n + r \in 1..(r + cut) /\ (n + r) - r = n
      BY <1>5, <1>6, <2>4
    <3>2. hits[n + r] = rest[n]
      BY <1>7, <3>1
    <3> QED
      BY <1>7, <2>4, <3>1, <3>2
  <2>5. ASSUME NEW n \in 1..m, ~(n <= cut) PROVE Len(hits) = topK
    <3>1. cut < m
      BY <1>5, <1>6, <2>5
    <3> QED
      BY <1>6, <1>7, <3>1
  <2> QED
    BY <2>2, <2>3, <2>4, <2>5
<1>15. BestFirst(hits, TRUE)
  BY <1>7, <1>13 DEF BestFirst
<1>16. ExcerptsAreOwn(hits, messages, excluded)
  <2>1. \A n \in 1..r : hits[n].store # "short"
    BY <1>10
  <2> QED
    BY <1>7, <1>9, <1>12, <2>1 DEF ExcerptsAreOwn
<1>17. Len(hits) <= topK
  BY <1>6, <1>7
<1>18. Promise(hits, TRUE, messages, excluded, reachable, topK)
  BY <1>14, <1>15, <1>16, <1>17 DEF Promise
<1> QED
  BY <1>18 DEF hits, cut, r, m

\* Every hit is one of the candidates.
AmongThem(hits, long, short) ==
    \A n \in DOMAIN hits : \/ \E k \in DOMAIN long : hits[n] = long[k]
                           \/ \E k \in DOMAIN short : hits[n] = short[k]

(* Facts and messages by their scores.                                      *)
LEMMA AllByScore ==
    ASSUME NEW T, NEW long, NEW short, NEW messages, NEW excluded, NEW reachable,
           NEW minScore \in Int, NEW topK \in Nat, NEW preferLong,
           Candidates(T, long, short, messages, excluded, reachable, minScore),
           NEW hits, hits = RankRecallHits(long \o short, topK, minScore)
    PROVE  /\ Promise(hits, preferLong, messages, excluded, reachable, topK)
           /\ AmongThem(hits, long, short) /\ Len(hits) \in Nat
<1> DEFINE H == Hits(T)
           l == Len(long)
           m == Len(short)
           c == long \o short
<1>1. \A h \in H : h.score \in Int /\ h.likeness \in Int
  BY DEF Hits
<1>2. long \in Seq(H) /\ short \in Seq(H)
  BY DEF Candidates
<1> HIDE DEF H
<1>3. /\ c \in Seq(H) /\ l \in Nat /\ m \in Nat /\ DOMAIN c = 1..(l + m)
      /\ DOMAIN long = 1..l /\ DOMAIN short = 1..m
      /\ \A n \in 1..l : c[n] = long[n]
      /\ \A n \in (l + 1)..(l + m) : c[n] = short[n - l]
  BY <1>2
<1>0. hits = RankRecallHits(c, topK, minScore)
  OBVIOUS
<1> HIDE DEF c, l, m
<1>4. hits \in Seq(H) /\ Selection(hits, c, topK, minScore)
  BY <1>0, <1>1, <1>3, RankedIs
<1>5. \A n \in 1..(l + m) : n \in 1..l \/ n \in (l + 1)..(l + m)
  BY <1>3
<1>6. \A n \in (l + 1)..(l + m) : n - l \in 1..m
  BY <1>3
<1>7. ASSUME NEW n \in DOMAIN hits
      PROVE  (\E k \in DOMAIN long : hits[n] = long[k]) \/ (\E k \in DOMAIN short : hits[n] = short[k])
  <2>1. PICK k \in 1..(l + m) : hits[n] = c[k]
    BY <1>3, <1>4 DEF Selection
  <2> QED
    BY <1>3, <1>5, <1>6, <2>1
<1>8. ASSUME NEW n \in DOMAIN hits, hits[n].store = "short"
      PROVE  /\ hits[n].id \in hits[n].context
             /\ \A i \in hits[n].context : i \notin excluded /\ messages[i].session = "s"
  <2>1. PICK k \in DOMAIN short : hits[n] = short[k]
    <3>1. \A k \in DOMAIN long : long[k].store # "short"
      BY DEF Candidates
    <3> QED
      BY <1>7, <1>8, <3>1
  <2> QED
    BY <2>1 DEF Candidates, OwnExcerpts
<1>9. ASSUME NEW i \in reachable
      PROVE  \/ \E n \in DOMAIN hits : hits[n].text = messages[i].text
             \/ Len(hits) = topK
  <2>1. PICK k \in 1..m : /\ short[k].text = messages[i].text /\ short[k].text # NoWords
                          /\ short[k].likeness >= minScore
    BY <1>3 DEF Candidates
  <2>2. k + l \in (l + 1)..(l + m) /\ k + l \in 1..(l + m) /\ (k + l) - l = k
    BY <1>3
  <2>3. c[k + l] = short[k] /\ k + l \in DOMAIN c
    BY <1>3, <2>2
  <2> QED
    BY <1>4, <2>1, <2>3 DEF Selection
<1>10. BestFirst(hits, preferLong)
  BY <1>4 DEF BestFirst, Selection
<1>11. ExcerptsAreOwn(hits, messages, excluded)
  BY <1>8 DEF ExcerptsAreOwn
<1>12. Promise(hits, preferLong, messages, excluded, reachable, topK)
  BY <1>4, <1>9, <1>10, <1>11 DEF Promise, Selection
<1>13. Len(hits) \in Nat
  BY <1>4
<1> QED
  BY <1>7, <1>12, <1>13 DEF AmongThem

\* What recall is asked about: any messages and facts.
RecallPut(N, T, q) ==
    /\ q.messages \in Seq(StoredMessages(N, T)) /\ q.facts \in Seq(StoredFacts(T))
    /\ q.config.topK \in Nat /\ q.config.minScore \in Int
    /\ q.config.weight \in Int /\ q.config.radius \in Int

(* A radius is within its limits.                                           *)
LEMMA RadiusIs ==
    ASSUME NEW radius \in Int
    PROVE  NormalizedRadius(radius) \in Nat
BY DEF NormalizedRadius, Within

(* One to ten hits.                                                         *)
LEMMA TopKIs ==
    ASSUME NEW topK \in Nat
    PROVE  NormalizedTopK(topK) \in Nat /\ (topK # 0 => NormalizedTopK(topK) <= topK)
BY DEF NormalizedTopK, Within

(* Nothing is a candidate for nothing.                                      *)
LEMMA CandidatesAre ==
    ASSUME NEW N, NEW T, NEW messages \in Seq(StoredMessages(N, T)),
           NEW facts \in Seq(StoredFacts(T)),
           NEW limit, NEW window, NEW weight \in Int, NEW radius \in Nat, NEW minScore \in Int,
           NEW excluded, excluded = FetchRecentShortTermIds(messages, "s", window),
           NEW long, long = FetchLongTermCandidates(facts, limit, weight),
           NEW short, short = FetchShortTermCandidates(messages, "s", limit, window, radius),
           NEW reachable, reachable \subseteq MatchedIn(messages, "s", limit, excluded),
           \A i \in reachable : messages[i].text # NoWords /\ messages[i].likeness >= minScore
    PROVE  /\ Candidates(T, long, short, messages, excluded, reachable, minScore)
           /\ Candidates(T, <<>>, short, messages, excluded, reachable, minScore)
           /\ Candidates(T, long, <<>>, messages, excluded, {}, minScore)
<1>1. long \in Seq(Hits(T)) /\ \A n \in DOMAIN long : long[n].store = "long"
  BY LongCandidates
<1>2. /\ short \in Seq(Hits(T)) /\ OwnExcerpts(short, messages, "s", excluded)
      /\ \A i \in MatchedIn(messages, "s", limit, excluded) :
             \E n \in DOMAIN short : /\ short[n].text = messages[i].text
                                     /\ short[n].likeness = messages[i].likeness
  BY ShortCandidates
<1>3. \A i \in reachable : \E n \in DOMAIN short :
          /\ short[n].text = messages[i].text /\ short[n].text # NoWords
          /\ short[n].likeness >= minScore
  <2> SUFFICES ASSUME NEW i \in reachable
        PROVE  \E n \in DOMAIN short :
                   /\ short[n].text = messages[i].text /\ short[n].text # NoWords
                   /\ short[n].likeness >= minScore
    OBVIOUS
  <2>1. PICK n \in DOMAIN short : /\ short[n].text = messages[i].text
                                  /\ short[n].likeness = messages[i].likeness
    BY <1>2
  <2> QED
    BY <2>1
<1> DEFINE H == Hits(T)
<1>4. <<>> \in Seq(H) /\ DOMAIN <<>> = {}
  OBVIOUS
<1>5. \A n \in DOMAIN <<>> : <<>>[n].store = "long"
  BY <1>4
<1>6. OwnExcerpts(<<>>, messages, "s", excluded)
  BY <1>4 DEF OwnExcerpts
<1>7. Candidates(T, long, short, messages, excluded, reachable, minScore)
  BY <1>1, <1>2, <1>3 DEF Candidates
<1>8. Candidates(T, <<>>, short, messages, excluded, reachable, minScore)
  BY <1>2, <1>3, <1>4, <1>5 DEF Candidates
<1>9. Candidates(T, long, <<>>, messages, excluded, {}, minScore)
  BY <1>1, <1>4, <1>6 DEF Candidates
<1> QED
  BY <1>7, <1>8, <1>9

(* One store is asked for so many hits.                                     *)
LEMMA HitsAreFromStore ==
    ASSUME NEW N, NEW T, NEW messages \in Seq(StoredMessages(N, T)),
           NEW facts \in Seq(StoredFacts(T)), NEW topK \in Nat \ {0}, NEW window,
           NEW store \in {"short", "long"}, NEW asked,
           asked = SemanticQueryCombined(messages, facts, "s", topK, window, store)
    PROVE  /\ Len(asked) \in Nat /\ Len(asked) <= topK
           /\ \A n \in DOMAIN asked : asked[n].store = store
<1> DEFINE most == NormalizedTopK(topK)
           limit == most * CandidatesPerHit
           radius == NormalizedRadius(2)
           excluded == FetchRecentShortTermIds(messages, "s", window)
           long == FetchLongTermCandidates(facts, limit, 1)
           short == FetchShortTermCandidates(messages, "s", limit, window, radius)
<1>2. most \in Nat /\ most <= topK
  BY DEF NormalizedTopK, Within
<1>3. radius \in Nat
  BY DEF NormalizedRadius, Within
<1>4. asked = RankRecallHits((IF store = "short" THEN <<>> ELSE long)
                             \o (IF store = "long" THEN <<>> ELSE short), most, 0)
  BY DEF SemanticQueryCombined, QueryRecallHits
<1> HIDE DEF limit, radius, most
<1>5. /\ Candidates(T, <<>>, short, messages, excluded, {}, 0)
      /\ Candidates(T, long, <<>>, messages, excluded, {}, 0)
  <2>1. PICK none, one, zero : none = {} /\ one = 1 /\ zero = 0
    OBVIOUS
  <2>2. /\ one \in Int /\ zero \in Int
        /\ none \subseteq MatchedIn(messages, "s", limit, excluded)
        /\ \A i \in none : messages[i].text # NoWords /\ messages[i].likeness >= zero
    BY <2>1
  <2>3. long = FetchLongTermCandidates(facts, limit, one)
    BY <2>1
  <2> HIDE DEF excluded, long, short
  <2>4. /\ Candidates(T, <<>>, short, messages, excluded, none, zero)
        /\ Candidates(T, long, <<>>, messages, excluded, {}, zero)
    BY <1>3, <2>2, <2>3, CandidatesAre DEF excluded, short
  <2> QED
    BY <2>1, <2>4
<1> HIDE DEF excluded, long, short
<1>6. 0 \in Int /\ most \in Nat
  BY <1>2
<1>7. PICK none : none = <<>>
  OBVIOUS
<1>8. DOMAIN none = {}
  BY <1>7
<1>9. CASE store = "short"
  <2>1. asked = RankRecallHits(none \o short, most, 0)
    BY <1>4, <1>7, <1>9
  <2>2. Candidates(T, none, short, messages, excluded, {}, 0)
    BY <1>5, <1>7
  <2>3. /\ Promise(asked, FALSE, messages, excluded, {}, most)
        /\ AmongThem(asked, none, short) /\ Len(asked) \in Nat
    BY <1>6, <2>1, <2>2, AllByScore
  <2>4. \A k \in DOMAIN short : short[k].store = "short"
    BY <1>5 DEF Candidates, OwnExcerpts
  <2>5. \A n \in DOMAIN asked : asked[n].store = store
    BY <1>8, <1>9, <2>3, <2>4 DEF AmongThem
  <2> QED
    BY <1>2, <2>3, <2>5 DEF Promise
<1>10. CASE store = "long"
  <2>1. asked = RankRecallHits(long \o none, most, 0)
    BY <1>4, <1>7, <1>10
  <2>2. Candidates(T, long, none, messages, excluded, {}, 0)
    BY <1>5, <1>7
  <2>3. /\ Promise(asked, FALSE, messages, excluded, {}, most)
        /\ AmongThem(asked, long, none) /\ Len(asked) \in Nat
    BY <1>6, <2>1, <2>2, AllByScore
  <2>4. \A k \in DOMAIN long : long[k].store = "long"
    BY <1>5 DEF Candidates
  <2>5. \A n \in DOMAIN asked : asked[n].store = store
    BY <1>8, <1>10, <2>3, <2>4 DEF AmongThem
  <2> QED
    BY <1>2, <2>3, <2>5 DEF Promise
<1> QED
  BY <1>9, <1>10

\* What the memory tool is asked: a number may be missing.
ToolPut(N, T, q) ==
    /\ q.messages \in Seq(StoredMessages(N, T)) /\ q.facts \in Seq(StoredFacts(T))
    /\ q.requested \in Nat \cup {NoNumber} /\ q.default \in Nat \cup {NoNumber}
    /\ q.max \in Nat \cup {NoNumber} /\ q.store \in {"short", "long"}

\* So many hits are wanted, and so many allowed.
LeastOf(topK, wanted, max) ==
    /\ wanted \in Nat /\ topK \in Nat /\ topK <= wanted
    /\ max # NoNumber => max \in Nat /\ topK <= max
    /\ topK = 0 <=> wanted = 0 \/ max = 0

(* The number of hits is the least of what was asked for and is allowed.    *)
LEMMA ResolveTopKIs ==
    ASSUME NEW requested \in Nat \cup {NoNumber}, NEW default \in Nat \cup {NoNumber},
           NEW max \in Nat \cup {NoNumber}
    PROVE  LeastOf(ResolveTopK(requested, default, max),
                   OrElse(requested, OrElse(default, DefaultTopK)), max)
<1> DEFINE wanted == OrElse(requested, OrElse(default, DefaultTopK))
           topK == ResolveTopK(requested, default, max)
<1>1. OrElse(default, DefaultTopK) \in Nat
  BY DEF OrElse, DefaultTopK
<1>2. wanted \in Nat
  BY <1>1 DEF OrElse
<1>3. topK = IF max # NoNumber /\ max < wanted THEN max ELSE wanted
  BY DEF ResolveTopK
<1> HIDE DEF wanted, topK
<1>4. LeastOf(topK, wanted, max)
  BY <1>2, <1>3 DEF NoNumber, LeastOf
<1> QED
  BY <1>4 DEF wanted, topK

(* The memory tool keeps to the store and the number it was asked for       *)
(* (src/tools/builtin/memory.rs:42-118), whatever has been stored.          *)
THEOREM MemoryToolKeepsToStore ==
    ASSUME NEW N, NEW T, NEW q, ToolPut(N, T, q)
    PROVE  AnswerIsRight(q)
<1> DEFINE wanted == OrElse(q.requested, OrElse(q.default, DefaultTopK))
           topK == ResolveTopK(q.requested, q.default, q.max)
           asked == SemanticQueryCombined(q.messages, q.facts, "s", topK, 0, q.store)
           answer == QueryMemory(q.messages, q.facts, "s", q.requested, q.default, q.max,
                                 0, q.store)
<1>1. /\ wanted \in Nat /\ topK \in Nat /\ topK <= wanted
      /\ q.max # NoNumber => q.max \in Nat /\ topK <= q.max
      /\ topK = 0 <=> wanted = 0 \/ q.max = 0
  <2>1. /\ q.requested \in Nat \cup {NoNumber} /\ q.default \in Nat \cup {NoNumber}
        /\ q.max \in Nat \cup {NoNumber}
    BY DEF ToolPut
  <2>2. LeastOf(topK, wanted, q.max)
    BY <2>1, ResolveTopKIs
  <2> HIDE DEF wanted, topK
  <2> QED
    BY <2>2 DEF LeastOf
<1>2. answer = [refused |-> topK = 0, hits |-> IF topK = 0 THEN <<>> ELSE asked]
  BY DEF QueryMemory
<1> HIDE DEF answer, wanted, asked
<1>3. answer.refused <=> topK = 0
  BY <1>2
<1>4. answer.hits = IF topK = 0 THEN <<>> ELSE asked
  BY <1>2
<1>5. ASSUME topK # 0
      PROVE  /\ Len(asked) \in Nat /\ Len(asked) <= topK
             /\ \A n \in DOMAIN asked : asked[n].store = q.store
  <2>1. topK \in Nat \ {0}
    BY <1>1, <1>5
  <2>2. /\ q.messages \in Seq(StoredMessages(N, T)) /\ q.facts \in Seq(StoredFacts(T))
        /\ q.store \in {"short", "long"}
    BY DEF ToolPut
  <2> HIDE DEF topK
  <2> QED
    BY <2>1, <2>2, HitsAreFromStore DEF asked
<1> HIDE DEF topK
<1>6. /\ Len(answer.hits) \in Nat /\ Len(answer.hits) <= topK
      /\ \A n \in DOMAIN answer.hits : answer.hits[n].store = q.store
  <2>1. CASE topK = 0
    <3>1. PICK none : none = <<>>
      OBVIOUS
    <3>2. DOMAIN none = {} /\ Len(none) = 0
      BY <3>1
    <3>3. answer.hits = none
      BY <1>4, <2>1, <3>1
    <3> QED
      BY <2>1, <3>2, <3>3
  <2>2. CASE topK # 0
    BY <1>4, <1>5, <2>2
  <2> QED
    BY <2>1, <2>2
<1>7. Len(answer.hits) <= wanted /\ (q.max # NoNumber => Len(answer.hits) <= q.max)
  BY <1>1, <1>6
<1> QED
  BY <1>1, <1>3, <1>6, <1>7 DEF AnswerIsRight, answer, wanted

(* A turn is reminded of what it should be, and of nothing else             *)
(* (src/memory/mod.rs:343-589), whatever has been stored.                   *)
THEOREM RecallKeepsItsPromise ==
    ASSUME NEW N, NEW T, NEW q, RecallPut(N, T, q), q.preferLong \in BOOLEAN
    PROVE  RecallIsRight(q)
<1> DEFINE topK == NormalizedTopK(q.config.topK)
           limit == topK * CandidatesPerHit
           radius == NormalizedRadius(q.config.radius)
           excluded == FetchRecentShortTermIds(q.messages, "s", q.window)
           long == FetchLongTermCandidates(q.facts, limit, q.config.weight)
           short == FetchShortTermCandidates(q.messages, "s", limit, q.window, radius)
           reachable == Reachable(q, topK, excluded)
           ranked == RankRecallHits(long, topK, q.config.minScore)
           rest == RankRecallHits(short, topK, q.config.minScore)
           hits == HitsOf(q, "combined")
<1>1. /\ q.messages \in Seq(StoredMessages(N, T)) /\ q.facts \in Seq(StoredFacts(T))
      /\ q.config.topK \in Nat /\ q.config.minScore \in Int
      /\ q.config.weight \in Int /\ q.config.radius \in Int
  BY DEF RecallPut
<1>2. topK \in Nat
  BY <1>1, TopKIs
<1>3. radius \in Nat
  BY <1>1, RadiusIs
<1>4. hits = IF q.preferLong
             THEN ranked \o SubSeq(rest, 1, Within(topK - Len(ranked), 0, Len(rest)))
             ELSE RankRecallHits(long \o short, topK, q.config.minScore)
  BY DEF HitsOf, QueryRecallHits
<1>5. reachable \subseteq MatchedIn(q.messages, "s", limit, excluded)
  BY DEF Reachable, MatchedIn
<1>6. \A i \in reachable : /\ q.messages[i].text # NoWords
                           /\ q.messages[i].likeness >= q.config.minScore
  BY DEF Reachable
<1> HIDE DEF topK, limit, radius, hits, reachable
<1>7. Candidates(T, long, short, q.messages, excluded, reachable, q.config.minScore)
  <2> HIDE DEF excluded, long, short
  <2> QED
    BY <1>1, <1>3, <1>5, <1>6, CandidatesAre DEF excluded, long, short
<1> HIDE DEF excluded, long, short, ranked, rest
<1>8. Promise(hits, q.preferLong, q.messages, excluded, reachable, topK)
  <2>1. CASE q.preferLong = TRUE
    <3>1. Promise(ranked \o SubSeq(rest, 1, Within(topK - Len(ranked), 0, Len(rest))),
                  TRUE, q.messages, excluded, reachable, topK)
      BY <1>1, <1>2, <1>7, FactsFirst DEF ranked, rest
    <3> QED
      BY <1>4, <2>1, <3>1
  <2>2. CASE q.preferLong = FALSE
    <3>1. Promise(RankRecallHits(long \o short, topK, q.config.minScore),
                  FALSE, q.messages, excluded, reachable, topK)
      BY <1>1, <1>2, <1>7, AllByScore
    <3> QED
      BY <1>4, <2>2, <3>1
  <2> QED
    BY <2>1, <2>2
<1> QED
  BY <1>8 DEF RecallIsRight, Promise, hits, topK, excluded, reachable

-----------------------------------------------------------------------------
(* The prompt                                                               *)

Sections(H) == [used : Nat, full : BOOLEAN, hits : Seq(H)]
\* What has been put into a section.
Fitted(s, maxChars) ==
    FoldLeft(LAMBDA section, hit : AddHit(section, hit, maxChars), Heading, s)

(* A hit is put into the section or fills it.                               *)
LEMMA AddHitIs ==
    ASSUME NEW H, NEW section \in Sections(H), NEW hit \in H, hit.size \in Nat, NEW maxChars \in Nat
    PROVE  /\ AddHit(section, hit, maxChars) \in Sections(H)
           /\ section.full \/ section.used + hit.size > maxChars =>
                  AddHit(section, hit, maxChars)
                      = [used |-> section.used, full |-> TRUE, hits |-> section.hits]
           /\ ~(section.full \/ section.used + hit.size > maxChars) =>
                  AddHit(section, hit, maxChars)
                      = [used |-> section.used + hit.size, full |-> section.full,
                         hits |-> Append(section.hits, hit)]
<1>1. PICK used \in Nat, full \in BOOLEAN, hits \in Seq(H) :
          section = [used |-> used, full |-> full, hits |-> hits]
  BY DEF Sections
<1>2. section.used = used /\ section.full = full /\ section.hits = hits
  BY <1>1
<1>3. used + hit.size \in Nat /\ Append(hits, hit) \in Seq(H)
  OBVIOUS
<1>4. PICK more \in Seq(H) : more = Append(hits, hit)
  BY <1>3
<1>5. CASE full \/ used + hit.size > maxChars
  <2>1. AddHit(section, hit, maxChars) = [used |-> used, full |-> TRUE, hits |-> hits]
    BY <1>1, <1>2, <1>5 DEF AddHit
  <2> QED
    BY <1>2, <1>5, <2>1 DEF Sections
<1>6. CASE ~(full \/ used + hit.size > maxChars)
  <2>1. AddHit(section, hit, maxChars) = [used |-> used + hit.size, full |-> full, hits |-> more]
    BY <1>1, <1>2, <1>4, <1>6 DEF AddHit
  <2>2. AddHit(section, hit, maxChars) \in Sections(H)
    BY <1>3, <2>1 DEF Sections
  <2> QED
    BY <1>2, <1>4, <1>6, <2>1, <2>2
<1> QED
  BY <1>2, <1>5, <1>6

(* A section begins with its heading.                                       *)
LEMMA HeadingIs ==
    ASSUME NEW H
    PROVE  /\ Heading \in Sections(H)
           /\ Heading.used = 1 /\ Heading.full = FALSE /\ Heading.hits = <<>>
BY DEF Heading, Sections

\* The section was filled hit by hit.
FitsOneByOne(H, s, maxChars) ==
    \E g \in [0..Len(s) -> Sections(H)] :
        /\ g[0] = Heading /\ Fitted(s, maxChars) = g[Len(s)]
        /\ \A k \in 1..Len(s) : g[k] = AddHit(g[k - 1], s[k], maxChars)

(* The hits are put in one by one.                                          *)
LEMMA FitRun ==
    ASSUME NEW H, \A h \in H : h.size \in Nat, NEW maxChars \in Nat, NEW s \in Seq(H)
    PROVE  FitsOneByOne(H, s, maxChars)
<1> DEFINE n == Len(s)
           V == Sections(H)
           X == H
           base == Heading
           f == [p \in V \X X |-> AddHit(p[1], p[2], maxChars)]
           step == [p \in V \X (1..n) |-> f[<<p[1], s[p[2]]>>]]
           F(d) == [t \in SUBSET DOMAIN s |->
                       IF t = {} THEN base ELSE AddHit(d[t \ {Max(t)}], s[Max(t)], maxChars)]
           c == CHOOSE d : d = F(d)
<1>1. n \in Nat /\ DOMAIN s = 1..n /\ \A i \in 1..n : s[i] \in X
  OBVIOUS
<1>2. f \in [V \X X -> V] /\ base \in V
  BY AddHitIs, HeadingIs
<1> HIDE DEF V, X
<1>3. \A v \in V, x \in X : f[<<v, x>>] = AddHit(v, x, maxChars)
  OBVIOUS
<1> HIDE DEF f, n
<1>4. step \in [V \X (1..n) -> V]
  BY <1>1, <1>2
<1>5. PICK h \in [SUBSET (1..n) -> V] : IsFold(h, n, base, step)
  <2> HIDE DEF step, base
  <2> QED
    BY <1>1, <1>2, <1>4, FoldExists
<1>6. h = F(h)
  <2>1. ASSUME NEW t \in SUBSET (1..n), t # {}
        PROVE  step[<<h[t \ {Max(t)}], Max(t)>>] = AddHit(h[t \ {Max(t)}], s[Max(t)], maxChars)
    <3>1. Max(t) \in 1..n /\ t \ {Max(t)} \in SUBSET (1..n)
      BY <1>1, <2>1, MaxOfSome
    <3>2. h[t \ {Max(t)}] \in V /\ s[Max(t)] \in X
      BY <1>1, <1>5, <3>1
    <3> QED
      BY <1>3, <3>1, <3>2
  <2>2. h = [t \in SUBSET (1..n) |->
               IF t = {} THEN base ELSE step[<<h[t \ {Max(t)}], Max(t)>>]]
    BY <1>5 DEF IsFold
  <2> HIDE DEF step, base
  <2> QED
    BY <1>1, <2>1, <2>2
<1>7. c = F(c)
  <2> HIDE DEF F
  <2> QED
    BY <1>6
<1>8. Fitted(s, maxChars) = c[DOMAIN s]
  BY DEF Fitted, FoldLeft, MapThenFoldSet
<1> HIDE DEF c, step, base
<1> DEFINE g == [k \in 0..n |-> c[1..k]]
<1>9. c[1..0] = base
  <2>1. 1..0 = {} /\ (1..0) \in SUBSET DOMAIN s
    OBVIOUS
  <2> QED
    BY <1>7, <2>1
<1>10. ASSUME NEW k \in 1..n PROVE c[1..k] = AddHit(c[1..(k - 1)], s[k], maxChars)
  <2>1. Max(1..k) = k /\ (1..k) \ {k} = 1..(k - 1) /\ 1..k # {}
    <3>1. k \in Nat /\ k # 0
      BY <1>1
    <3> QED
      BY <3>1, MaxOfAll
  <2>2. (1..k) \in SUBSET DOMAIN s
    BY <1>1
  <2> QED
    BY <1>7, <2>1, <2>2
<1>11. /\ g[0] = base /\ g[n] = c[DOMAIN s] /\ g = [k \in 0..n |-> g[k]]
       /\ \A k \in 1..n : g[k] = AddHit(g[k - 1], s[k], maxChars)
  BY <1>1, <1>9, <1>10
<1> HIDE DEF g
<1>12. \A k \in 1..n : g[k - 1] \in V => g[k] = f[<<g[k - 1], s[k]>>]
  BY <1>1, <1>3, <1>11
<1>13. g \in [0..n -> V]
  <2>1. s \in Seq(X) /\ g[0] \in V
    BY <1>2, <1>11 DEF X
  <2>2. IsRun(g, f, V, g[0], s)
    BY <1>2, <1>11, <1>12, <2>1, ChainIsRun DEF n
  <2> QED
    BY <2>2 DEF IsRun, n
<1> QED
  BY <1>8, <1>11, <1>13 DEF n, V, X, base, FitsOneByOne

(* A hit that does not fit fills the section.                               *)
LEMMA HitFills ==
    ASSUME NEW section, NEW hit, NEW maxChars, section.full \/ section.used + hit.size > maxChars
    PROVE  AddHit(section, hit, maxChars) = [section EXCEPT !.full = TRUE]
BY DEF AddHit

(* One that fits is put in.                                                 *)
LEMMA HitIsPutIn ==
    ASSUME NEW section, NEW hit, NEW maxChars, ~(section.full \/ section.used + hit.size > maxChars)
    PROVE  AddHit(section, hit, maxChars)
               = [section EXCEPT !.used = @ + hit.size, !.hits = Append(@, hit)]
BY DEF AddHit

(* A sequence and one more.                                                 *)
LEMMA OneMore ==
    ASSUME NEW H, NEW s \in Seq(H), NEW x \in H
    PROVE  /\ Append(s, x) \in Seq(H) /\ Len(Append(s, x)) = Len(s) + 1
           /\ Append(s, x)[Len(s) + 1] = x
           /\ \A n \in 1..Len(s) : Append(s, x)[n] = s[n]
OBVIOUS

\* The first k hits have been gone through: those in the section are the first
\* ones, they fit, and a full section is one that the next hit did not fit in.
FilledTo(section, s, k, maxChars) ==
    /\ Len(section.hits) <= k
    /\ \A n \in 1..Len(section.hits) : section.hits[n] = s[n]
    /\ section.hits # <<>> => section.used <= maxChars
    /\ ~section.full => Len(section.hits) = k
    /\ section.full => /\ Len(section.hits) < k
                       /\ section.used + s[Len(section.hits) + 1].size > maxChars

(* One more hit is gone through.                                            *)
LEMMA FilledFurther ==
    ASSUME NEW H, \A h \in H : h.size \in Nat, NEW maxChars \in Nat, NEW s \in Seq(H),
           NEW k \in 1..Len(s), NEW section \in Sections(H),
           FilledTo(section, s, k - 1, maxChars)
    PROVE  FilledTo(AddHit(section, s[k], maxChars), s, k, maxChars)
<1> DEFINE hit == s[k]
           after == AddHit(section, hit, maxChars)
           m == Len(section.hits)
<1>1. hit \in H /\ hit.size \in Nat /\ k \in Nat
  OBVIOUS
<1>2. section.used \in Nat /\ section.full \in BOOLEAN /\ section.hits \in Seq(H) /\ m \in Nat
  BY DEF Sections
<1>3. /\ m <= k - 1 /\ \A n \in 1..m : section.hits[n] = s[n]
      /\ section.hits # <<>> => section.used <= maxChars
      /\ ~section.full => m = k - 1
      /\ section.full => m < k - 1 /\ section.used + s[m + 1].size > maxChars
  BY DEF FilledTo
<1>4. CASE section.full \/ section.used + hit.size > maxChars
  <2>1. after = [section EXCEPT !.full = TRUE]
    BY <1>4, HitFills
  <2> HIDE DEF after
  <2>2. after.used = section.used /\ after.full = TRUE /\ after.hits = section.hits
    BY <1>2, <2>1
  <2>3. m < k /\ section.used + s[m + 1].size > maxChars
    <3>1. CASE section.full
      BY <1>1, <1>2, <1>3, <3>1
    <3>2. CASE ~section.full
      <4>1. m + 1 = k
        BY <1>1, <1>2, <1>3, <3>2
      <4> QED
        BY <1>1, <1>2, <1>4, <3>2, <4>1
    <3> QED
      BY <3>1, <3>2
  <2>4. FilledTo(after, s, k, maxChars)
    BY <1>1, <1>2, <1>3, <2>2, <2>3 DEF FilledTo
  <2> QED
    BY <2>4 DEF after
<1>5. CASE ~(section.full \/ section.used + hit.size > maxChars)
  <2>1. after = [section EXCEPT !.used = @ + hit.size, !.hits = Append(@, hit)]
    BY <1>5, HitIsPutIn
  <2> HIDE DEF after
  <2> DEFINE more == Append(section.hits, hit)
  <2>2. /\ more \in Seq(H) /\ Len(more) = m + 1 /\ more[m + 1] = hit
        /\ \A n \in 1..m : more[n] = section.hits[n]
    BY <1>1, <1>2, OneMore
  <2> HIDE DEF more
  <2>3. after.used = section.used + hit.size /\ after.full = section.full /\ after.hits = more
    BY <1>2, <2>1 DEF more
  <2>4. m + 1 = k
    BY <1>1, <1>2, <1>3, <1>5
  <2>5. \A n \in 1..k : more[n] = s[n]
    <3>1. \A n \in 1..k : n \in 1..m \/ n = m + 1
      BY <1>1, <1>2, <2>4
    <3> QED
      BY <1>3, <2>2, <2>4, <3>1
  <2>6. after.used <= maxChars /\ ~after.full /\ Len(more) = k
    BY <1>1, <1>2, <1>5, <2>2, <2>3, <2>4
  <2>7. FilledTo(after, s, k, maxChars)
    BY <1>1, <2>3, <2>5, <2>6 DEF FilledTo
  <2> QED
    BY <2>7 DEF after
<1> QED
  BY <1>4, <1>5

(* A section holds the first hits, as many as fit.                          *)
LEMMA FittedIs ==
    ASSUME NEW H, \A h \in H : h.size \in Nat, NEW maxChars \in Nat, NEW s \in Seq(H)
    PROVE  Fitted(s, maxChars) \in Sections(H) /\ FilledTo(Fitted(s, maxChars), s, Len(s), maxChars)
<1> DEFINE n == Len(s)
<1>1. n \in Nat
  OBVIOUS
<1>2. FitsOneByOne(H, s, maxChars)
  BY FitRun
<1>3. PICK g \in [0..n -> Sections(H)] :
          /\ g[0] = Heading /\ Fitted(s, maxChars) = g[n]
          /\ \A k \in 1..n : g[k] = AddHit(g[k - 1], s[k], maxChars)
  BY <1>2 DEF FitsOneByOne
<1> DEFINE P == {k \in 0..n : FilledTo(g[k], s, k, maxChars)}
<1>4. 0 \in P
  <2>1. Heading.hits = <<>> /\ ~Heading.full /\ Len(<<>>) = 0
    BY HeadingIs
  <2>2. Len(Heading.hits) = 0
    BY <2>1
  <2>3. FilledTo(Heading, s, 0, maxChars)
    BY <2>1, <2>2 DEF FilledTo
  <2> QED
    BY <1>1, <1>3, <2>3
<1>5. ASSUME NEW i \in 0..(n - 1), i \in P PROVE i + 1 \in P
  <2>1. i + 1 \in 1..n /\ i \in 0..n /\ i + 1 \in 0..n /\ (i + 1) - 1 = i
    BY <1>1
  <2>2. g[i] \in Sections(H) /\ FilledTo(g[i], s, (i + 1) - 1, maxChars)
    BY <1>5, <2>1
  <2>3. FilledTo(AddHit(g[i], s[i + 1], maxChars), s, i + 1, maxChars)
    BY <2>1, <2>2, FilledFurther
  <2>4. g[i + 1] = AddHit(g[i], s[i + 1], maxChars)
    BY <1>3, <2>1
  <2> QED
    BY <2>1, <2>3, <2>4
<1> HIDE DEF P
<1>6. \A i \in 0..n : i \in P
  BY <1>1, <1>4, <1>5, UpTo
<1>7. FilledTo(g[n], s, n, maxChars) /\ g[n] \in Sections(H)
  BY <1>1, <1>6 DEF P
<1> QED
  BY <1>3, <1>7

(* The beginning of a sequence.                                             *)
LEMMA PrefixIs ==
    ASSUME NEW H, NEW s \in Seq(H), NEW t \in Seq(H), Len(t) <= Len(s),
           \A n \in 1..Len(t) : t[n] = s[n]
    PROVE  IsPrefix(t, s)
<1> DEFINE m == Len(t)
<1>1. m \in Nat /\ Len(s) \in Nat /\ m <= Len(s)
  OBVIOUS
<1>2. SubSeq(t, 1, m) = [n \in 1..m |-> t[n]]
  BY <1>1
<1>3. SubSeq(s, 1, m) = [n \in 1..m |-> s[n]]
  BY <1>1
<1>4. SubSeq(t, 1, m) = SubSeq(s, 1, m)
  BY <1>2, <1>3
<1> QED
  BY <1>1, <1>4 DEF IsPrefix

(* What fits is in the section.                                             *)
LEMMA SectionIs ==
    ASSUME NEW H, \A h \in H : h.size \in Nat, NEW maxChars \in Nat, NEW s \in Seq(H)
    PROVE  SectionFits(BuildMemorySection(s, maxChars), s, maxChars)
<1> DEFINE fitted == Fitted(s, maxChars)
           section == BuildMemorySection(s, maxChars)
           m == Len(fitted.hits)
<1>1. fitted \in Sections(H) /\ FilledTo(fitted, s, Len(s), maxChars)
  BY FittedIs
<1>2. section = IF maxChars = 0 \/ fitted.hits = <<>> THEN EmptySection ELSE fitted
  BY DEF BuildMemorySection, Fitted
<1> HIDE DEF fitted, section
<1>3. fitted.hits \in Seq(H) /\ fitted.used \in Nat /\ fitted.full \in BOOLEAN /\ m \in Nat
  BY <1>1 DEF Sections
<1>4. CASE maxChars = 0 \/ fitted.hits = <<>>
  <2>1. PICK none : none = <<>>
    OBVIOUS
  <2>2. section.used = 0 /\ section.hits = none
    BY <1>2, <1>4, <2>1 DEF EmptySection
  <2>3. none \in Seq(H) /\ Len(none) = 0
    BY <2>1
  <2>4. IsPrefix(none, s)
    <3>1. Len(none) <= Len(s) /\ \A n \in 1..Len(none) : none[n] = s[n]
      BY <2>3
    <3> QED
      BY <2>3, <3>1, PrefixIs
  <2>5. SectionFits(section, s, maxChars)
    BY <2>1, <2>2, <2>4 DEF SectionFits
  <2> QED
    BY <2>5 DEF section
<1>5. CASE ~(maxChars = 0 \/ fitted.hits = <<>>)
  <2>1. section = fitted
    BY <1>2, <1>5
  <2>2. m <= Len(s) /\ \A n \in 1..m : fitted.hits[n] = s[n]
    BY <1>1 DEF FilledTo
  <2>3. IsPrefix(fitted.hits, s)
    BY <1>3, <2>2, PrefixIs
  <2>4. fitted.used <= maxChars
    BY <1>1, <1>5 DEF FilledTo
  <2>5. ASSUME fitted.hits # s PROVE fitted.used + s[m + 1].size > maxChars
    <3>1. CASE fitted.full
      BY <1>1, <3>1 DEF FilledTo
    <3>2. CASE ~fitted.full
      <4>1. m = Len(s)
        BY <1>1, <3>2 DEF FilledTo
      <4>2. fitted.hits = s
        BY <1>3, <2>2, <4>1
      <4> QED
        BY <2>5, <4>2
    <3> QED
      BY <3>1, <3>2
  <2>6. SectionFits(section, s, maxChars)
    BY <2>1, <2>3, <2>4, <2>5 DEF SectionFits
  <2> QED
    BY <2>6 DEF section
<1> QED
  BY <1>4, <1>5

(* The hits of one store.                                                   *)
LEMMA HitsInIs ==
    ASSUME NEW H, NEW hits \in Seq(H), NEW store
    PROVE  HitsIn(hits, store) \in Seq(H)
<1> DEFINE D == {n \in DOMAIN hits : hits[n].store = store}
           order == Ascending(D)
<1>1. D \subseteq DOMAIN hits
  OBVIOUS
<1>2. HitsIn(hits, store) = [n \in DOMAIN order |-> hits[order[n]]]
  BY DEF HitsIn
<1> HIDE DEF D, order
<1>3. D \subseteq Nat /\ IsFiniteSet(D)
  BY <1>1, PlacesAre
<1>4. order \in Seq(D) /\ DOMAIN order = 1..Len(order)
  BY <1>3, AscendingIs DEF order
<1>5. Len(order) \in Nat /\ \A n \in 1..Len(order) : hits[order[n]] \in H
  BY <1>1, <1>4
<1> QED
  BY <1>2, <1>4, <1>5

(* What is put into the prompt are the best hits of each store, as many as  *)
(* fit in its room (src/turn/prepare.rs:175-317), whatever the hits.        *)
THEOREM PromptTakesWhatFits ==
    ASSUME NEW H, \A h \in H : h.size \in Nat, NEW hits \in Seq(H),
           NEW longMax \in Nat, NEW shortMax \in Nat
    PROVE  PromptIsRight(hits, longMax, shortMax)
<1> DEFINE long == HitsIn(hits, "long")
           short == HitsIn(hits, "short")
<1>1. long \in Seq(H) /\ short \in Seq(H)
  BY HitsInIs
<1> HIDE DEF long, short
<1>2. /\ SectionFits(BuildMemorySection(long, longMax), long, longMax)
      /\ SectionFits(BuildMemorySection(short, shortMax), short, shortMax)
  BY <1>1, SectionIs
<1> QED
  BY <1>2 DEF PromptIsRight, FormatRecalledMemory, long, short

-----------------------------------------------------------------------------
(* The query                                                                *)

\* t is what s ends in after its first d.
Ending(t, s, d) ==
    /\ d \in 0..Len(s) /\ Len(t) = Len(s) - d
    /\ \A k \in 1..Len(t) : t[k] = s[k + d]
\* A text without blanks at its ends.
Solid(t) == t # <<>> => t[1] \notin Spaces /\ t[Len(t)] \notin Spaces

(* A part of a sequence.                                                    *)
LEMMA PartIs ==
    ASSUME NEW C, NEW s \in Seq(C), NEW i \in Nat, NEW k \in Nat, 1 <= i, k <= Len(s), i <= k + 1
    PROVE  /\ SubSeq(s, i, k) \in Seq(C) /\ Len(SubSeq(s, i, k)) = (k - i) + 1
           /\ \A n \in 1..((k - i) + 1) : SubSeq(s, i, k)[n] = s[n + (i - 1)]
<1> DEFINE m == (k - i) + 1
           t == SubSeq(s, i, k)
<1>1. Len(s) \in Nat /\ m \in Nat
  OBVIOUS
<1>2. t = [n \in 1..m |-> s[(i + n) - 1]]
  <2>1. (1 + k) - i = m
    OBVIOUS
  <2> QED
    BY <2>1
<1>3. \A n \in 1..m : (i + n) - 1 \in 1..Len(s) /\ (i + n) - 1 = n + (i - 1)
  BY <1>1
<1> HIDE DEF m, t
<1>4. \A n \in 1..m : s[(i + n) - 1] \in C
  BY <1>3
<1>5. t \in Seq(C) /\ Len(t) = m /\ \A n \in 1..m : t[n] = s[(i + n) - 1]
  BY <1>1, <1>2, <1>4
<1> QED
  BY <1>3, <1>5 DEF m, t

(* What is left without its first elements is an ending.                    *)
LEMMA DropIs ==
    ASSUME NEW C, NEW s \in Seq(C), NEW d \in 0..Len(s)
    PROVE  /\ SubSeq(s, d + 1, Len(s)) \in Seq(C)
           /\ Ending(SubSeq(s, d + 1, Len(s)), s, d)
<1> DEFINE n == Len(s)
           t == SubSeq(s, d + 1, n)
<1>1. /\ n \in Nat /\ d + 1 \in Nat /\ 1 <= d + 1 /\ n <= Len(s) /\ d + 1 <= n + 1
      /\ (n - (d + 1)) + 1 = n - d /\ (d + 1) - 1 = d
  OBVIOUS
<1>2. /\ t \in Seq(C) /\ Len(t) = (n - (d + 1)) + 1
      /\ \A k \in 1..((n - (d + 1)) + 1) : t[k] = s[k + ((d + 1) - 1)]
  <2> HIDE DEF n
  <2> QED
    BY <1>1, PartIs
<1>3. Len(t) = n - d /\ \A k \in 1..(n - d) : t[k] = s[k + d]
  <2> HIDE DEF n, t
  <2> QED
    BY <1>1, <1>2
<1> QED
  BY <1>2, <1>3 DEF Ending

(* An ending of an ending.                                                  *)
LEMMA EndingOfEnding ==
    ASSUME NEW C, NEW r \in Seq(C), NEW s \in Seq(C), NEW t \in Seq(C), NEW c, NEW d,
           Ending(s, r, c), Ending(t, s, d)
    PROVE  Ending(t, r, c + d)
<1>1. /\ c \in 0..Len(r) /\ Len(s) = Len(r) - c /\ \A k \in 1..Len(s) : s[k] = r[k + c]
      /\ d \in 0..Len(s) /\ Len(t) = Len(s) - d /\ \A k \in 1..Len(t) : t[k] = s[k + d]
      /\ Len(r) \in Nat
  BY DEF Ending
<1>2. c + d \in 0..Len(r) /\ Len(t) = Len(r) - (c + d)
  BY <1>1
<1>3. ASSUME NEW k \in 1..Len(t) PROVE t[k] = r[k + (c + d)]
  <2>1. k + d \in 1..Len(s) /\ (k + d) + c = k + (c + d)
    BY <1>1
  <2> QED
    BY <1>1, <2>1
<1> QED
  BY <1>2, <1>3 DEF Ending

(* An ending is a suffix.                                                   *)
LEMMA EndingIsSuffix ==
    ASSUME NEW C, NEW s \in Seq(C), NEW t \in Seq(C), NEW d, Ending(t, s, d)
    PROVE  IsSuffix(t, s)
<1> DEFINE n == Len(s)
           m == Len(t)
           back == Reverse(s)
           tail == Reverse(t)
<1>1. /\ n \in Nat /\ m \in Nat /\ d \in 0..n /\ m = n - d
      /\ \A k \in 1..m : t[k] = s[k + d]
  BY DEF Ending
<1>2. back = [k \in 1..n |-> s[(n - k) + 1]] /\ tail = [k \in 1..m |-> t[(m - k) + 1]]
  BY DEF Reverse
<1>3. \A k \in 1..n : (n - k) + 1 \in 1..n
  BY <1>1
<1>4. \A k \in 1..m : /\ (m - k) + 1 \in 1..m /\ ((m - k) + 1) + d = (n - k) + 1
                      /\ k \in 1..n
  BY <1>1
<1>5. (\A k \in 1..n : s[k] \in C) /\ (\A k \in 1..m : t[k] \in C)
  OBVIOUS
<1> HIDE DEF n, m, back, tail
<1>6. back \in Seq(C) /\ Len(back) = n
  BY <1>1, <1>2, <1>3, <1>5
<1>7. tail \in Seq(C) /\ Len(tail) = m
  BY <1>1, <1>2, <1>4, <1>5
<1>8. \A k \in 1..m : tail[k] = back[k]
  BY <1>1, <1>2, <1>4
<1>9. Len(tail) <= Len(back)
  BY <1>1, <1>6, <1>7
<1>10. IsPrefix(tail, back)
  BY <1>6, <1>7, <1>8, <1>9, PrefixIs
<1> QED
  BY <1>10 DEF IsSuffix, back, tail

(* The blanks before a text are taken off.                                  *)
LEMMA TrimStartIs ==
    ASSUME NEW C, NEW text \in Seq(C), NEW blanks
    PROVE  /\ TrimStart(text, blanks) \in Seq(C)
           /\ \E d \in 0..Len(text) : Ending(TrimStart(text, blanks), text, d)
           /\ TrimStart(text, blanks) # <<>> => TrimStart(text, blanks)[1] \notin blanks
<1> DEFINE n == Len(text)
           solid == {i \in DOMAIN text : text[i] \notin blanks}
           t == TrimStart(text, blanks)
<1>1. n \in Nat /\ DOMAIN text = 1..n
  OBVIOUS
<1>2. CASE solid = {}
  <2>1. PICK none : none = <<>>
    OBVIOUS
  <2>2. t = none
    BY <1>2, <2>1 DEF TrimStart
  <2>3. none \in Seq(C) /\ Len(none) = 0
    BY <2>1
  <2>4. Ending(none, text, n) /\ n \in 0..n
    BY <1>1, <2>3 DEF Ending
  <2> QED
    BY <2>1, <2>2, <2>3, <2>4
<1>3. CASE solid # {}
  <2> DEFINE first == Min(solid)
  <2>1. first \in solid
    <3>1. solid \in SUBSET (1..n)
      BY <1>1
    <3> HIDE DEF solid
    <3> QED
      BY <1>1, <1>3, <3>1, EndsOfSome
  <2>2. t = SubSeq(text, first, n)
    BY <1>3 DEF TrimStart
  <2>3. first \in 1..n /\ text[first] \notin blanks
    BY <1>1, <2>1
  <2> HIDE DEF t, first, solid
  <2>4. first - 1 \in 0..n /\ (first - 1) + 1 = first
    BY <1>1, <2>3
  <2>5. t \in Seq(C) /\ Ending(t, text, first - 1)
    BY <2>2, <2>4, DropIs
  <2>6. Len(t) = n - (first - 1) /\ \A k \in 1..Len(t) : t[k] = text[k + (first - 1)]
    BY <2>5 DEF Ending
  <2>7. 1 \in 1..Len(t) /\ 1 + (first - 1) = first
    BY <1>1, <2>3, <2>6
  <2>8. t[1] = text[first]
    BY <2>6, <2>7
  <2> QED
    BY <2>3, <2>4, <2>5, <2>8 DEF t
<1> QED
  BY <1>2, <1>3

(* The blanks after a text are taken off.                                   *)
LEMMA TrimEndIs ==
    ASSUME NEW C, NEW text \in Seq(C)
    PROVE  /\ TrimEnd(text) \in Seq(C) /\ Len(TrimEnd(text)) <= Len(text)
           /\ \A k \in 1..Len(TrimEnd(text)) : TrimEnd(text)[k] = text[k]
           /\ TrimEnd(text) # <<>> => TrimEnd(text)[Len(TrimEnd(text))] \notin Spaces
<1> DEFINE n == Len(text)
           solid == {i \in DOMAIN text : text[i] \notin Spaces}
           t == TrimEnd(text)
<1>1. n \in Nat /\ DOMAIN text = 1..n
  OBVIOUS
<1>2. CASE solid = {}
  <2>1. PICK none : none = <<>>
    OBVIOUS
  <2>2. t = none
    BY <1>2, <2>1 DEF TrimEnd
  <2>3. none \in Seq(C) /\ Len(none) = 0
    BY <2>1
  <2> QED
    BY <1>1, <2>1, <2>2, <2>3
<1>3. CASE solid # {}
  <2> DEFINE last == Max(solid)
  <2>1. last \in solid
    <3>1. solid \in SUBSET (1..n)
      BY <1>1
    <3> HIDE DEF solid
    <3> QED
      BY <1>1, <1>3, <3>1, EndsOfSome
  <2>2. t = SubSeq(text, 1, last)
    BY <1>3 DEF TrimEnd
  <2>3. last \in 1..n /\ text[last] \notin Spaces
    BY <1>1, <2>1
  <2> HIDE DEF t, last, solid
  <2>4. /\ last \in Nat /\ 1 \in Nat /\ 1 <= 1 /\ last <= Len(text) /\ 1 <= last + 1
        /\ (last - 1) + 1 = last /\ \A k \in 1..last : k + (1 - 1) = k
    BY <1>1, <2>3
  <2>5. /\ t \in Seq(C) /\ Len(t) = (last - 1) + 1
        /\ \A k \in 1..((last - 1) + 1) : t[k] = text[k + (1 - 1)]
    BY <2>2, <2>4, PartIs
  <2>6. Len(t) = last /\ \A k \in 1..last : t[k] = text[k]
    BY <2>4, <2>5
  <2>7. t[last] = text[last]
    BY <2>3, <2>6
  <2> QED
    BY <2>3, <2>4, <2>5, <2>6, <2>7 DEF t
<1> QED
  BY <1>2, <1>3

(* Trimmed at both ends.                                                    *)
LEMMA TrimIs ==
    ASSUME NEW C, NEW text \in Seq(C)
    PROVE  Trim(text) \in Seq(C) /\ Len(Trim(text)) <= Len(text) /\ Solid(Trim(text))
<1> DEFINE s == TrimStart(text, Spaces)
           t == TrimEnd(s)
<1>1. /\ s \in Seq(C) /\ \E d \in 0..Len(text) : Ending(s, text, d)
      /\ s # <<>> => s[1] \notin Spaces
  BY TrimStartIs
<1>2. Len(s) <= Len(text)
  BY <1>1 DEF Ending
<1> HIDE DEF s
<1>3. /\ t \in Seq(C) /\ Len(t) <= Len(s) /\ \A k \in 1..Len(t) : t[k] = s[k]
      /\ t # <<>> => t[Len(t)] \notin Spaces
  BY <1>1, TrimEndIs
<1> HIDE DEF t
<1>4. ASSUME t # <<>> PROVE t[1] \notin Spaces
  <2>1. 1 \in 1..Len(t) /\ s # <<>>
    BY <1>1, <1>3, <1>4
  <2> QED
    BY <1>1, <1>3, <2>1
<1>5. Len(t) <= Len(text)
  BY <1>1, <1>2, <1>3
<1> QED
  BY <1>3, <1>4, <1>5 DEF Solid, Trim, s, t

(* What is left by trimming was there before.                               *)
LEMMA TrimKeepsTokens ==
    ASSUME NEW C, NEW text \in Seq(C)
    PROVE  \A m \in 1..Len(Trim(text)) : \E i \in 1..Len(text) : Trim(text)[m] = text[i]
<1> DEFINE s == TrimStart(text, Spaces)
           t == TrimEnd(s)
<1>1. s \in Seq(C) /\ \E d \in 0..Len(text) : Ending(s, text, d)
  BY TrimStartIs
<1> HIDE DEF s
<1>2. t \in Seq(C) /\ Len(t) <= Len(s) /\ \A k \in 1..Len(t) : t[k] = s[k]
  BY <1>1, TrimEndIs
<1> HIDE DEF t
<1>3. PICK d \in 0..Len(text) : Ending(s, text, d)
  BY <1>1
<1>4. ASSUME NEW m \in 1..Len(t) PROVE \E i \in 1..Len(text) : t[m] = text[i]
  <2>1. m \in 1..Len(s) /\ m + d \in 1..Len(text)
    BY <1>1, <1>2, <1>3 DEF Ending
  <2>2. t[m] = text[m + d]
    BY <1>2, <1>3, <2>1 DEF Ending
  <2> QED
    BY <2>1, <2>2
<1> QED
  BY <1>4 DEF Trim, s, t

(* There is nothing to trim twice.                                          *)
LEMMA SolidStays ==
    ASSUME NEW C, NEW text \in Seq(C), Solid(text)
    PROVE  Trim(text) = text
<1> DEFINE n == Len(text)
           solid == {i \in DOMAIN text : text[i] \notin Spaces}
<1>1. n \in Nat /\ DOMAIN text = 1..n
  OBVIOUS
<1>2. CASE text = <<>>
  <2>1. solid = {}
    BY <1>2
  <2>2. TrimStart(text, Spaces) = text
    BY <1>2, <2>1 DEF TrimStart
  <2>3. TrimEnd(text) = text
    BY <1>2, <2>1 DEF TrimEnd
  <2> QED
    BY <2>2, <2>3 DEF Trim
<1>3. CASE text # <<>>
  <2>1. 1 \in solid /\ n \in solid /\ solid \subseteq 1..n
    BY <1>1, <1>3 DEF Solid
  <2>2. Min(solid) = 1 /\ Max(solid) = n
    <3>1. solid \in SUBSET (1..n) /\ solid # {}
      BY <2>1
    <3>2. (\A y \in solid : 1 <= y) /\ (\A y \in solid : n >= y)
      BY <1>1, <2>1
    <3> HIDE DEF solid
    <3>3. Max(solid) \in solid /\ \A y \in solid : Max(solid) >= y
      BY <1>1, <3>1, MaxOfSome
    <3>4. Min(solid) \in solid /\ \A y \in solid : Min(solid) <= y
      BY <2>1, <3>2 DEF Min
    <3> DEFINE most == Max(solid)
               least == Min(solid)
    <3>5. most \in 1..n /\ most >= n
      BY <2>1, <3>3
    <3>6. least \in 1..n /\ least <= 1
      BY <2>1, <3>4
    <3> HIDE DEF most, least, n
    <3>7. most = n /\ least = 1
      BY <1>1, <3>5, <3>6
    <3> QED
      BY <3>7 DEF most, least
  <2>3. SubSeq(text, 1, n) = text
    OBVIOUS
  <2>4. TrimStart(text, Spaces) = SubSeq(text, 1, n)
    BY <2>1, <2>2 DEF TrimStart
  <2>5. TrimEnd(text) = SubSeq(text, 1, n)
    BY <2>1, <2>2 DEF TrimEnd
  <2> QED
    BY <2>3, <2>4, <2>5 DEF Trim
<1> QED
  BY <1>2, <1>3

(* Blanks are among what is taken off after an address.                     *)
LEMMA BlanksAreTrimmed == Spaces \subseteq Trimmed
BY DEF Trimmed

(* An address is as long as one or two of the query's tokens.               *)
LEMMA AddressIs ==
    ASSUME NEW C, NEW text \in Seq(C)
    PROVE  AddressLength(text) \in 0..Len(text)
<1> DEFINE n == Len(text)
           next == Tail(text)
           named == StartsWithNameToken(next, {"Name"})
           a == AddressLength(text)
<1>1. n \in Nat /\ (text # <<>> => n >= 1 /\ next \in Seq(C) /\ Len(next) = n - 1)
  OBVIOUS
<1>2. named => next # <<>>
  BY DEF StartsWithNameToken
<1>3. /\ text = <<>> => a = 0
      /\ text # <<>> => a \in {0, 1} \/ (named /\ a = 2)
  BY DEF AddressLength
<1> HIDE DEF n, next, named, a
<1>4. CASE text = <<>>
  BY <1>1, <1>3, <1>4 DEF a, n
<1>5. CASE text # <<>>
  <2>1. named => n >= 2
    <3>1. next # <<>> => Len(next) >= 1
      BY <1>1, <1>5
    <3> QED
      BY <1>1, <1>2, <1>5, <3>1
  <2>2. a \in 0..n
    BY <1>1, <1>3, <1>5, <2>1
  <2> QED
    BY <2>2 DEF a, n
<1> QED
  BY <1>4, <1>5

(* What is left without its address is shorter, and solid if the text is.   *)
LEMMA StripIs ==
    ASSUME NEW C, NEW text \in Seq(C), Solid(text)
    PROVE  /\ StripAddress(text) \in Seq(C) /\ Solid(StripAddress(text))
           /\ \E d \in 0..Len(text) : Ending(StripAddress(text), text, d)
           /\ AddressLength(text) = 0 => StripAddress(text) = text
           /\ AddressLength(text) # 0 => Len(StripAddress(text)) < Len(text)
<1> DEFINE n == Len(text)
           a == AddressLength(text)
           rest == SubSeq(text, a + 1, n)
           t == TrimStart(rest, Trimmed)
<1>1. n \in Nat /\ a \in 0..n
  BY AddressIs
<1>2. StripAddress(text) = IF a = 0 THEN text ELSE t
  BY DEF StripAddress
<1> HIDE DEF a
<1>3. CASE a = 0
  <2>1. Ending(text, text, 0) /\ 0 \in 0..n
    BY <1>1 DEF Ending
  <2> QED
    BY <1>2, <1>3, <2>1 DEF a
<1>4. CASE a # 0
  <2>1. rest \in Seq(C) /\ Ending(rest, text, a)
    BY <1>1, DropIs
  <2> HIDE DEF rest
  <2>2. /\ t \in Seq(C) /\ \E d \in 0..Len(rest) : Ending(t, rest, d)
        /\ t # <<>> => t[1] \notin Trimmed
    BY <2>1, TrimStartIs
  <2> HIDE DEF t
  <2>3. PICK d \in 0..Len(rest) : Ending(t, rest, d)
    BY <2>2
  <2>4. Ending(t, text, a + d)
    BY <2>1, <2>2, <2>3, EndingOfEnding
  <2>5. /\ a + d \in 0..n /\ Len(t) = n - (a + d) /\ \A k \in 1..Len(t) : t[k] = text[k + (a + d)]
    BY <2>4 DEF Ending
  <2>6. Len(rest) \in Nat /\ d \in Nat /\ a \in Nat
    BY <1>1, <2>1, <2>3
  <2>7. Len(t) < n
    BY <1>1, <1>4, <2>5, <2>6
  <2>8. Solid(t)
    <3>1. SUFFICES ASSUME t # <<>> PROVE t[1] \notin Spaces /\ t[Len(t)] \notin Spaces
      BY DEF Solid
    <3>2. Len(t) \in 1..Len(t) /\ Len(t) + (a + d) = n
      BY <1>1, <2>2, <2>5, <3>1
    <3>3. t[Len(t)] = text[n]
      BY <2>5, <3>2
    <3>4. text # <<>>
      BY <1>1, <2>7, <3>2
    <3>5. text[n] \notin Spaces
      BY <3>4 DEF Solid
    <3> QED
      BY <2>2, <3>1, <3>3, <3>5, BlanksAreTrimmed
  <2> QED
    BY <1>2, <1>4, <2>2, <2>4, <2>5, <2>7, <2>8 DEF a
<1> QED
  BY <1>3, <1>4

\* The query is stripped of one address after the other.
StripsOneByOne(C, text) ==
    \E g \in [0..Len(text) -> Seq(C)] :
        /\ g = Rests(text)
        /\ g[0] = Trim(text) /\ NormalizeRecallQuery(text) = Trim(g[Len(text)])
        /\ \A k \in 1..Len(text) : g[k] = StripAddress(g[k - 1])

(* A text without an address is any, and so is one with.                    *)
LEMMA StripType ==
    ASSUME NEW C, NEW text \in Seq(C)
    PROVE  StripAddress(text) \in Seq(C)
<1> DEFINE a == AddressLength(text)
           rest == SubSeq(text, a + 1, Len(text))
<1>1. a \in 0..Len(text)
  BY AddressIs
<1> HIDE DEF a
<1>2. rest \in Seq(C)
  BY <1>1, DropIs
<1> HIDE DEF rest
<1>3. TrimStart(rest, Trimmed) \in Seq(C)
  BY <1>2, TrimStartIs
<1> QED
  BY <1>3 DEF StripAddress, a, rest

(* The rest is stripped one step at a time.                                 *)
LEMMA StripRun ==
    ASSUME NEW C, NEW text \in Seq(C)
    PROVE  StripsOneByOne(C, text)
<1> DEFINE n == Len(text)
           V == Seq(C)
           base == Trim(text)
           step == [p \in V \X (1..n) |-> StripAddress(p[1])]
           F(d) == [k \in 0..n |-> IF k = 0 THEN Trim(text) ELSE StripAddress(d[k - 1])]
           c == CHOOSE d : d = F(d)
<1>1. n \in Nat
  OBVIOUS
<1>2. base \in V
  BY TrimIs
<1>3. step \in [V \X (1..n) -> V]
  BY StripType
<1>4. \A v \in V, k \in 1..n : step[<<v, k>>] = StripAddress(v)
  OBVIOUS
<1>5. NormalizeRecallQuery(text) = Trim(c[n]) /\ c = Rests(text)
  BY DEF NormalizeRecallQuery, Rests
<1> HIDE DEF n, V, step
<1>6. PICK h \in [SUBSET (1..n) -> V] : IsFold(h, n, base, step)
  <2> HIDE DEF base
  <2> QED
    BY <1>1, <1>2, <1>3, FoldExists
<1> DEFINE g == [k \in 0..n |-> h[1..k]]
<1>7. g \in [0..n -> V]
  BY <1>1, <1>6
<1>8. h[1..0] = base
  <2>1. 1..0 = {} /\ (1..0) \in SUBSET (1..n)
    OBVIOUS
  <2> QED
    BY <1>6, <2>1 DEF IsFold
<1>9. ASSUME NEW k \in 1..n PROVE h[1..k] = StripAddress(h[1..(k - 1)])
  <2>1. Max(1..k) = k /\ (1..k) \ {k} = 1..(k - 1) /\ 1..k # {}
    <3>1. k \in Nat /\ k # 0
      BY <1>1
    <3> QED
      BY <3>1, MaxOfAll
  <2>2. (1..k) \in SUBSET (1..n) /\ (1..(k - 1)) \in SUBSET (1..n)
    BY <1>1
  <2>3. h[1..k] = step[<<h[1..(k - 1)], k>>]
    BY <1>6, <2>1, <2>2 DEF IsFold
  <2>4. h[1..(k - 1)] \in V
    BY <1>6, <2>2
  <2> QED
    BY <1>4, <2>3, <2>4
<1>10. /\ g[0] = base
       /\ \A k \in 1..n : g[k] = StripAddress(g[k - 1])
  BY <1>1, <1>8, <1>9
<1>11. g = F(g)
  <2>1. \A k \in 0..n : k = 0 \/ k \in 1..n
    BY <1>1
  <2>2. g = [k \in 0..n |-> g[k]]
    BY <1>7
  <2> HIDE DEF g
  <2> QED
    BY <1>10, <2>1, <2>2
<1>12. c = F(c)
  <2> HIDE DEF F, g
  <2> QED
    BY <1>11
<1> HIDE DEF c, g
<1>13. /\ c[0] = base
       /\ \A k \in 1..n : c[k] = StripAddress(c[k - 1])
       /\ c = [k \in 0..n |-> c[k]]
  <2>1. 0 \in 0..n /\ \A k \in 1..n : k \in 0..n /\ k # 0
    BY <1>1
  <2>2. c[0] = Trim(text)
    BY <1>12, <2>1
  <2>3. \A k \in 1..n : c[k] = StripAddress(c[k - 1])
    BY <1>12, <2>1
  <2>4. c = [k \in 0..n |-> c[k]]
    <3>1. \A k \in 0..n : c[k] = IF k = 0 THEN Trim(text) ELSE StripAddress(c[k - 1])
      BY <1>12
    <3> QED
      BY <1>12, <3>1
  <2> QED
    BY <2>2, <2>3, <2>4
<1> HIDE DEF base
<1> DEFINE P == {k \in 0..n : c[k] \in V}
<1>14. 0 \in P
  BY <1>1, <1>2, <1>13
<1>15. ASSUME NEW k \in 0..(n - 1), k \in P PROVE k + 1 \in P
  <2>1. k + 1 \in 1..n /\ k + 1 \in 0..n /\ (k + 1) - 1 = k
    BY <1>1
  <2>2. c[k + 1] = StripAddress(c[k]) /\ c[k] \in V
    BY <1>13, <1>15, <2>1
  <2>3. StripAddress(c[k]) \in V
    BY <2>2, StripType DEF V
  <2> QED
    BY <2>1, <2>2, <2>3
<1> HIDE DEF P
<1>16. \A k \in 0..n : k \in P
  BY <1>1, <1>14, <1>15, UpTo
<1>17. \A k \in 0..n : c[k] \in V
  BY <1>16 DEF P
<1>18. c \in [0..n -> V]
  BY <1>13, <1>17
<1> QED
  BY <1>5, <1>13, <1>18 DEF StripsOneByOne, n, V, base

(* Nothing is left to strip, nor to trim.                                   *)
LEMMA StrippedStays ==
    ASSUME NEW C, NEW text \in Seq(C), Solid(text), AddressLength(text) = 0
    PROVE  NormalizeRecallQuery(text) = text
<1> DEFINE n == Len(text)
<1>1. n \in Nat
  OBVIOUS
<1>2. StripsOneByOne(C, text)
  BY StripRun
<1>3. PICK g \in [0..n -> Seq(C)] :
          /\ g[0] = Trim(text) /\ NormalizeRecallQuery(text) = Trim(g[n])
          /\ \A k \in 1..n : g[k] = StripAddress(g[k - 1])
  BY <1>2 DEF StripsOneByOne
<1>4. Trim(text) = text
  BY SolidStays
<1>5. StripAddress(text) = text
  BY DEF StripAddress
<1> DEFINE P == {k \in 0..n : g[k] = text}
<1>6. 0 \in P
  BY <1>1, <1>3, <1>4
<1>7. ASSUME NEW k \in 0..(n - 1), k \in P PROVE k + 1 \in P
  <2>1. k + 1 \in 1..n /\ k + 1 \in 0..n /\ (k + 1) - 1 = k
    BY <1>1
  <2> QED
    BY <1>3, <1>5, <1>7, <2>1
<1> HIDE DEF P
<1>8. \A k \in 0..n : k \in P
  BY <1>1, <1>6, <1>7, UpTo
<1>9. g[n] = text
  BY <1>1, <1>8 DEF P
<1> QED
  BY <1>3, <1>4, <1>9

\* What is left of a query after k steps.
StrippedTo(C, trimmed, length, rest, k) ==
    /\ rest \in Seq(C) /\ Solid(rest)
    /\ \E d \in 0..Len(trimmed) : Ending(rest, trimmed, d)
    /\ Len(rest) <= length - k \/ AddressLength(rest) = 0

(* One more step.                                                           *)
LEMMA StrippedFurther ==
    ASSUME NEW C, NEW trimmed \in Seq(C), NEW length \in Nat, NEW k \in Nat, NEW rest,
           StrippedTo(C, trimmed, length, rest, k)
    PROVE  StrippedTo(C, trimmed, length, StripAddress(rest), k + 1)
<1> DEFINE next == StripAddress(rest)
<1>1. /\ rest \in Seq(C) /\ Solid(rest)
      /\ Len(rest) <= length - k \/ AddressLength(rest) = 0
  BY DEF StrippedTo
<1>2. PICK c \in 0..Len(trimmed) : Ending(rest, trimmed, c)
  BY DEF StrippedTo
<1>3. /\ next \in Seq(C) /\ Solid(next)
      /\ \E d \in 0..Len(rest) : Ending(next, rest, d)
      /\ AddressLength(rest) = 0 => next = rest
      /\ AddressLength(rest) # 0 => Len(next) < Len(rest)
  BY <1>1, StripIs
<1> HIDE DEF next
<1>4. PICK d \in 0..Len(rest) : Ending(next, rest, d)
  BY <1>3
<1>5. Ending(next, trimmed, c + d)
  BY <1>1, <1>2, <1>3, <1>4, EndingOfEnding
<1>6. c + d \in 0..Len(trimmed)
  BY <1>5 DEF Ending
<1>7. Len(next) <= length - (k + 1) \/ AddressLength(next) = 0
  <2>1. Len(next) \in Nat /\ Len(rest) \in Nat
    BY <1>1, <1>3
  <2> QED
    BY <1>1, <1>3, <2>1
<1>8. StrippedTo(C, trimmed, length, next, k + 1)
  BY <1>3, <1>5, <1>6, <1>7 DEF StrippedTo
<1> QED
  BY <1>8 DEF next

(* A comparison that ends inside a character has come upon one of more than  *)
(* one byte.                                                                *)
LEMMA BreakIsWide ==
    ASSUME NEW C, NEW text \in Seq(C), text # <<>>, Breaks(text)
    PROVE  \E i \in DOMAIN text : text[i] = "wide"
<1>1. CASE \E n : CutAt(text, n)
  BY <1>1 DEF CutAt
<1>2. CASE \E n : CutAt(Tail(text), n)
  <2>1. PICK i \in DOMAIN Tail(text) : Tail(text)[i] = "wide"
    BY <1>2 DEF CutAt
  <2>2. i + 1 \in DOMAIN text /\ text[i + 1] = Tail(text)[i]
    BY <2>1
  <2> QED
    BY <2>1, <2>2
<1> QED
  BY <1>1, <1>2 DEF Breaks

(* The query that is searched for is what was said after the agent was      *)
(* addressed, however often, and no query without a character of more bytes *)
(* panics (src/turn/prepare.rs:319-385), whatever is said.                  *)
THEOREM QueryIsWithoutAddress ==
    ASSUME NEW C, NEW query \in Seq(C)
    PROVE  QueryIsRight(query)
<1> DEFINE n == Len(query)
           trimmed == Trim(query)
           text == NormalizeRecallQuery(query)
<1>1. n \in Nat
  OBVIOUS
<1>2. trimmed \in Seq(C) /\ Len(trimmed) <= n /\ Solid(trimmed)
  BY TrimIs
<1>3. StripsOneByOne(C, query)
  BY StripRun
<1>4. PICK g \in [0..n -> Seq(C)] :
          /\ g = Rests(query) /\ g[0] = trimmed /\ text = Trim(g[n])
          /\ \A k \in 1..n : g[k] = StripAddress(g[k - 1])
  BY <1>3 DEF StripsOneByOne
<1> HIDE DEF n, trimmed, text
<1> DEFINE P == {k \in 0..n : StrippedTo(C, trimmed, n, g[k], k)}
<1>5. 0 \in P
  <2>1. Len(trimmed) \in Nat
    BY <1>2
  <2>2. Ending(trimmed, trimmed, 0) /\ 0 \in 0..Len(trimmed) /\ Len(trimmed) <= n - 0
    BY <1>1, <1>2, <2>1 DEF Ending
  <2>3. StrippedTo(C, trimmed, n, trimmed, 0)
    BY <1>2, <2>2 DEF StrippedTo
  <2> QED
    BY <1>1, <1>4, <2>3
<1>6. ASSUME NEW k \in 0..(n - 1), k \in P PROVE k + 1 \in P
  <2>1. k + 1 \in 1..n /\ k + 1 \in 0..n /\ (k + 1) - 1 = k /\ k \in Nat
    BY <1>1
  <2>2. StrippedTo(C, trimmed, n, g[k], k)
    BY <1>6
  <2>3. StrippedTo(C, trimmed, n, StripAddress(g[k]), k + 1)
    BY <1>1, <1>2, <2>1, <2>2, StrippedFurther
  <2>4. g[k + 1] = StripAddress(g[k])
    BY <1>4, <2>1
  <2> QED
    BY <2>1, <2>3, <2>4
<1> HIDE DEF P
<1>7. \A k \in 0..n : k \in P
  BY <1>1, <1>5, <1>6, UpTo
<1>8. StrippedTo(C, trimmed, n, g[n], n)
  BY <1>1, <1>7 DEF P
<1>9. /\ g[n] \in Seq(C) /\ Solid(g[n]) /\ \E d \in 0..Len(trimmed) : Ending(g[n], trimmed, d)
      /\ Len(g[n]) <= n - n \/ AddressLength(g[n]) = 0
  BY <1>8 DEF StrippedTo
<1>10. text = g[n]
  BY <1>4, <1>9, SolidStays
<1>11. AddressLength(text) = 0
  <2>1. AddressLength(g[n]) \in 0..Len(g[n]) /\ Len(g[n]) \in Nat
    BY <1>9, AddressIs
  <2> QED
    BY <1>1, <1>9, <1>10, <2>1
<1>12. NormalizeRecallQuery(text) = text
  BY <1>9, <1>10, <1>11, StrippedStays
<1>13. IsSuffix(text, trimmed)
  <2>1. PICK d \in 0..Len(trimmed) : Ending(g[n], trimmed, d)
    BY <1>9
  <2> QED
    BY <1>2, <1>9, <1>10, <2>1, EndingIsSuffix
<1>14. ASSUME QueryPanics(query) PROVE \E i \in DOMAIN query : query[i] = "wide"
  <2>1. PICK k \in 0..n : Breaks(g[k])
    BY <1>4, <1>14 DEF QueryPanics, n
  <2>2. StrippedTo(C, trimmed, n, g[k], k)
    BY <1>7 DEF P
  <2>3. g[k] \in Seq(C) /\ g[k] # <<>>
    BY <2>1, <2>2 DEF StrippedTo, Breaks
  <2>4. \E i \in DOMAIN g[k] : g[k][i] = "wide"
    BY <2>1, <2>3, BreakIsWide
  <2>5. PICK i \in 1..Len(g[k]) : g[k][i] = "wide"
    BY <2>3, <2>4
  <2>6. PICK d \in 0..Len(trimmed) : Ending(g[k], trimmed, d)
    BY <2>2 DEF StrippedTo
  <2>7. i + d \in 1..Len(trimmed) /\ trimmed[i + d] = "wide"
    BY <1>2, <2>3, <2>5, <2>6 DEF Ending
  <2>8. \A m \in 1..Len(trimmed) : \E m2 \in 1..Len(query) : trimmed[m] = query[m2]
    BY TrimKeepsTokens DEF trimmed
  <2> QED
    BY <2>7, <2>8
<1> QED
  BY <1>11, <1>12, <1>13, <1>14 DEF QueryIsRight, text, trimmed

-----------------------------------------------------------------------------
(* What is asked about recall                                               *)

Speakers == {"s", "t", "user", "assistant", "tool"}
Texts == {"x", "y", "z", NoWords}

\* The questions put, of any length.
PromptPut(input) ==
    /\ input.hits \in Seq([store : {"long", "short"}, size : Nat])
    /\ input.longMax \in Nat /\ input.shortMax \in Nat
QueryPut(input) == \E C : input \in Seq(C)
RecallAsked ==
    \/ question = NoQuestion
    \/ /\ question.topic = "recall"
       /\ RecallPut(Speakers, Texts, question.input) /\ question.input.preferLong \in BOOLEAN
    \/ question.topic = "memory_tool" /\ ToolPut(Speakers, Texts, question.input)
    \/ question.topic = "memory_prompt" /\ PromptPut(question.input)
    \/ question.topic = "recall_query" /\ QueryPut(question.input)

(* A row is what is stored.                                                 *)
LEMMA RowIs ==
    ASSUME NEW N, NEW T, NEW session \in N, NEW role \in N, NEW likeness \in Int, NEW text \in T
    PROVE  Row(session, role, likeness, text) \in StoredMessages(N, T)
BY DEF Row, StoredMessages

(* None, one or two.                                                        *)
LEMMA ShortLists ==
    ASSUME NEW S, NEW a \in S, NEW b \in S
    PROVE  <<>> \in Seq(S) /\ <<a>> \in Seq(S) /\ <<a, b>> \in Seq(S)
OBVIOUS

(* The rows and the facts of the questions are what is stored.              *)
LEMMA RowsAndFacts ==
    /\ Rows \subseteq StoredMessages(Speakers, Texts)
    /\ FactLists \subseteq Seq(StoredFacts(Texts))
<1> DEFINE M == StoredMessages(Speakers, Texts)
           F == StoredFacts(Texts)
<1>1. Rows \subseteq M
  <2>1. /\ "s" \in Speakers /\ "t" \in Speakers /\ "user" \in Speakers
        /\ "assistant" \in Speakers /\ "tool" \in Speakers
    BY DEF Speakers
  <2>2. "x" \in Texts /\ "y" \in Texts /\ NoWords \in Texts
    BY DEF Texts
  <2>3. 1 \in Int /\ 2 \in Int
    OBVIOUS
  <2> HIDE DEF M
  <2>4. /\ Row("s", "user", 1, "x") \in M /\ Row("s", "user", 2, "y") \in M
        /\ Row("s", "assistant", 2, NoWords) \in M /\ Row("t", "user", 2, "y") \in M
        /\ Row("s", "tool", 2, "x") \in M
    BY <2>1, <2>2, <2>3, RowIs DEF M
  <2> QED
    BY <2>4 DEF Rows
<1>2. ASSUME NEW facts \in FactLists PROVE facts \in Seq(F)
  <2>1. Fact(1, 5, "x") \in F /\ Fact(2, 1, "y") \in F /\ Fact(1, 3, "z") \in F
    BY DEF Fact, StoredFacts, Texts
  <2> HIDE DEF F
  <2>2. PICK a \in F, b \in F, c \in F :
            Fact(1, 5, "x") = a /\ Fact(2, 1, "y") = b /\ Fact(1, 3, "z") = c
    BY <2>1
  <2>3. facts = <<>> \/ facts = <<a>> \/ facts = <<b, c>>
    BY <1>2, <2>2 DEF FactLists
  <2> QED
    BY <2>3, ShortLists
<1> QED
  BY <1>1, <1>2

(* Every question is one of these.                                          *)
LEMMA RecallQuestions == RecallAskedNext => RecallAsked'
<1>1. ASSUME AskRecall PROVE RecallAsked'
  <2>1. PICK messages \in [1..3 -> Rows], facts \in FactLists, window \in 0..1,
             topK \in 0..2, radius \in 0..1, preferLong \in BOOLEAN :
            Put("recall", [messages |-> messages, facts |-> facts, window |-> window,
                           config |-> [topK |-> topK, minScore |-> 1, weight |-> 1,
                                       radius |-> radius],
                           preferLong |-> preferLong])
    BY <1>1 DEF AskRecall
  <2> DEFINE M == StoredMessages(Speakers, Texts)
             F == StoredFacts(Texts)
  <2>2. messages \in Seq(M)
    <3>1. \E k \in Nat : messages \in [1..k -> M]
      BY RowsAndFacts
    <3> QED
      BY <3>1, SeqDef
  <2>3. facts \in Seq(F)
    BY RowsAndFacts
  <2> HIDE DEF M, F
  <2> DEFINE input == [messages |-> messages, facts |-> facts, window |-> window,
                       config |-> [topK |-> topK, minScore |-> 1, weight |-> 1,
                                   radius |-> radius],
                       preferLong |-> preferLong]
  <2>4. question'.topic = "recall" /\ question'.input = input
    BY <2>1 DEF Put
  <2>5. /\ input.messages = messages /\ input.facts = facts /\ input.preferLong = preferLong
        /\ input.config.topK = topK /\ input.config.minScore = 1
        /\ input.config.weight = 1 /\ input.config.radius = radius
    OBVIOUS
  <2> HIDE DEF input
  <2>6. RecallPut(Speakers, Texts, input)
    BY <2>2, <2>3, <2>5 DEF RecallPut, M, F
  <2> QED
    BY <2>4, <2>5, <2>6 DEF RecallAsked
<1>2. ASSUME AskMemoryPrompt PROVE RecallAsked'
  <2>1. PICK hits \in SeqOf([store : {"long", "short"}, size : 1..3], 3),
             longMax \in 0..4, shortMax \in {0, 3} :
            Put("memory_prompt", [hits |-> hits, longMax |-> longMax, shortMax |-> shortMax])
    BY <1>2 DEF AskMemoryPrompt
  <2> DEFINE H == [store : {"long", "short"}, size : 1..3]
             G == [store : {"long", "short"}, size : Nat]
  <2>2. hits \in Seq(G)
    <3>1. H \subseteq G
      OBVIOUS
    <3> HIDE DEF G
    <3>2. hits \in Seq(H)
      BY BoundedIsSeq
    <3> HIDE DEF H
    <3> QED
      BY <3>1, <3>2
  <2>3. /\ question'.topic = "memory_prompt" /\ question'.input.hits = hits
        /\ question'.input.longMax = longMax /\ question'.input.shortMax = shortMax
    BY <2>1 DEF Put
  <2>4. longMax \in Nat /\ shortMax \in Nat
    OBVIOUS
  <2>5. PromptPut(question'.input)
    BY <2>2, <2>3, <2>4 DEF PromptPut
  <2> QED
    BY <2>3, <2>5 DEF RecallAsked
<1>3. ASSUME AskRecallQuery PROVE RecallAsked'
  <2> DEFINE C == {"<@id>", "@", "Name", "agentid", ",", ";", " ", "word", "wide"}
  <2>1. PICK text \in SeqOf(C, 4) : Put("recall_query", text)
    BY <1>3 DEF AskRecallQuery
  <2> HIDE DEF C
  <2>2. text \in Seq(C)
    BY BoundedIsSeq
  <2>3. question'.topic = "recall_query" /\ question'.input = text
    BY <2>1 DEF Put
  <2>4. QueryPut(question'.input)
    BY <2>2, <2>3 DEF QueryPut
  <2> QED
    BY <2>3, <2>4 DEF RecallAsked
<1>4. ASSUME AskMemoryTool PROVE RecallAsked'
  <2>1. PICK messages \in [1..2 -> Rows], facts \in FactLists,
             requested \in {NoNumber, 0, 2}, default \in {NoNumber, 0, 1},
             max \in {NoNumber, 0, 1}, store \in {"short", "long"} :
            Put("memory_tool", [messages |-> messages, facts |-> facts,
                                requested |-> requested, default |-> default, max |-> max,
                                store |-> store])
    BY <1>4 DEF AskMemoryTool
  <2>2. messages \in Seq(StoredMessages(Speakers, Texts))
    <3>1. \E k \in Nat : messages \in [1..k -> StoredMessages(Speakers, Texts)]
      BY RowsAndFacts
    <3> QED
      BY <3>1, SeqDef
  <2>3. facts \in Seq(StoredFacts(Texts))
    BY RowsAndFacts
  <2>4. /\ question'.topic = "memory_tool"
        /\ question'.input.messages = messages /\ question'.input.facts = facts
        /\ question'.input.requested = requested /\ question'.input.default = default
        /\ question'.input.max = max /\ question'.input.store = store
    BY <2>1 DEF Put
  <2>5. ToolPut(Speakers, Texts, question'.input)
    BY <2>2, <2>3, <2>4 DEF ToolPut
  <2> QED
    BY <2>4, <2>5 DEF RecallAsked
<1> QED
  BY <1>1, <1>2, <1>3, <1>4 DEF RecallAskedNext

(* What is asked about is answered right.                                   *)
LEMMA RecallAnswers == RecallAsked => RecallIsRelevant
<1> SUFFICES ASSUME RecallAsked PROVE RecallIsRelevant
  OBVIOUS
<1>1. RecallHoldsWhatItShould
  <2>1. ASSUME Asked("recall")
        PROVE  RecallPut(Speakers, Texts, question.input) /\ question.input.preferLong \in BOOLEAN
    BY <2>1 DEF Asked, RecallAsked, NoQuestion
  <2> QED
    BY <2>1, RecallKeepsItsPromise DEF RecallHoldsWhatItShould
<1>2. PromptTakesTheBest
  <2>1. ASSUME Asked("memory_prompt") PROVE PromptPut(question.input)
    BY <2>1 DEF Asked, RecallAsked, NoQuestion
  <2> DEFINE H == [store : {"long", "short"}, size : Nat]
  <2>2. \A h \in H : h.size \in Nat
    OBVIOUS
  <2>3. Asked("memory_prompt") => /\ question.input.hits \in Seq(H)
                                  /\ question.input.longMax \in Nat
                                  /\ question.input.shortMax \in Nat
    BY <2>1 DEF PromptPut
  <2> HIDE DEF H
  <2> QED
    BY <2>2, <2>3, PromptTakesWhatFits DEF PromptTakesTheBest
<1>3. QueryHasNoAddress
  <2>1. ASSUME Asked("recall_query") PROVE QueryPut(question.input)
    BY <2>1 DEF Asked, RecallAsked, NoQuestion
  <2> QED
    BY <2>1, QueryIsWithoutAddress DEF QueryHasNoAddress, QueryPut
<1>4. MemoryToolAnswers
  <2>1. ASSUME Asked("memory_tool") PROVE ToolPut(Speakers, Texts, question.input)
    BY <2>1 DEF Asked, RecallAsked, NoQuestion
  <2> QED
    BY <2>1, MemoryToolKeepsToStore DEF MemoryToolAnswers
<1> QED
  BY <1>1, <1>2, <1>3, <1>4 DEF RecallIsRelevant

(* A turn is reminded of what it should be (src/memory/mod.rs:343-589,      *)
(* src/turn/prepare.rs:175-385), as far as RecallIsRelevant says: the       *)
(* property of the runs, from the theorems for all that is stored, found    *)
(* and asked.                                                               *)
THEOREM RemindedRight == RecallSpec => []RecallIsRelevant
<1>1. QuestionInit => RecallAsked
  BY DEF QuestionInit, RecallAsked
<1>2. RecallAsked /\ [RecallAskedNext]_question => RecallAsked'
  BY RecallQuestions DEF RecallAsked
<1> QED
  BY <1>1, <1>2, RecallAnswers, PTL DEF RecallSpec

=============================================================================
