---------------------------- MODULE BrowserProofs ----------------------------
(***************************************************************************)
(* Proofs about the web application: the chat panel, for every set of      *)
(* sessions and texts and every bound on sends, tokens, moves, polls and   *)
(* faults; and the sign-in, for every set of accounts and of requests and  *)
(* every bound on tokens, reloads and faults.                              *)
(***************************************************************************)
EXTENDS Browser, SequenceTheorems, WellFoundedInduction, TLAPS

-----------------------------------------------------------------------------
(* Induction.                                                              *)

\* Over a set of numbers.
LEMMA SetInduction ==
    ASSUME NEW S, 0 \in S, \A n \in Nat : n \in S => n + 1 \in S
    PROVE  Nat \subseteq S
<1> DEFINE R == OpToRel(<, Nat)
           T == Nat \ S
<1>1. IsWellFoundedOn(R, Nat)
  BY NatLessThanWellFounded
<1>2. \A x, y \in Nat : x < y => <<x, y>> \in R
  BY DEF OpToRel
<1>3. SUFFICES ASSUME T # {} PROVE FALSE
  OBVIOUS
<1> HIDE DEF R
<1>4. PICK x \in T : \A y \in T : <<y, x>> \notin R
  BY <1>1, <1>3, WFMin
<1>5. x \in Nat /\ x # 0 /\ x - 1 \in Nat /\ x - 1 < x
  BY <1>4
<1>6. x - 1 \in S
  BY <1>2, <1>4, <1>5
<1> QED BY <1>4, <1>5, <1>6

\* A value that is computed along 1..n, a step at a time, exists.
Computed(A, base, n, step, g) ==
    /\ g \in [0..n -> A] /\ g[0] = base
    /\ \A i \in 1..n : g[i] = step[<<g[i - 1], i>>]

LEMMA StepsExist ==
    ASSUME NEW A, NEW base \in A, NEW n \in Nat, NEW step \in [A \X (1..n) -> A]
    PROVE  \E g : Computed(A, base, n, step, g)
<1> DEFINE Upto(k, g) == /\ g \in [0..k -> A] /\ g[0] = base
                         /\ \A i \in 1..k : g[i] = step[<<g[i - 1], i>>]
           S == {k \in Nat : k > n \/ \E g \in [0..k -> A] : Upto(k, g)}
<1>1. 0 \in S
  <2> DEFINE g == [i \in 0..0 |-> base]
  <2>1. Upto(0, g)
    OBVIOUS
  <2> HIDE DEF g
  <2> QED BY <2>1
<1>2. ASSUME NEW k \in Nat, k \in S PROVE k + 1 \in S
  <2>1. CASE k + 1 > n
    BY <2>1
  <2>2. CASE k + 1 <= n
    <3>1. PICK g \in [0..k -> A] : Upto(k, g)
      BY <1>2, <2>2
    <3> DEFINE next == step[<<g[k], k + 1>>]
               h == [i \in 0..(k + 1) |-> IF i = k + 1 THEN next ELSE g[i]]
    <3>2. g[k] \in A /\ k + 1 \in 1..n
      BY <2>2
    <3>3. next \in A
      BY <3>2
    <3>4. h \in [0..(k + 1) -> A] /\ h[0] = base
      BY <3>1, <3>3
    <3>5. ASSUME NEW i \in 1..(k + 1) PROVE h[i] = step[<<h[i - 1], i>>]
      <4>1. CASE i = k + 1
        <5>1. i - 1 = k /\ k \in 0..(k + 1) /\ k # k + 1
          BY <4>1
        <5>2. h[i - 1] = g[k] /\ h[i] = next
          BY <4>1, <5>1
        <5> QED BY <4>1, <5>2
      <4>2. CASE i # k + 1
        <5>1. i \in 1..k /\ i - 1 \in 0..k /\ i - 1 # k + 1
          BY <4>2
        <5>2. h[i] = g[i] /\ h[i - 1] = g[i - 1]
          BY <5>1
        <5> QED BY <3>1, <5>1, <5>2
      <4> QED BY <4>1, <4>2
    <3> HIDE DEF h
    <3> QED BY <3>4, <3>5
  <2> QED BY <2>1, <2>2
<1> HIDE DEF S
<1>3. n \in S
  BY <1>1, <1>2, SetInduction
<1>4. PICK g \in [0..n -> A] : Upto(n, g)
  BY <1>3 DEF S
<1> QED BY <1>4 DEF Computed

-----------------------------------------------------------------------------
(* The chat panel: the invariant.                                          *)

Waiting == {"creating", "requesting", "reading", "aborted"}
Fresh == {"unsent", "creating"}
Live == {"requesting", "reading"}

\* The sends and their runs: what is unsent has none, and the server names an
\* answer before it says anything of it.
IdsComeFirst(wire) ==
    \E i \in DOMAIN wire : /\ wire[i].type = "ai_message_id"
                           /\ \A j \in 1..(i - 1) : wire[j].type = "user_id"

SendRight(f, r) ==
    /\ f.at \in Fresh \cup {"requesting"} =>
          r.at = "none" /\ f.read = <<>> /\ f.final = NoAnswer /\ ~f.named
    /\ f.at = "reading" =>
          r.at \notin {"none", "lost"} /\ (~f.named => IdsComeFirst(r.wire))

SendsRight ==
    /\ sends \in [Sends -> HandledSends] /\ runs \in [Sends -> ServerRuns]
    /\ OneSendAtATime
    /\ \A n \in Sends : SendRight(sends[n], runs[n])

\* A send belongs to a session that exists; one that does not has nothing.
SessionsExist ==
    /\ store \in [created : SUBSET ChatSessions, conv : [ChatSessions -> Lists]]
    /\ panel.session \in store.created \cup {NoSession}
    /\ \A n \in Sends : sends[n].at \notin Fresh /\ runs[n].at # "lost" =>
                            sends[n].session \in store.created
    /\ \A s \in ChatSessions \ store.created :
          store.conv[s] = <<>> /\ history[s].data = NotLoaded /\ history[s].fetch = NoFetch

\* The same of a message and a list, beside any sends and runs.
MisnamedIn(m, ss) == m.id[1] = "msg" /\ m.text # Typed(ss[m.id[2]].text)

Right(list, ss) ==
    \A i \in DOMAIN list :
        /\ list[i].role = IF list[i].id[1] \in {"u", "msg"} THEN "user" ELSE "assistant"
        /\ ss[list[i].id[2]].at \notin Fresh
        /\ list[i].id[1] = "u" => list[i].text = Typed(ss[list[i].id[2]].text)

Apart(list, ss) ==
    \A i, j \in DOMAIN list :
        i < j /\ ~MisnamedIn(list[i], ss) /\ ~MisnamedIn(list[j], ss) =>
            /\ list[i].id # list[j].id
            /\ list[i].role = "user" /\ list[j].role = "user" =>
                  list[i].id[2] # list[j].id[2]

\* A list as the server has it.
Stored(list, ss, rr) ==
    /\ \A i, j \in DOMAIN list : list[i].id = list[j].id => i = j
    /\ \A i \in DOMAIN list :
          LET n == list[i].id[2] IN
          \/ /\ list[i].id[1] = "msg" /\ rr[n].at \notin {"none", "lost"}
             /\ list[i].text = Typed(ss[n].text)
          \/ list[i].id[1] = "ai" /\ rr[n].at \in {"saved", "closed"}

HasLocal(list) == \E i \in DOMAIN list : list[i].id[1] = "u"

\* A list that is cached says nothing of a send under way but what the server
\* has of it.
Settled(list, n) ==
    /\ <<"a", n>> \notin Ids(list) /\ <<"u", n>> \notin Ids(list)
    /\ <<"msg", n>> \in Ids(list) => ~HasLocal(list)

\* The answer of a send has one place in a list.
AnswerUnnamed(list, n) == <<"a", n>> \in Ids(list) => <<"ai", n>> \notin Ids(list)

\* Whichever question of a list would take the number n, it makes no other of it.
QuestionUnnamed(list, n, ss) ==
    \A i, j \in DOMAIN list :
        list[j].id[1] = "u" =>
            /\ list[i].id = <<"msg", n>> => list[j].text # Typed(ss[n].text)
            /\ list[i].id = <<"u", n>> => j <= i

\* A stored and a cached list.
StoredRight(list, ss, rr) == list \in Lists /\ Right(list, ss) /\ Stored(list, ss, rr)

CachedRight(list, ss) ==
    /\ list \in Lists /\ Right(list, ss) /\ Apart(list, ss)
    /\ \A n \in Sends : ss[n].at \in Live => Settled(list, n)

StoreRight(conv, ss, rr) == \A s \in ChatSessions : StoredRight(conv[s], ss, rr)

HistoryRight(hist, ss, rr) ==
    /\ hist \in [ChatSessions -> [data : SUBSET Lists, fetch : SUBSET Lists]]
    /\ \A s \in ChatSessions :
          /\ \A list \in hist[s].fetch : StoredRight(list, ss, rr)
          /\ \A list \in hist[s].data : CachedRight(list, ss)

\* What the panel p holds of the send f that is answered, and of its number n.
Followed(n, p, f) ==
    /\ p.streaming => p.content \o p.buffer = f.read
    /\ p.aiId = IF f.named THEN n ELSE 0
    /\ p.userId \in {0, n} /\ (f.at = "requesting" => p.userId = 0)
    /\ p.ref = <<IF f.named THEN "ai" ELSE "a", n>>
    /\ ~f.named => p.streaming

\* The numbers to come fall on the send's own messages.
NumbersFit(n, p, f, ss, hist) ==
    /\ AnswerUnnamed(p.messages, n)
    /\ <<"a", n>> \in Ids(p.messages) =>
          /\ ~f.named
          /\ p.session # NoSession =>
                \A list \in hist[p.session].fetch : <<"ai", n>> \notin Ids(list)
    /\ p.userId = 0 => QuestionUnnamed(p.messages, n, ss)

PanelFits(p, ss, hist) ==
    /\ p \in Panels /\ Right(p.messages, ss) /\ Apart(p.messages, ss)
    /\ p.ref = <<>> \/ p.ref[1] \in {"a", "ai"}
    /\ p.skip = NoSession /\ (p.streaming => p.abort \in Sends)
    /\ \A n \in Sends :
          /\ ss[n].at \in Waiting => p.sending
          /\ ss[n].at \in Live => Followed(n, p, ss[n]) /\ NumbersFit(n, p, ss[n], ss, hist)

PanelInvariant ==
    /\ SendsRight /\ SessionsExist /\ PanelFits(panel, sends, history)
    /\ StoreRight(store.conv, sends, runs) /\ HistoryRight(history, sends, runs)

-----------------------------------------------------------------------------
(* Lists of messages.                                                      *)

\* What the first k of s leave in t: where each comes from, in the same order.
Tracks(s, k, t, g, Good) ==
    /\ g \in [1..Len(t) -> 1..k]
    /\ \A a \in 1..Len(t) : t[a] = s[g[a]] /\ t[a] \in Good
    /\ \A a, b \in 1..Len(t) : a < b => g[a] < g[b]
    /\ \A p \in 1..k : s[p] \in Good => \E a \in 1..Len(t) : g[a] = p

Left(s, k, t, Good) == t \in Lists /\ \E g : Tracks(s, k, t, g, Good)

LEMMA LeftNext ==
    ASSUME NEW Good, NEW s \in Lists, NEW k \in Nat, k + 1 <= Len(s),
           NEW t, Left(s, k, t, Good),
           NEW u, u = IF s[k + 1] \in Good THEN Append(t, s[k + 1]) ELSE t
    PROVE  Left(s, k + 1, u, Good)
<1>1. PICK g : Tracks(s, k, t, g, Good)
  BY DEF Left
<1>2. t \in Lists /\ Len(t) \in Nat /\ s[k + 1] \in Messages
  BY DEF Left, Lists
<1>3. CASE s[k + 1] \notin Good
  <2>1. u = t
    BY <1>3
  <2>2. g \in [1..Len(t) -> 1..(k + 1)]
    BY <1>1 DEF Tracks
  <2>3. \A p \in 1..(k + 1) : s[p] \in Good => p \in 1..k
    BY <1>3
  <2>4. Tracks(s, k + 1, t, g, Good)
    BY <1>1, <2>2, <2>3 DEF Tracks
  <2> QED BY <1>2, <2>1, <2>4 DEF Left
<1>4. CASE s[k + 1] \in Good
  <2> DEFINE n == Len(t)
             h == [a \in 1..(n + 1) |-> IF a = n + 1 THEN k + 1 ELSE g[a]]
  <2>1. /\ u = Append(t, s[k + 1]) /\ u \in Lists /\ Len(u) = n + 1
        /\ \A a \in 1..n : u[a] = t[a]
        /\ u[n + 1] = s[k + 1]
    BY <1>2, <1>4 DEF Lists
  <2>2. n \in Nat
    BY <1>2
  <2> HIDE DEF n
  <2>3. /\ g \in [1..n -> 1..k] /\ \A a \in 1..n : t[a] = s[g[a]] /\ t[a] \in Good
        /\ \A a, b \in 1..n : a < b => g[a] < g[b]
        /\ \A p \in 1..k : s[p] \in Good => \E a \in 1..n : g[a] = p
    BY <1>1 DEF Tracks, n
  <2>4. h \in [1..(n + 1) -> 1..(k + 1)]
    BY <2>2, <2>3
  <2>5. h[n + 1] = k + 1 /\ \A a \in 1..n : h[a] = g[a] /\ g[a] \in 1..k
    BY <2>2, <2>3
  <2>6. n + 1 \in 1..(n + 1) /\ \A a \in 1..(n + 1) : a \in 1..n \/ a = n + 1
    BY <2>2
  <2> HIDE DEF h
  <2>7. \A a \in 1..(n + 1) : u[a] = s[h[a]] /\ u[a] \in Good
    BY <1>4, <2>1, <2>3, <2>5, <2>6
  <2>8. ASSUME NEW a \in 1..(n + 1), NEW b \in 1..(n + 1), a < b PROVE h[a] < h[b]
    <3>1. a \in 1..n
      BY <2>2, <2>8
    <3>2. CASE b = n + 1
      BY <2>5, <3>1, <3>2
    <3>3. CASE b # n + 1
      BY <2>3, <2>5, <2>6, <2>8, <3>1, <3>3
    <3> QED BY <3>2, <3>3
  <2>9. ASSUME NEW p \in 1..(k + 1), s[p] \in Good PROVE \E a \in 1..(n + 1) : h[a] = p
    <3>1. CASE p = k + 1
      BY <2>5, <2>6, <3>1
    <3>2. CASE p # k + 1
      <4>1. p \in 1..k
        BY <3>2
      <4>2. PICK a \in 1..n : g[a] = p
        BY <2>3, <2>9, <4>1
      <4>3. a \in 1..(n + 1) /\ h[a] = p
        BY <2>2, <2>5, <4>2
      <4> QED BY <4>3
    <3> QED BY <3>1, <3>2
  <2>10. Tracks(s, k + 1, u, h, Good)
    BY <2>1, <2>4, <2>7, <2>8, <2>9 DEF Tracks
  <2> QED BY <2>1, <2>10 DEF Left
<1> QED BY <1>3, <1>4

\* A merged list: the stored one, then what it leaves of the local one.
LEMMA MergedIs ==
    ASSUME NEW stored \in Lists, NEW local \in Lists
    PROVE  \E t : /\ Merged(stored, local) = stored \o t
                  /\ Left(local, Len(local), t, {m \in Messages : IsNotAmong(m, stored)})
<1> DEFINE n == Len(local)
           Good == {m \in Messages : IsNotAmong(m, stored)}
           Next(t, i) == IF local[i] \in Good THEN Append(t, local[i]) ELSE t
           step == [x \in Lists \X (1..n) |-> Next(x[1], x[2])]
           Upto(f) == f = [i \in 0..n |-> IF i = 0 THEN <<>>
                              ELSE IF IsNotAmong(local[i], stored)
                                   THEN Append(f[i - 1], local[i]) ELSE f[i - 1]]
           f == CHOOSE f : Upto(f)
<1>1. n \in Nat /\ \A i \in 1..n : local[i] \in Messages
  BY DEF Lists
<1>2. <<>> \in Lists /\ \A t \in Lists, m \in Messages : Append(t, m) \in Lists
  BY DEF Lists
<1>3. \A i \in 1..n : local[i] \in Good <=> IsNotAmong(local[i], stored)
  BY <1>1
<1> HIDE DEF n, Good
<1>4. step \in [Lists \X (1..n) -> Lists]
  BY <1>1, <1>2
<1>5. \A t \in Lists : \A i \in 1..n : step[<<t, i>>] = Next(t, i)
  OBVIOUS
<1> HIDE DEF step, f, Upto
<1>6. PICK g : Computed(Lists, <<>>, n, step, g)
  BY <1>1, <1>2, <1>4, StepsExist, Zenon
<1>7. ASSUME NEW i \in 0..n
      PROVE  g[i] = IF i = 0 THEN <<>>
                    ELSE IF IsNotAmong(local[i], stored)
                         THEN Append(g[i - 1], local[i]) ELSE g[i - 1]
  <2>1. CASE i = 0
    BY <1>6, <2>1 DEF Computed
  <2>2. CASE i # 0
    <3>1. i \in 1..n /\ i - 1 \in 0..n
      BY <1>1, <2>2
    <3>2. g[i - 1] \in Lists /\ g[i] = step[<<g[i - 1], i>>]
      BY <1>6, <3>1 DEF Computed
    <3> QED BY <1>3, <1>5, <2>2, <3>1, <3>2
  <2> QED BY <2>1, <2>2
<1>8. Upto(g)
  BY <1>6, <1>7 DEF Upto, Computed
<1>9. f = [i \in 0..n |-> IF i = 0 THEN <<>>
                          ELSE IF IsNotAmong(local[i], stored)
                               THEN Append(f[i - 1], local[i]) ELSE f[i - 1]]
  BY <1>8 DEF f, Upto
<1>10. Merged(stored, local) = stored \o f[n]
  BY DEF Merged, n, f, Upto
<1>11. f[0] = <<>> /\ \A i \in 1..n : f[i] = Next(f[i - 1], i)
  <2>1. \A i \in 0..n : f[i] = IF i = 0 THEN <<>>
                          ELSE IF IsNotAmong(local[i], stored)
                               THEN Append(f[i - 1], local[i]) ELSE f[i - 1]
    BY <1>9, Zenon
  <2>2. 0 \in 0..n /\ \A i \in 1..n : i \in 0..n /\ i # 0
    BY <1>1
  <2> QED BY <1>3, <2>1, <2>2, Zenon
<1> DEFINE S == {k \in Nat : k > n \/ Left(local, k, f[k], Good)}
<1>12. 0 \in S
  <2>1. <<>> \in Lists /\ Len(<<>>) = 0
    BY <1>2
  <2>2. Tracks(local, 0, <<>>, <<>>, Good)
    BY DEF Tracks
  <2>3. Left(local, 0, <<>>, Good)
    BY <2>1, <2>2 DEF Left
  <2> QED BY <1>11, <2>3, Zenon
<1>13. ASSUME NEW k \in Nat, k \in S PROVE k + 1 \in S
  <2>1. CASE k + 1 > n
    BY <2>1
  <2>2. CASE k + 1 <= n
    <3>1. k + 1 \in 1..n /\ (k + 1) - 1 = k /\ Left(local, k, f[k], Good)
      BY <1>1, <1>13, <2>2
    <3>2. f[k + 1] = Next(f[k], k + 1)
      BY <1>11, <3>1
    <3>3. Left(local, k + 1, f[k + 1], Good)
      BY <2>2, <3>1, <3>2, LeftNext DEF n
    <3> QED BY <3>3
  <2> QED BY <1>1, <2>1, <2>2
<1> HIDE DEF S
<1>14. n \in S
  BY <1>1, <1>12, <1>13, SetInduction
<1>15. Left(local, n, f[n], Good)
  BY <1>1, <1>14 DEF S
<1> QED BY <1>10, <1>15 DEF n, Good

\* list is stored, then what it leaves of local, each from its place g.
IsMerged(list, stored, local, g) ==
    /\ list \in Lists /\ Len(stored) <= Len(list)
    /\ \A i \in 1..Len(stored) : list[i] = stored[i]
    /\ \A i \in (Len(stored) + 1)..Len(list) :
          g[i] \in 1..Len(local) /\ list[i] = local[g[i]] /\ IsNotAmong(list[i], stored)
    /\ \A i, j \in (Len(stored) + 1)..Len(list) : i < j => g[i] < g[j]
    /\ \A p \in 1..Len(local) :
          IsNotAmong(local[p], stored) => \E i \in 1..Len(list) : list[i] = local[p]

LEMMA Merges ==
    ASSUME NEW stored \in Lists, NEW local \in Lists
    PROVE  \E g : IsMerged(Merged(stored, local), stored, local, g)
<1> DEFINE Good == {m \in Messages : IsNotAmong(m, stored)}
           list == Merged(stored, local)
           n == Len(stored)
<1>1. PICK t : list = stored \o t /\ Left(local, Len(local), t, Good)
  BY MergedIs
<1>2. PICK h : Tracks(local, Len(local), t, h, Good)
  BY <1>1 DEF Left
<1> DEFINE k == Len(t)
           g == [i \in (n + 1)..(n + k) |-> h[i - n]]
<1>3. t \in Lists
  BY <1>1 DEF Left
<1>4. /\ n \in Nat /\ k \in Nat /\ list \in Lists /\ Len(list) = n + k
      /\ \A i \in 1..n : list[i] = stored[i]
      /\ \A i \in (n + 1)..(n + k) : list[i] = t[i - n]
      /\ \A p \in 1..Len(local) : local[p] \in Messages
  BY <1>1, <1>3 DEF Lists
<1>5. /\ \A a \in 1..k : h[a] \in 1..Len(local) /\ t[a] = local[h[a]] /\ t[a] \in Good
      /\ \A a, b \in 1..k : a < b => h[a] < h[b]
      /\ \A p \in 1..Len(local) : local[p] \in Good => \E a \in 1..k : h[a] = p
  BY <1>2 DEF Tracks
<1> HIDE DEF n, k, list, Good
<1>6. \A i \in (n + 1)..(n + k) : i - n \in 1..k /\ g[i] = h[i - n]
  BY <1>4
<1> HIDE DEF g
<1>7. \A m \in Good : IsNotAmong(m, stored)
  BY DEF Good
<1>8. ASSUME NEW i \in (n + 1)..(n + k)
      PROVE  g[i] \in 1..Len(local) /\ list[i] = local[g[i]] /\ IsNotAmong(list[i], stored)
  BY <1>4, <1>5, <1>6, <1>7
<1>9. ASSUME NEW i \in (n + 1)..(n + k), NEW j \in (n + 1)..(n + k), i < j
      PROVE  g[i] < g[j]
  <2>1. i - n < j - n
    BY <1>4, <1>9
  <2> QED BY <1>5, <1>6, <2>1
<1>10. ASSUME NEW p \in 1..Len(local), IsNotAmong(local[p], stored)
       PROVE  \E i \in 1..(n + k) : list[i] = local[p]
  <2>1. local[p] \in Good
    BY <1>4, <1>10 DEF Good
  <2>2. PICK a \in 1..k : h[a] = p
    BY <1>5, <2>1
  <2>3. n + a \in (n + 1)..(n + k) /\ n + a \in 1..(n + k) /\ (n + a) - n = a
    BY <1>4
  <2>4. list[n + a] = local[p]
    BY <1>4, <1>5, <2>2, <2>3
  <2> QED BY <2>3, <2>4
<1>11. n <= n + k
  BY <1>4
<1> QED BY <1>4, <1>8, <1>9, <1>10, <1>11 DEF IsMerged, n, list

\* What a list and its messages are.
LEMMA ListTyped ==
    ASSUME NEW list \in Lists
    PROVE  /\ Len(list) \in Nat /\ DOMAIN list = 1..Len(list)
           /\ \A i \in DOMAIN list : /\ list[i] \in Messages /\ list[i].id[2] \in Sends
                                     /\ list[i].id = <<list[i].id[1], list[i].id[2]>>
                                     /\ list[i].id[1] \in {"u", "a", "f", "msg", "ai"}
                                     /\ list[i].role \in {"user", "assistant"}
                                     /\ list[i].text \in Texts
<1>1. Len(list) \in Nat /\ DOMAIN list = 1..Len(list)
  BY DEF Lists
<1>2. ASSUME NEW i \in DOMAIN list
      PROVE  /\ list[i] \in Messages /\ list[i].id \in MessageIds
             /\ list[i].role \in {"user", "assistant"} /\ list[i].text \in Texts
  <2>1. list[i] \in Messages
    BY <1>1 DEF Lists
  <2> QED BY <2>1 DEF Messages
<1>3. ASSUME NEW id \in MessageIds
      PROVE  /\ id = <<id[1], id[2]>> /\ id[2] \in Sends
             /\ id[1] \in {"u", "a", "f", "msg", "ai"}
  <2>1. PICK kind \in {"u", "a", "f", "msg", "ai"}, n \in Sends : id = <<kind, n>>
    BY DEF MessageIds
  <2> QED BY <2>1
<1> QED BY <1>1, <1>2, <1>3

LEMMA IdIsPlaced ==
    ASSUME NEW list, NEW id
    PROVE  id \in Ids(list) <=> \E i \in DOMAIN list : list[i].id = id
BY DEF Ids

\* Where a message of a merged list comes from.
LEMMA FromEither ==
    ASSUME NEW stored \in Lists, NEW local \in Lists, NEW list, NEW g,
           IsMerged(list, stored, local, g), NEW i \in DOMAIN list
    PROVE  \/ i \in DOMAIN stored /\ list[i] = stored[i]
           \/ /\ i \notin DOMAIN stored /\ i \in (Len(stored) + 1)..Len(list)
              /\ g[i] \in DOMAIN local /\ list[i] = local[g[i]]
              /\ IsNotAmong(list[i], stored)
<1>1. /\ Len(stored) \in Nat /\ DOMAIN stored = 1..Len(stored)
      /\ DOMAIN local = 1..Len(local)
  BY ListTyped
<1>2. list \in Lists
  BY DEF IsMerged
<1>3. Len(list) \in Nat /\ DOMAIN list = 1..Len(list)
  BY <1>2, ListTyped
<1>4. CASE i <= Len(stored)
  <2>1. i \in 1..Len(stored)
    BY <1>1, <1>3, <1>4
  <2> QED BY <1>1, <2>1 DEF IsMerged
<1>5. CASE ~(i <= Len(stored))
  <2>1. i \in (Len(stored) + 1)..Len(list) /\ i \notin 1..Len(stored)
    BY <1>1, <1>3, <1>5
  <2> QED BY <1>1, <2>1 DEF IsMerged
<1> QED BY <1>4, <1>5

LEMMA RightMerged ==
    ASSUME NEW ss, NEW stored \in Lists, NEW local \in Lists, NEW list, NEW g,
           IsMerged(list, stored, local, g), Right(stored, ss), Right(local, ss)
    PROVE  Right(list, ss)
<1> SUFFICES ASSUME NEW i \in DOMAIN list
             PROVE  /\ list[i].role = IF list[i].id[1] \in {"u", "msg"} THEN "user"
                                      ELSE "assistant"
                    /\ ss[list[i].id[2]].at \notin Fresh
                    /\ list[i].id[1] = "u" =>
                          list[i].text = Typed(ss[list[i].id[2]].text)
  BY DEF Right
<1>1. (\E j \in DOMAIN stored : list[i] = stored[j]) \/ (\E j \in DOMAIN local : list[i] = local[j])
  BY FromEither
<1> QED BY <1>1 DEF Right

\* Two messages of one number, one stored and one local, are never both shown.
LEMMA NotAmongApart ==
    ASSUME NEW ss, NEW stored \in Lists, NEW m \in Messages, IsNotAmong(m, stored),
           NEW i \in DOMAIN stored, Right(stored, ss),
           m.role = IF m.id[1] \in {"u", "msg"} THEN "user" ELSE "assistant",
           m.id[1] = "u" => m.text = Typed(ss[m.id[2]].text),
           ~MisnamedIn(stored[i], ss), ~MisnamedIn(m, ss)
    PROVE  /\ stored[i].id # m.id
           /\ stored[i].role = "user" /\ m.role = "user" => stored[i].id[2] # m.id[2]
<1>1. stored[i].id # m.id
  BY DEF IsNotAmong, Ids
<1>2. ASSUME stored[i].role = "user", m.role = "user", stored[i].id[2] = m.id[2]
      PROVE  FALSE
  <2>1. stored[i].id[1] \in {"u", "msg"} /\ m.id[1] \in {"u", "msg"}
    BY <1>2 DEF Right
  <2>2. stored[i].text = Typed(ss[m.id[2]].text) /\ m.text = Typed(ss[m.id[2]].text)
    BY <1>2, <2>1 DEF Right, MisnamedIn
  <2> QED BY <1>2, <2>2 DEF IsNotAmong
<1> QED BY <1>1, <1>2

LEMMA ApartMerged ==
    ASSUME NEW ss, NEW stored \in Lists, NEW local \in Lists, NEW list, NEW g,
           IsMerged(list, stored, local, g), Right(stored, ss), Right(local, ss),
           Apart(stored, ss), Apart(local, ss)
    PROVE  Apart(list, ss)
<1>0. /\ list \in Lists /\ Len(stored) \in Nat /\ DOMAIN stored = 1..Len(stored)
      /\ DOMAIN list = 1..Len(list) /\ Len(list) \in Nat
      /\ DOMAIN local = 1..Len(local) /\ Len(local) \in Nat
  BY ListTyped DEF IsMerged
<1> SUFFICES ASSUME NEW i \in DOMAIN list, NEW j \in DOMAIN list, i < j,
                    ~MisnamedIn(list[i], ss), ~MisnamedIn(list[j], ss)
             PROVE  /\ list[i].id # list[j].id
                    /\ list[i].role = "user" /\ list[j].role = "user" =>
                          list[i].id[2] # list[j].id[2]
  BY DEF Apart
<1>1. CASE j \in DOMAIN stored
  <2>1. i \in DOMAIN stored
    BY <1>0, <1>1
  <2>2. list[i] = stored[i] /\ list[j] = stored[j]
    BY <1>0, <1>1, <2>1 DEF IsMerged
  <2> QED BY <1>1, <2>1, <2>2 DEF Apart
<1>2. CASE i \in DOMAIN stored /\ j \notin DOMAIN stored
  <2>1. list[i] = stored[i] /\ IsNotAmong(list[j], stored) /\ list[j] \in Messages
    BY <1>0, <1>2, FromEither, ListTyped
  <2>2. Right(list, ss)
    BY RightMerged
  <2>3. /\ list[j].role = IF list[j].id[1] \in {"u", "msg"} THEN "user" ELSE "assistant"
        /\ list[j].id[1] = "u" => list[j].text = Typed(ss[list[j].id[2]].text)
    BY <2>2 DEF Right
  <2> QED BY <1>2, <2>1, <2>3, NotAmongApart
<1>3. CASE i \notin DOMAIN stored /\ j \notin DOMAIN stored
  <2>1. /\ i \in (Len(stored) + 1)..Len(list) /\ j \in (Len(stored) + 1)..Len(list)
        /\ g[i] \in DOMAIN local /\ list[i] = local[g[i]]
        /\ g[j] \in DOMAIN local /\ list[j] = local[g[j]]
    BY <1>3, FromEither
  <2>2. g[i] < g[j]
    BY <2>1 DEF IsMerged
  <2> QED BY <2>1, <2>2 DEF Apart
<1> QED BY <1>1, <1>2, <1>3

LEMMA IdsMerged ==
    ASSUME NEW stored \in Lists, NEW local \in Lists, NEW list, NEW g,
           IsMerged(list, stored, local, g)
    PROVE  Ids(list) \subseteq Ids(stored) \cup Ids(local)
BY FromEither DEF Ids

LEMMA QuestionUnnamedMerged ==
    ASSUME NEW ss, NEW n \in Sends, NEW stored \in Lists, NEW local \in Lists,
           NEW list, NEW g,
           IsMerged(list, stored, local, g), ~HasLocal(stored), Right(local, ss),
           \A i \in DOMAIN stored : stored[i].id = <<"msg", n>> =>
               stored[i].role = "user" /\ stored[i].text = Typed(ss[n].text),
           QuestionUnnamed(local, n, ss)
    PROVE  QuestionUnnamed(list, n, ss)
<1>0. /\ list \in Lists /\ Len(stored) \in Nat /\ DOMAIN stored = 1..Len(stored)
      /\ DOMAIN list = 1..Len(list) /\ Len(list) \in Nat
      /\ DOMAIN local = 1..Len(local) /\ Len(local) \in Nat
  BY ListTyped DEF IsMerged
<1> SUFFICES ASSUME NEW i \in DOMAIN list, NEW j \in DOMAIN list, list[j].id[1] = "u"
             PROVE  /\ list[i].id = <<"msg", n>> => list[j].text # Typed(ss[n].text)
                    /\ list[i].id = <<"u", n>> => j <= i
  BY DEF QuestionUnnamed
<1>1. /\ j \in (Len(stored) + 1)..Len(list) /\ g[j] \in DOMAIN local
      /\ list[j] = local[g[j]] /\ IsNotAmong(list[j], stored)
  BY FromEither DEF HasLocal
<1>2. list[j].role = "user"
  BY <1>1 DEF Right
<1>3. CASE i \in DOMAIN stored
  <2>1. list[i] = stored[i]
    BY <1>0, <1>3 DEF IsMerged
  <2>2. list[i].id[1] # "u"
    BY <1>3, <2>1 DEF HasLocal
  <2> QED BY <1>1, <1>2, <1>3, <2>1, <2>2 DEF IsNotAmong
<1>4. CASE i \notin DOMAIN stored
  <2>1. i \in (Len(stored) + 1)..Len(list) /\ g[i] \in DOMAIN local /\ list[i] = local[g[i]]
    BY <1>4, FromEither
  <2>2. /\ list[i].id = <<"msg", n>> => list[j].text # Typed(ss[n].text)
        /\ list[i].id = <<"u", n>> => g[j] <= g[i]
    BY <1>1, <2>1 DEF QuestionUnnamed
  <2>3. i < j => g[i] < g[j]
    BY <1>1, <2>1 DEF IsMerged
  <2>4. i \in Nat /\ j \in Nat /\ g[i] \in Nat /\ g[j] \in Nat
    BY <1>0, <1>1, <2>1
  <2> QED BY <2>2, <2>3, <2>4
<1> QED BY <1>3, <1>4

\* k is l with other texts of answers, and <<to, n>> for the id <<"a", n>>.
Redone(l, k, n, to) ==
    /\ l \in Lists /\ n \in Sends /\ to \in {"a", "ai", "f"}
    /\ k \in Lists /\ Len(k) = Len(l)
    /\ \A i \in DOMAIN l :
          /\ k[i].role = l[i].role /\ (l[i].role = "user" => k[i].text = l[i].text)
          /\ k[i].id = IF l[i].id = <<"a", n>> THEN <<to, n>> ELSE l[i].id

LEMMA RedoneIds ==
    ASSUME NEW l, NEW k, NEW n, NEW to,
           Redone(l, k, n, to)
    PROVE  /\ DOMAIN k = DOMAIN l
           /\ to # "a" => <<"a", n>> \notin Ids(k)
           /\ <<"a", n>> \notin Ids(l) => Ids(k) = Ids(l)
           /\ to = "a" => Ids(k) = Ids(l)
           /\ Ids(k) \subseteq Ids(l) \cup {<<to, n>>}
           /\ \A i \in DOMAIN l : \/ k[i].id = l[i].id
                                  \/ l[i].id = <<"a", n>> /\ k[i].id = <<to, n>>
<1>1. DOMAIN k = DOMAIN l
  BY ListTyped DEF Redone
<1>2. \A i \in DOMAIN l : k[i].id = IF l[i].id = <<"a", n>> THEN <<to, n>> ELSE l[i].id
  BY DEF Redone
<1>3. to # "a" => <<to, n>> # <<"a", n>>
  BY DEF Redone
<1> HIDE DEF Redone
<1>4. to # "a" => <<"a", n>> \notin Ids(k)
  BY <1>1, <1>2, <1>3 DEF Ids
<1>5. <<"a", n>> \notin Ids(l) => Ids(k) = Ids(l)
  BY <1>1, <1>2 DEF Ids
<1>6. to = "a" => Ids(k) = Ids(l)
  BY <1>1, <1>2 DEF Ids
<1>7. Ids(k) \subseteq Ids(l) \cup {<<to, n>>}
  BY <1>1, <1>2 DEF Ids
<1> QED BY <1>1, <1>2, <1>4, <1>5, <1>6, <1>7

LEMMA RightRedone ==
    ASSUME NEW ss, NEW l, NEW k, NEW n, NEW to,
           Redone(l, k, n, to), Right(l, ss)
    PROVE  /\ Right(k, ss)
           /\ \A i \in DOMAIN l : /\ k[i].id[2] = l[i].id[2]
                                  /\ l[i].role = "user" => k[i].id = l[i].id
                                  /\ l[i].role = "user" <=> l[i].id[1] \in {"u", "msg"}
                                  /\ MisnamedIn(k[i], ss) => MisnamedIn(l[i], ss)
                                  /\ k[i].id[1] = "u" <=> l[i].id[1] = "u"
<1>1. \A i \in DOMAIN l :
         /\ l[i].role = IF l[i].id[1] \in {"u", "msg"} THEN "user" ELSE "assistant"
         /\ ss[l[i].id[2]].at \notin Fresh
         /\ l[i].id[1] = "u" => l[i].text = Typed(ss[l[i].id[2]].text)
  BY DEF Right
<1>2. DOMAIN k = DOMAIN l
  BY RedoneIds
<1>3. ASSUME NEW i \in DOMAIN l
      PROVE  /\ k[i].role = l[i].role /\ (l[i].role = "user" => k[i].text = l[i].text)
             /\ \/ k[i].id = l[i].id
                \/ l[i].id = <<"a", n>> /\ k[i].id = <<to, n>>
  BY RedoneIds DEF Redone
<1>4. ASSUME NEW i \in DOMAIN l
      PROVE  /\ k[i].id[2] = l[i].id[2]
             /\ l[i].role = "user" => k[i].id = l[i].id
             /\ l[i].role = "user" <=> l[i].id[1] \in {"u", "msg"}
             /\ k[i].id[1] \in {"u", "msg"} <=> l[i].id[1] \in {"u", "msg"}
             /\ k[i].id[1] = "u" <=> l[i].id[1] = "u"
             /\ k[i].id[1] = "msg" <=> l[i].id[1] = "msg"
  <2>1. CASE k[i].id = l[i].id
    BY <1>1, <2>1
  <2>2. CASE l[i].id = <<"a", n>> /\ k[i].id = <<to, n>>
    <3>1. to \in {"a", "ai", "f"}
      BY DEF Redone
    <3> QED BY <1>1, <2>2, <3>1
  <2> QED BY <1>3, <2>1, <2>2
<1>5. ASSUME NEW i \in DOMAIN l
      PROVE  /\ k[i].role = IF k[i].id[1] \in {"u", "msg"} THEN "user" ELSE "assistant"
             /\ ss[k[i].id[2]].at \notin Fresh
             /\ k[i].id[1] = "u" => k[i].text = Typed(ss[k[i].id[2]].text)
             /\ MisnamedIn(k[i], ss) => MisnamedIn(l[i], ss)
  BY <1>1, <1>3, <1>4 DEF MisnamedIn
<1> QED BY <1>2, <1>4, <1>5 DEF Right

LEMMA ApartRedone ==
    ASSUME NEW ss, NEW l, NEW k, NEW n, NEW to,
           Redone(l, k, n, to), Right(l, ss), Apart(l, ss),
           to = "a" \/ <<"a", n>> \notin Ids(l) \/ <<to, n>> \notin Ids(l)
    PROVE  Apart(k, ss)
<1>1. DOMAIN k = DOMAIN l /\ DOMAIN l = 1..Len(l)
  BY RedoneIds, ListTyped DEF Redone
<1>2. \A i \in DOMAIN l : k[i].role = l[i].role
  BY DEF Redone
<1> SUFFICES ASSUME NEW i \in DOMAIN l, NEW j \in DOMAIN l, i < j,
                    ~MisnamedIn(k[i], ss), ~MisnamedIn(k[j], ss)
             PROVE  /\ k[i].id # k[j].id
                    /\ k[i].role = "user" /\ k[j].role = "user" => k[i].id[2] # k[j].id[2]
  BY <1>1 DEF Apart
<1>3. \A a \in DOMAIN l : /\ k[a].id[2] = l[a].id[2]
                          /\ l[a].role = "user" => k[a].id = l[a].id
                          /\ l[a].role = "user" <=> l[a].id[1] \in {"u", "msg"}
  BY RightRedone
<1>4. ASSUME NEW a \in DOMAIN l, ~MisnamedIn(k[a], ss) PROVE ~MisnamedIn(l[a], ss)
  <2>1. CASE l[a].role = "user"
    BY <1>3, <1>4, <2>1 DEF MisnamedIn, Redone
  <2>2. CASE l[a].role # "user"
    BY <1>3, <2>2 DEF MisnamedIn
  <2> QED BY <2>1, <2>2
<1>5. /\ l[i].id # l[j].id
      /\ l[i].role = "user" /\ l[j].role = "user" => l[i].id[2] # l[j].id[2]
  BY <1>4 DEF Apart
<1>6. k[i].id # k[j].id
  <2>1. \A a \in DOMAIN l : \/ k[a].id = l[a].id
                            \/ l[a].id = <<"a", n>> /\ k[a].id = <<to, n>>
    BY DEF Redone
  <2>2. \A a \in DOMAIN l : l[a].id \in Ids(l)
    BY DEF Ids
  <2>3. to = "a" => \A a \in DOMAIN l : k[a].id = l[a].id
    BY <2>1
  <2> QED BY <1>5, <2>1, <2>2, <2>3
<1> QED BY <1>2, <1>3, <1>5, <1>6

LEMMA QuestionUnnamedRedone ==
    ASSUME NEW ss, NEW l, NEW k, NEW n, NEW to,
           Redone(l, k, n, to), Right(l, ss), NEW m \in Sends, QuestionUnnamed(l, m, ss)
    PROVE  QuestionUnnamed(k, m, ss)
<1>1. DOMAIN k = DOMAIN l
  BY RedoneIds
<1>2. \A i \in DOMAIN l : /\ k[i].id[1] = "u" <=> l[i].id[1] = "u"
                          /\ l[i].id[1] = "u" => l[i].role = "user"
  BY RightRedone
<1>3. \A i \in DOMAIN l : l[i].role = "user" => k[i].text = l[i].text
  BY DEF Redone
<1>4. \A i \in DOMAIN l : \/ k[i].id = l[i].id
                          \/ l[i].id = <<"a", n>> /\ k[i].id = <<to, n>>
  BY DEF Redone
<1>5. \A i \in DOMAIN l : \A kind \in {"u", "msg"} :
         k[i].id = <<kind, m>> => l[i].id = <<kind, m>>
  <2>1. to \in {"a", "ai", "f"}
    BY DEF Redone
  <2>2. \A kind \in {"u", "msg"} : <<kind, m>> # <<to, n>>
    BY <2>1
  <2> QED BY <1>4, <2>2
<1> SUFFICES ASSUME NEW i \in DOMAIN l, NEW j \in DOMAIN l, k[j].id[1] = "u"
             PROVE  /\ k[i].id = <<"msg", m>> => k[j].text # Typed(ss[m].text)
                    /\ k[i].id = <<"u", m>> => j <= i
  BY <1>1 DEF QuestionUnnamed
<1>6. l[j].id[1] = "u" /\ k[j].text = l[j].text
  BY <1>2, <1>3
<1>7. /\ l[i].id = <<"msg", m>> => l[j].text # Typed(ss[m].text)
      /\ l[i].id = <<"u", m>> => j <= i
  BY <1>6 DEF QuestionUnnamed
<1> QED BY <1>5, <1>6, <1>7

\* A set of numbers up to n has a greatest.
LEMMA GreatestOf ==
    ASSUME NEW n \in Nat, NEW S \in SUBSET (1..n), S # {}
    PROVE  \E i \in S : \A j \in S : j <= i
<1> DEFINE P == {k \in Nat : \A T \in SUBSET (1..k) :
                               T # {} => \E i \in T : \A j \in T : j <= i}
<1>1. 0 \in P
  <2>1. 1..0 = {}
    OBVIOUS
  <2> QED BY <2>1
<1>2. ASSUME NEW k \in Nat, k \in P PROVE k + 1 \in P
  <2> SUFFICES ASSUME NEW T \in SUBSET (1..(k + 1)), T # {}
               PROVE  \E i \in T : \A j \in T : j <= i
    OBVIOUS
  <2>1. CASE k + 1 \in T
    BY <2>1
  <2>2. CASE k + 1 \notin T
    <3>1. T \in SUBSET (1..k)
      BY <2>2
    <3> QED BY <1>2, <3>1
  <2> QED BY <2>1, <2>2
<1> HIDE DEF P
<1>3. n \in P
  BY <1>1, <1>2, SetInduction
<1> QED BY <1>3 DEF P

\* k is l, the last of whose local questions has got the number n.
Numbered(l, k, last, n) ==
    /\ l \in Lists /\ n \in Sends /\ last \in DOMAIN l /\ l[last].id[1] = "u"
    /\ \A j \in DOMAIN l : l[j].id[1] = "u" => j <= last
    /\ k = [l EXCEPT ![last].id = <<"msg", n>>]

LEMMA NumberedIs ==
    ASSUME NEW l, NEW k, NEW last, NEW n, Numbered(l, k, last, n)
    PROVE  /\ l \in Lists /\ k \in Lists /\ DOMAIN k = DOMAIN l /\ last \in DOMAIN l
           /\ k[last].id = <<"msg", n>> /\ k[last].text = l[last].text
           /\ k[last].role = l[last].role
           /\ \A i \in DOMAIN l : i # last => k[i] = l[i]
<1>1. /\ l \in Lists /\ n \in Sends /\ last \in DOMAIN l
      /\ k = [l EXCEPT ![last] = [l[last] EXCEPT !.id = <<"msg", n>>]]
  BY DEF Numbered
<1>2. l[last] \in Messages
  BY <1>1, ListTyped
<1> DEFINE m == [l[last] EXCEPT !.id = <<"msg", n>>]
<1>3. <<"msg", n>> \in MessageIds
  BY <1>1 DEF MessageIds
<1>4. /\ m \in Messages /\ m.id = <<"msg", n>> /\ m.text = l[last].text
      /\ m.role = l[last].role
  BY <1>2, <1>3 DEF Messages
<1> HIDE DEF m
<1>5. k = [l EXCEPT ![last] = m]
  BY <1>1 DEF m
<1>6. /\ k \in Lists /\ DOMAIN k = DOMAIN l /\ k[last] = m
      /\ \A i \in DOMAIN l : i # last => k[i] = l[i]
  BY <1>1, <1>4, <1>5 DEF Lists
<1> QED BY <1>1, <1>4, <1>6

LEMMA RightNumbered ==
    ASSUME NEW ss, NEW l, NEW k, NEW last, NEW n, Numbered(l, k, last, n),
           Right(l, ss), ss[n].at \notin Fresh
    PROVE  Right(k, ss)
<1>1. /\ DOMAIN k = DOMAIN l /\ k[last].id = <<"msg", n>> /\ k[last].role = l[last].role
      /\ \A i \in DOMAIN l : i # last => k[i] = l[i]
  BY NumberedIs
<1>2. last \in DOMAIN l /\ l[last].id[1] = "u"
  BY DEF Numbered
<1>3. l[last].role = "user"
  BY <1>2 DEF Right
<1> SUFFICES ASSUME NEW i \in DOMAIN l
             PROVE  /\ k[i].role = IF k[i].id[1] \in {"u", "msg"} THEN "user"
                                   ELSE "assistant"
                    /\ ss[k[i].id[2]].at \notin Fresh
                    /\ k[i].id[1] = "u" => k[i].text = Typed(ss[k[i].id[2]].text)
  BY <1>1 DEF Right
<1>4. CASE i = last
  BY <1>1, <1>3, <1>4
<1>5. CASE i # last
  BY <1>1, <1>5 DEF Right
<1> QED BY <1>4, <1>5

LEMMA ApartNumbered ==
    ASSUME NEW ss, NEW l, NEW k, NEW last, NEW n, Numbered(l, k, last, n),
           Right(l, ss), Apart(l, ss), QuestionUnnamed(l, n, ss)
    PROVE  Apart(k, ss)
<1>1. /\ l \in Lists /\ DOMAIN k = DOMAIN l /\ k[last].id = <<"msg", n>>
      /\ k[last].text = l[last].text /\ k[last].role = l[last].role
      /\ \A i \in DOMAIN l : i # last => k[i] = l[i]
  BY NumberedIs
<1>2. /\ last \in DOMAIN l /\ l[last].id[1] = "u"
      /\ \A j \in DOMAIN l : l[j].id[1] = "u" => j <= last
  BY DEF Numbered
<1>3. l[last].role = "user" /\ l[last].text = Typed(ss[l[last].id[2]].text)
  BY <1>2 DEF Right
<1>4. DOMAIN l \subseteq Nat
  BY <1>1, ListTyped
<1>5. ~MisnamedIn(l[last], ss)
  BY <1>2 DEF MisnamedIn
<1>6. \A i \in DOMAIN l : /\ l[i].id = <<"msg", n>> => l[last].text # Typed(ss[n].text)
                          /\ l[i].id = <<"u", n>> => last <= i
  BY <1>2 DEF QuestionUnnamed
\* No other question of number n is beside the one that takes it.
<1>7. ASSUME NEW i \in DOMAIN l, i # last, ~MisnamedIn(l[i], ss), ~MisnamedIn(k[last], ss)
      PROVE  /\ l[i].id # k[last].id
             /\ l[i].role = "user" => l[i].id[2] # n
  <2>1. k[last].text = Typed(ss[n].text)
    BY <1>1, <1>7 DEF MisnamedIn
  <2>2. l[i].id # <<"msg", n>>
    BY <1>1, <1>6, <2>1
  <2>3. ASSUME l[i].role = "user", l[i].id[2] = n PROVE FALSE
    <3>1. l[i].id[1] \in {"u", "msg"}
      BY <2>3 DEF Right
    <3>2. l[i].id = <<l[i].id[1], l[i].id[2]>>
      BY <1>1, ListTyped
    <3>3. l[i].id = <<"u", n>>
      BY <2>2, <2>3, <3>1, <3>2
    <3>4. i <= last /\ last <= i
      BY <1>2, <1>6, <3>3
    <3> QED BY <1>2, <1>4, <1>7, <3>4
  <2> QED BY <1>1, <2>2, <2>3
<1> SUFFICES ASSUME NEW i \in DOMAIN l, NEW j \in DOMAIN l, i < j,
                    ~MisnamedIn(k[i], ss), ~MisnamedIn(k[j], ss)
             PROVE  /\ k[i].id # k[j].id
                    /\ k[i].role = "user" /\ k[j].role = "user" => k[i].id[2] # k[j].id[2]
  BY <1>1 DEF Apart
<1>8. i # j
  BY <1>4
<1>9. k[last].id[2] = n
  BY <1>1
<1>10. CASE i = last
  <2>1. k[j] = l[j]
    BY <1>1, <1>8, <1>10
  <2> QED BY <1>7, <1>8, <1>9, <1>10, <2>1
<1>11. CASE j = last
  <2>1. k[i] = l[i]
    BY <1>1, <1>8, <1>11
  <2> QED BY <1>7, <1>8, <1>9, <1>11, <2>1
<1>12. CASE i # last /\ j # last
  <2>1. k[i] = l[i] /\ k[j] = l[j]
    BY <1>1, <1>12
  <2> QED BY <2>1 DEF Apart
<1> QED BY <1>10, <1>11, <1>12

LEMMA IdsNumbered ==
    ASSUME NEW l, NEW k, NEW last, NEW n, Numbered(l, k, last, n), NEW id,
           id[1] \notin {"u", "msg"}
    PROVE  id \in Ids(k) <=> id \in Ids(l)
<1>1. /\ DOMAIN k = DOMAIN l /\ k[last].id = <<"msg", n>>
      /\ \A i \in DOMAIN l : i # last => k[i] = l[i]
  BY NumberedIs
<1>2. last \in DOMAIN l /\ l[last].id[1] = "u"
  BY DEF Numbered
<1>3. k[last].id # id /\ l[last].id # id
  BY <1>1, <1>2
<1>4. \A i \in DOMAIN l : k[i].id = id <=> l[i].id = id
  BY <1>1, <1>3
<1> QED BY <1>1, <1>4 DEF Ids

\* What was sent remains what it was.
Onward(ss, ss2) ==
    \A n \in Sends : ss[n].at \notin Fresh =>
        ss2[n].at \notin Fresh /\ ss2[n].text = ss[n].text

RunsOnward(rr, rr2) ==
    \A n \in Sends :
        /\ rr[n].at \notin {"none", "lost"} => rr2[n].at \notin {"none", "lost"}
        /\ rr[n].at \in {"saved", "closed"} => rr2[n].at \in {"saved", "closed"}

LEMMA RightOnward ==
    ASSUME NEW ss, NEW ss2, Onward(ss, ss2), NEW l \in Lists, Right(l, ss)
    PROVE  Right(l, ss2)
<1>1. \A i \in DOMAIN l : l[i].id[2] \in Sends
  BY ListTyped
<1> QED BY <1>1 DEF Onward, Right

LEMMA ApartOnward ==
    ASSUME NEW ss, NEW ss2, Onward(ss, ss2), NEW l \in Lists, Right(l, ss), Apart(l, ss)
    PROVE  Apart(l, ss2)
<1>1. \A i \in DOMAIN l : l[i].id[2] \in Sends
  BY ListTyped
<1>2. \A i \in DOMAIN l : MisnamedIn(l[i], ss2) <=> MisnamedIn(l[i], ss)
  BY <1>1 DEF Onward, Right, MisnamedIn
<1> QED BY <1>2 DEF Apart

LEMMA StoredOnward ==
    ASSUME NEW ss, NEW ss2, Onward(ss, ss2), NEW rr, NEW rr2, RunsOnward(rr, rr2),
           NEW l \in Lists, Right(l, ss), Stored(l, ss, rr)
    PROVE  Stored(l, ss2, rr2)
<1>1. \A i \in DOMAIN l : l[i].id[2] \in Sends
  BY ListTyped
<1>2. ASSUME NEW i \in DOMAIN l
      PROVE  LET n == l[i].id[2] IN
             \/ /\ l[i].id[1] = "msg" /\ rr2[n].at \notin {"none", "lost"}
                /\ l[i].text = Typed(ss2[n].text)
             \/ l[i].id[1] = "ai" /\ rr2[n].at \in {"saved", "closed"}
  <2> DEFINE n == l[i].id[2]
  <2>1. n \in Sends /\ ss2[n].text = ss[n].text
    BY <1>1 DEF Onward, Right
  <2>2. \/ /\ l[i].id[1] = "msg" /\ rr[n].at \notin {"none", "lost"}
           /\ l[i].text = Typed(ss[n].text)
        \/ l[i].id[1] = "ai" /\ rr[n].at \in {"saved", "closed"}
    BY DEF Stored
  <2> QED BY <2>1, <2>2 DEF RunsOnward
<1>3. \A i, j \in DOMAIN l : l[i].id = l[j].id => i = j
  BY DEF Stored
<1> QED BY <1>2, <1>3 DEF Stored

\* Sends and what a list has of them.
LEMMA StoredIsRight ==
    ASSUME NEW ss, NEW rr, NEW l \in Lists, Right(l, ss), Stored(l, ss, rr)
    PROVE  /\ Apart(l, ss) /\ ~HasLocal(l)
           /\ \A i \in DOMAIN l : \A n \in Sends : l[i].id = <<"msg", n>> =>
                 l[i].role = "user" /\ l[i].text = Typed(ss[n].text)
<1>1. DOMAIN l \subseteq Nat /\ \A i \in DOMAIN l : l[i].id = <<l[i].id[1], l[i].id[2]>>
  BY ListTyped
<1>2. \A i \in DOMAIN l : l[i].id[1] \in {"msg", "ai"}
  BY DEF Stored
<1>3. ~HasLocal(l)
  BY <1>2 DEF HasLocal
<1>4. \A i \in DOMAIN l : /\ l[i].role = "user" => l[i].id[1] = "msg"
                          /\ l[i].id[1] = "msg" => l[i].role = "user"
  BY <1>2 DEF Right
<1>5. \A i \in DOMAIN l : l[i].id[1] = "msg" => l[i].text = Typed(ss[l[i].id[2]].text)
  BY DEF Stored
<1>6. \A i, j \in DOMAIN l : l[i].id = l[j].id => i = j
  BY DEF Stored
<1>7. Apart(l, ss)
  <2> SUFFICES ASSUME NEW i \in DOMAIN l, NEW j \in DOMAIN l, i < j
               PROVE  /\ l[i].id # l[j].id
                      /\ l[i].role = "user" /\ l[j].role = "user" => l[i].id[2] # l[j].id[2]
    BY DEF Apart
  <2>1. i # j
    BY <1>1
  <2>2. l[i].id # l[j].id
    BY <1>6, <2>1
  <2> QED BY <1>1, <1>4, <2>2
<1>8. ASSUME NEW i \in DOMAIN l, NEW n \in Sends, l[i].id = <<"msg", n>>
      PROVE  l[i].role = "user" /\ l[i].text = Typed(ss[n].text)
  <2>1. l[i].id[1] = "msg" /\ l[i].id[2] = n
    BY <1>8
  <2> QED BY <1>4, <1>5, <2>1
<1> QED BY <1>3, <1>7, <1>8

\* k is l and the message and the empty answer of send n.
Begun(l, k, n, text) ==
    /\ l \in Lists /\ n \in Sends /\ text \in Nat
    /\ k = l \o <<Message(<<"u", n>>, "user", Typed(text)),
                  Message(<<"a", n>>, "assistant", <<>>)>>

LEMMA BegunIs ==
    ASSUME NEW l, NEW k, NEW n, NEW text, Begun(l, k, n, text)
    PROVE  /\ k \in Lists /\ Len(l) \in Nat /\ DOMAIN l = 1..Len(l)
           /\ DOMAIN k = 1..(Len(l) + 2)
           /\ \A i \in DOMAIN l : k[i] = l[i]
           /\ k[Len(l) + 1] = Message(<<"u", n>>, "user", Typed(text))
           /\ k[Len(l) + 2] = Message(<<"a", n>>, "assistant", <<>>)
<1> DEFINE m == Message(<<"u", n>>, "user", Typed(text))
           a == Message(<<"a", n>>, "assistant", <<>>)
<1>1. l \in Lists /\ n \in Sends /\ text \in Nat /\ k = l \o <<m, a>>
  BY DEF Begun
<1>2. <<"u", n>> \in MessageIds /\ <<"a", n>> \in MessageIds
  BY <1>1 DEF MessageIds
<1>3. Typed(text) \in Texts /\ <<>> \in Texts
  BY <1>1 DEF Typed, Texts
<1>4. m \in Messages /\ a \in Messages
  BY <1>2, <1>3 DEF Message, Messages
<1> HIDE DEF m, a
<1>5. Len(l) \in Nat /\ DOMAIN l = 1..Len(l) /\ l \in Seq(Messages)
  BY <1>1, ListTyped DEF Lists
<1>6. <<m, a>> \in Seq(Messages) /\ Len(<<m, a>>) = 2
  BY <1>4
<1>7. /\ k \in Seq(Messages) /\ Len(k) = Len(l) + 2
      /\ \A i \in 1..Len(l) : k[i] = l[i]
      /\ k[Len(l) + 1] = m /\ k[Len(l) + 2] = a
  BY <1>1, <1>4, <1>5
<1>8. DOMAIN k = 1..(Len(l) + 2)
  BY <1>7
<1> QED BY <1>5, <1>7, <1>8 DEF Lists, m, a

LEMMA BegunKeeps ==
    ASSUME NEW ss, NEW ss2, Onward(ss, ss2), NEW l, NEW k, NEW n, NEW text,
           Begun(l, k, n, text), Right(l, ss), Apart(l, ss),
           ss[n].at \in Fresh, ss2[n].at \notin Fresh, ss2[n].text = text
    PROVE  /\ Right(k, ss2) /\ Apart(k, ss2)
           /\ Ids(k) = Ids(l) \cup {<<"u", n>>, <<"a", n>>}
           /\ \A i \in DOMAIN l : l[i].id[2] # n
           /\ AnswerUnnamed(k, n) /\ QuestionUnnamed(k, n, ss2)
<1>1. /\ k \in Lists /\ Len(l) \in Nat /\ DOMAIN l = 1..Len(l)
      /\ DOMAIN k = 1..(Len(l) + 2)
      /\ \A i \in DOMAIN l : k[i] = l[i]
      /\ k[Len(l) + 1] = Message(<<"u", n>>, "user", Typed(text))
      /\ k[Len(l) + 2] = Message(<<"a", n>>, "assistant", <<>>)
  BY BegunIs
<1>2. l \in Lists /\ n \in Sends
  BY DEF Begun
<1> DEFINE b == Len(l) + 1
           c == Len(l) + 2
<1>3. /\ k[b].id = <<"u", n>> /\ k[b].role = "user" /\ k[b].text = Typed(text)
      /\ k[c].id = <<"a", n>> /\ k[c].role = "assistant"
  BY <1>1 DEF Message
<1>4. /\ \A i \in DOMAIN k : i \in DOMAIN l \/ i = b \/ i = c
      /\ b \in DOMAIN k /\ c \in DOMAIN k /\ DOMAIN l \subseteq DOMAIN k
      /\ \A i \in DOMAIN l : i < b /\ i < c
      /\ b < c /\ b \in Nat /\ c \in Nat
  BY <1>1
<1> HIDE DEF b, c
<1>5. \A i \in DOMAIN l : ss[l[i].id[2]].at \notin Fresh /\ l[i].id[2] # n
  BY DEF Right
<1>6. Right(l, ss2) /\ Apart(l, ss2)
  BY <1>2, RightOnward, ApartOnward
<1>7. Right(k, ss2)
  <2> SUFFICES ASSUME NEW i \in DOMAIN k
               PROVE  /\ k[i].role = IF k[i].id[1] \in {"u", "msg"} THEN "user"
                                     ELSE "assistant"
                      /\ ss2[k[i].id[2]].at \notin Fresh
                      /\ k[i].id[1] = "u" => k[i].text = Typed(ss2[k[i].id[2]].text)
    BY DEF Right
  <2>1. CASE i \in DOMAIN l
    BY <1>1, <1>6, <2>1 DEF Right
  <2>2. CASE i = b
    BY <1>3, <2>2
  <2>3. CASE i = c
    BY <1>3, <2>3
  <2> QED BY <1>4, <2>1, <2>2, <2>3
<1>8. Apart(k, ss2)
  <2> SUFFICES ASSUME NEW i \in DOMAIN k, NEW j \in DOMAIN k, i < j,
                      ~MisnamedIn(k[i], ss2), ~MisnamedIn(k[j], ss2)
               PROVE  /\ k[i].id # k[j].id
                      /\ k[i].role = "user" /\ k[j].role = "user" =>
                            k[i].id[2] # k[j].id[2]
    BY DEF Apart
  <2>0. DOMAIN l \subseteq Nat
    BY <1>1
  <2>1. CASE i \in DOMAIN l /\ j \in DOMAIN l
    BY <1>1, <1>6, <2>1 DEF Apart
  <2>2. CASE i \in DOMAIN l /\ j \notin DOMAIN l
    <3>1. k[i].id[2] # n
      BY <1>1, <1>5, <2>2
    <3>2. k[j].id[2] = n
      BY <1>3, <1>4, <2>2
    <3> QED BY <3>1, <3>2
  <2>3. CASE i \notin DOMAIN l
    <3>1. i = b /\ j = c
      BY <1>4, <2>0, <2>3
    <3> QED BY <1>3, <3>1
  <2> QED BY <2>1, <2>2, <2>3
<1>9. Ids(k) = Ids(l) \cup {<<"u", n>>, <<"a", n>>}
  BY <1>1, <1>3, <1>4 DEF Ids
<1>10. AnswerUnnamed(k, n)
  <2>1. <<"ai", n>> \notin Ids(l)
    BY <1>5 DEF Ids
  <2>2. <<"ai", n>> # <<"u", n>> /\ <<"ai", n>> # <<"a", n>>
    OBVIOUS
  <2> QED BY <1>9, <2>1, <2>2 DEF AnswerUnnamed
<1>11. QuestionUnnamed(k, n, ss2)
  <2> SUFFICES ASSUME NEW i \in DOMAIN k, NEW j \in DOMAIN k, k[j].id[1] = "u"
               PROVE  /\ k[i].id = <<"msg", n>> => k[j].text # Typed(ss2[n].text)
                      /\ k[i].id = <<"u", n>> => j <= i
    BY DEF QuestionUnnamed
  <2>1. k[i].id # <<"msg", n>>
    <3>1. CASE i \in DOMAIN l
      BY <1>1, <1>5, <3>1
    <3>2. CASE i \in {b, c}
      BY <1>3, <3>2
    <3> QED BY <1>4, <3>1, <3>2
  <2>2. k[i].id = <<"u", n>> => i = b
    BY <1>1, <1>3, <1>4, <1>5
  <2>3. j # c
    BY <1>3
  <2>4. j \in DOMAIN l \/ j = b
    BY <1>4, <2>3
  <2>5. j <= b
    <3>1. DOMAIN l \subseteq Nat
      BY <1>1
    <3> QED BY <1>4, <2>4, <3>1
  <2> QED BY <2>1, <2>2, <2>5
<1> QED BY <1>5, <1>7, <1>8, <1>9, <1>10, <1>11

-----------------------------------------------------------------------------
(* The render and its effects.                                             *)

\* p and q differ in their messages and in streamingMsgIdRef at most.
SameBut(p, q) ==
    /\ q.session = p.session /\ q.streaming = p.streaming /\ q.sending = p.sending
    /\ q.skip = p.skip /\ q.abort = p.abort /\ q.content = p.content
    /\ q.buffer = p.buffer /\ q.frame = p.frame /\ q.captured = p.captured
    /\ q.aiId = p.aiId /\ q.userId = p.userId /\ q.error = p.error

\* And q has the messages l and the ref r.
Reshown(p, q, l, r) == q \in Panels /\ SameBut(p, q) /\ q.messages = l /\ q.ref = r

LEMMA WithMessages ==
    ASSUME NEW p \in Panels, NEW l \in Lists
    PROVE  Reshown(p, [p EXCEPT !.messages = l], l, p.ref)
BY DEF Panels, SameBut, Reshown

LEMMA WithMessagesAndRef ==
    ASSUME NEW p \in Panels, NEW l \in Lists, NEW r \in MessageIds
    PROVE  Reshown(p, [p EXCEPT !.messages = l, !.ref = r], l, r)
BY DEF Panels, SameBut, Reshown

\* A message of k is, in another form, that of l at its place.
Follows(m, old) ==
    /\ m.role = old.role
    /\ old.role = "user" => m.text = old.text
    /\ old.role # "user" => m.id[2] = old.id[2]

InPlace(l, k) ==
    /\ DOMAIN l \subseteq DOMAIN k
    /\ \A i \in DOMAIN l : Follows(k[i], l[i])

LEMMA InPlaceTransitive ==
    ASSUME NEW l, NEW k, NEW m, InPlace(l, k), InPlace(k, m)
    PROVE  InPlace(l, m)
BY DEF InPlace, Follows

LEMMA InPlaceSelf == \A l : InPlace(l, l)
BY DEF InPlace, Follows

LEMMA InPlaceRedone ==
    ASSUME NEW ss, NEW l, NEW k, NEW n, NEW to, Redone(l, k, n, to), Right(l, ss)
    PROVE  InPlace(l, k)
<1>1. DOMAIN k = DOMAIN l
  BY RedoneIds
<1>3. \A i \in DOMAIN l : k[i].id[2] = l[i].id[2]
  BY RightRedone
<1>2. \A i \in DOMAIN l : k[i].role = l[i].role /\ (l[i].role = "user" => k[i].text = l[i].text)
  BY DEF Redone
<1> QED BY <1>1, <1>2, <1>3 DEF InPlace, Follows

LEMMA InPlaceNumbered ==
    ASSUME NEW ss, NEW l, NEW k, NEW last, NEW n, Numbered(l, k, last, n), Right(l, ss)
    PROVE  InPlace(l, k)
<1>1. /\ DOMAIN k = DOMAIN l /\ k[last].text = l[last].text /\ k[last].role = l[last].role
      /\ \A i \in DOMAIN l : i # last => k[i] = l[i]
  BY NumberedIs
<1>2. last \in DOMAIN l /\ l[last].id[1] = "u"
  BY DEF Numbered
<1>3. l[last].role = "user"
  BY <1>2 DEF Right
<1> QED BY <1>1, <1>3 DEF InPlace, Follows

LEMMA EachTyped ==
    ASSUME NEW l \in Lists, NEW k, k = [i \in DOMAIN l |-> k[i]],
           \A i \in DOMAIN l : k[i] \in Messages
    PROVE  k \in Lists /\ Len(k) = Len(l)
<1>1. Len(l) \in Nat /\ DOMAIN l = 1..Len(l)
  BY ListTyped
<1>2. k \in [1..Len(l) -> Messages]
  BY <1>1
<1> QED BY <1>1, <1>2 DEF Lists

\* A list whose messages are replaced each by one of its id and role.
LEMMA RedoneEach ==
    ASSUME NEW l \in Lists, NEW n \in Sends, NEW to \in {"a", "ai", "f"}, NEW k,
           k = [i \in DOMAIN l |-> k[i]],
           \A i \in DOMAIN l :
              /\ k[i] \in Messages
              /\ k[i].role = l[i].role /\ (l[i].role = "user" => k[i].text = l[i].text)
              /\ k[i].id = IF l[i].id = <<"a", n>> THEN <<to, n>> ELSE l[i].id
    PROVE  Redone(l, k, n, to)
<1>1. k \in Lists /\ Len(k) = Len(l)
  BY EachTyped
<1> QED BY <1>1 DEF Redone

\* k is l, with other texts of answers.
Rewritten(l, k) == k \in Lists /\ \A n \in Sends : Redone(l, k, n, "a")

LEMMA RewrittenEach ==
    ASSUME NEW l \in Lists, NEW k, k = [i \in DOMAIN l |-> k[i]],
           \A i \in DOMAIN l :
              /\ k[i] \in Messages /\ k[i].id = l[i].id
              /\ k[i].role = l[i].role /\ (l[i].role = "user" => k[i].text = l[i].text)
    PROVE  Rewritten(l, k)
<1>1. k \in Lists
  BY EachTyped
<1>2. ASSUME NEW n \in Sends PROVE Redone(l, k, n, "a")
  BY RedoneEach
<1> QED BY <1>1, <1>2 DEF Rewritten

\* m is old with another id or another text.
Reworded(m, old, id, text) ==
    m \in Messages /\ m.id = id /\ m.role = old.role /\ m.text = text

LEMMA Retexted ==
    ASSUME NEW m \in Messages, NEW text \in Texts
    PROVE  Reworded([m EXCEPT !.text = text], m, m.id, text)
BY DEF Messages, Reworded

LEMMA Renumbered ==
    ASSUME NEW m \in Messages, NEW id \in MessageIds
    PROVE  Reworded([m EXCEPT !.id = id], m, id, m.text)
BY DEF Messages, Reworded

LEMMA RewrittenSelf ==
    ASSUME NEW l \in Lists
    PROVE  Rewritten(l, l)
BY DEF Redone, Rewritten

LEMMA RenamedAnswer ==
    ASSUME NEW l \in Lists, NEW n \in Sends
    PROVE  Redone(l, Renamed(l, <<"a", n>>, <<"ai", n>>), n, "ai")
<1> DEFINE k == Renamed(l, <<"a", n>>, <<"ai", n>>)
<1>1. <<"ai", n>> \in MessageIds
  BY DEF MessageIds
<1>2. /\ k = [i \in DOMAIN l |-> k[i]]
      /\ \A i \in DOMAIN l : k[i] = IF l[i].id = <<"a", n>>
                                    THEN [l[i] EXCEPT !.id = <<"ai", n>>] ELSE l[i]
  BY DEF Renamed
<1> HIDE DEF k
<1>3. ASSUME NEW i \in DOMAIN l
      PROVE  /\ k[i] \in Messages
             /\ k[i].role = l[i].role /\ (l[i].role = "user" => k[i].text = l[i].text)
             /\ k[i].id = IF l[i].id = <<"a", n>> THEN <<"ai", n>> ELSE l[i].id
  <2>1. l[i] \in Messages
    BY ListTyped
  <2>2. Reworded([l[i] EXCEPT !.id = <<"ai", n>>], l[i], <<"ai", n>>, l[i].text)
    BY <1>1, <2>1, Renumbered
  <2>3. k[i] = IF l[i].id = <<"a", n>> THEN [l[i] EXCEPT !.id = <<"ai", n>>] ELSE l[i]
    BY <1>2
  <2> QED BY <2>1, <2>2, <2>3 DEF Reworded
<1>4. Redone(l, k, n, "ai")
  BY <1>2, <1>3, RedoneEach
<1> QED BY <1>4 DEF k

LEMMA AnswerIdIs ==
    ASSUME NEW p \in Panels
    PROVE  /\ p.aiId = 0 => AnswerIdEffect(p) = p
           /\ p.ref = <<>> => AnswerIdEffect(p) = p
           /\ \A n \in Sends : p.aiId = n /\ p.ref = <<"a", n>> =>
                 \E k : /\ Reshown(p, AnswerIdEffect(p), k, <<"ai", n>>)
                        /\ Redone(p.messages, k, n, "ai")
<1>1. p.aiId = 0 \/ p.ref = <<>> => AnswerIdEffect(p) = p
  BY DEF AnswerIdEffect
<1>2. ASSUME NEW n \in Sends, p.aiId = n, p.ref = <<"a", n>>
      PROVE  \E k : /\ Reshown(p, AnswerIdEffect(p), k, <<"ai", n>>)
                    /\ Redone(p.messages, k, n, "ai")
  <2> DEFINE k == Renamed(p.messages, <<"a", n>>, <<"ai", n>>)
  <2>1. p.messages \in Lists /\ n # 0 /\ <<"a", n>> # <<>>
    BY DEF Panels, Sends
  <2>2. AnswerIdEffect(p) = [p EXCEPT !.messages = k, !.ref = <<"ai", n>>]
    BY <1>2, <2>1 DEF AnswerIdEffect
  <2>3. Redone(p.messages, k, n, "ai")
    BY <2>1, RenamedAnswer
  <2> HIDE DEF k
  <2>4. k \in Lists /\ <<"ai", n>> \in MessageIds
    BY <2>3 DEF Redone, MessageIds
  <2>5. Reshown(p, AnswerIdEffect(p), k, <<"ai", n>>)
    BY <2>2, <2>4, WithMessagesAndRef
  <2> QED BY <2>3, <2>5
<1> QED BY <1>1, <1>2

LEMMA StreamIs ==
    ASSUME NEW ss, NEW p \in Panels, Right(p.messages, ss),
           p.ref = <<>> \/ p.ref[1] \in {"a", "ai"}
    PROVE  \E k : Reshown(p, StreamEffect(p), k, p.ref) /\ Rewritten(p.messages, k)
<1> DEFINE l == p.messages
           k == [i \in DOMAIN l |-> IF p.ref # <<>> /\ l[i].id = p.ref
                                    THEN [l[i] EXCEPT !.text = p.content] ELSE l[i]]
<1>1. l \in Lists /\ p.content \in Texts
  BY DEF Panels
<1>2. StreamEffect(p) = [p EXCEPT !.messages = k]
  BY DEF StreamEffect
<1>3. \A i \in DOMAIN l : l[i].role = IF l[i].id[1] \in {"u", "msg"} THEN "user"
                                      ELSE "assistant"
  BY DEF Right
<1> HIDE DEF l
<1>4. \A i \in DOMAIN l : k[i] = IF p.ref # <<>> /\ l[i].id = p.ref
                                 THEN [l[i] EXCEPT !.text = p.content] ELSE l[i]
  OBVIOUS
<1>5. k = [i \in DOMAIN l |-> k[i]]
  OBVIOUS
<1> HIDE DEF k
<1>6. ASSUME NEW i \in DOMAIN l
      PROVE  /\ k[i] \in Messages /\ k[i].id = l[i].id
             /\ k[i].role = l[i].role /\ (l[i].role = "user" => k[i].text = l[i].text)
  <2>1. l[i] \in Messages
    BY <1>1, ListTyped
  <2>2. CASE p.ref # <<>> /\ l[i].id = p.ref
    <3>1. l[i].role # "user"
      BY <1>3, <2>2
    <3>2. k[i] = [l[i] EXCEPT !.text = p.content]
      BY <1>4, <2>2
    <3>3. Reworded(k[i], l[i], l[i].id, p.content)
      BY <1>1, <2>1, <3>2, Retexted
    <3> QED BY <3>1, <3>3 DEF Reworded
  <2>3. CASE ~(p.ref # <<>> /\ l[i].id = p.ref)
    BY <1>4, <2>1, <2>3
  <2> QED BY <2>2, <2>3
<1>7. Rewritten(l, k)
  BY <1>1, <1>5, <1>6, RewrittenEach
<1>8. k \in Lists
  BY <1>7 DEF Rewritten
<1>9. Reshown(p, StreamEffect(p), k, p.ref)
  BY <1>2, <1>8, WithMessages
<1> QED BY <1>7, <1>9 DEF l

LEMMA UserIdIs ==
    ASSUME NEW ss, NEW p \in Panels, Right(p.messages, ss)
    PROVE  /\ p.userId = 0 => UserIdEffect(p) = p
           /\ \A n \in Sends : p.userId = n =>
                 \E k : /\ Reshown(p, UserIdEffect(p), k, p.ref)
                        /\ k = p.messages \/ \E last : Numbered(p.messages, k, last, n)
<1>1. p.userId = 0 => UserIdEffect(p) = p
  BY DEF UserIdEffect
<1>2. ASSUME NEW n \in Sends, p.userId = n
      PROVE  \E k : /\ Reshown(p, UserIdEffect(p), k, p.ref)
                    /\ k = p.messages \/ \E last : Numbered(p.messages, k, last, n)
  <2> DEFINE l == p.messages
             local == {i \in DOMAIN l : l[i].role = "user" /\ l[i].id[1] = "u"}
             last == CHOOSE i \in local : \A j \in local : j <= i
             k == [l EXCEPT ![last].id = <<"msg", n>>]
  <2>1. l \in Lists /\ n # 0
    BY DEF Panels, Sends
  <2>2. CASE local = {}
    <3>1. UserIdEffect(p) = p
      BY <2>2 DEF UserIdEffect
    <3>2. Reshown(p, UserIdEffect(p), p.messages, p.ref)
      BY <3>1 DEF SameBut, Reshown
    <3> QED BY <3>2
  <2>3. CASE local # {}
    <3>1. UserIdEffect(p) = [p EXCEPT !.messages = k]
      BY <1>2, <2>1, <2>3 DEF UserIdEffect
    <3>2. Len(l) \in Nat /\ local \in SUBSET (1..Len(l))
      BY <2>1, ListTyped
    <3>3. \E i \in local : \A j \in local : j <= i
      BY <2>3, <3>2, GreatestOf
    <3>4. last \in local /\ \A j \in local : j <= last
      BY <3>3
    <3>5. \A j \in DOMAIN l : l[j].id[1] = "u" => j \in local
      BY DEF Right
    <3>6. last \in DOMAIN l /\ l[last].id[1] = "u"
      BY <3>4
    <3> HIDE DEF last
    <3>7. \A j \in DOMAIN l : l[j].id[1] = "u" => j <= last
      BY <3>4, <3>5
    <3>8. Numbered(l, k, last, n)
      BY <2>1, <3>6, <3>7 DEF Numbered
    <3> HIDE DEF k
    <3>9. k \in Lists
      BY <3>8, NumberedIs
    <3>10. Reshown(p, UserIdEffect(p), k, p.ref)
      BY <3>1, <3>9, WithMessages
    <3> QED BY <3>8, <3>10 DEF l
  <2> QED BY <2>2, <2>3
<1> QED BY <1>1, <1>2

-----------------------------------------------------------------------------
(* From one state of the sends to the next.                                *)

\* A send that is under way was so before, or had not begun.
Moves(ss, ss2) ==
    /\ Onward(ss, ss2)
    /\ \A n \in Sends : ss2[n].at \in Live => ss[n].at \in Live \cup Fresh

LEMMA StoredRightOnward ==
    ASSUME NEW ss, NEW ss2, Moves(ss, ss2), NEW rr, NEW rr2, RunsOnward(rr, rr2),
           NEW l, StoredRight(l, ss, rr)
    PROVE  StoredRight(l, ss2, rr2)
<1>1. l \in Lists /\ Right(l, ss) /\ Stored(l, ss, rr) /\ Onward(ss, ss2)
  BY DEF StoredRight, Moves
<1>2. Right(l, ss2)
  BY <1>1, RightOnward
<1>3. Stored(l, ss2, rr2)
  BY <1>1, StoredOnward
<1> QED BY <1>1, <1>2, <1>3 DEF StoredRight

LEMMA NothingOfFresh ==
    ASSUME NEW ss, NEW l, Right(l, ss), NEW n, ss[n].at \in Fresh
    PROVE  \A id \in Ids(l) : id[2] # n
BY DEF Right, Ids

LEMMA CachedRightOnward ==
    ASSUME NEW ss, NEW ss2, Moves(ss, ss2), NEW l, CachedRight(l, ss)
    PROVE  CachedRight(l, ss2)
<1>1. l \in Lists /\ Right(l, ss) /\ Apart(l, ss) /\ Onward(ss, ss2)
  BY DEF CachedRight, Moves
<1>2. Right(l, ss2) /\ Apart(l, ss2)
  BY <1>1, RightOnward, ApartOnward
<1>3. ASSUME NEW n \in Sends, ss2[n].at \in Live PROVE Settled(l, n)
  <2>1. CASE ss[n].at \in Live
    BY <2>1 DEF CachedRight
  <2>2. CASE ss[n].at \in Fresh
    <3>1. \A id \in Ids(l) : id[2] # n
      BY <1>1, <2>2, NothingOfFresh
    <3> QED BY <3>1 DEF Settled
  <2> QED BY <1>3, <2>1, <2>2 DEF Moves
<1> QED BY <1>1, <1>2, <1>3 DEF CachedRight

LEMMA StoreOnward ==
    ASSUME NEW ss, NEW ss2, Moves(ss, ss2), NEW rr, NEW rr2, RunsOnward(rr, rr2),
           NEW conv, StoreRight(conv, ss, rr)
    PROVE  StoreRight(conv, ss2, rr2)
BY StoredRightOnward DEF StoreRight

LEMMA HistoryOnward ==
    ASSUME NEW ss, NEW ss2, Moves(ss, ss2), NEW rr, NEW rr2, RunsOnward(rr, rr2),
           NEW hist, HistoryRight(hist, ss, rr)
    PROVE  HistoryRight(hist, ss2, rr2)
<1>1. ASSUME NEW s \in ChatSessions
      PROVE  /\ \A list \in hist[s].fetch : StoredRight(list, ss2, rr2)
             /\ \A list \in hist[s].data : CachedRight(list, ss2)
  <2>1. ASSUME NEW list \in hist[s].fetch PROVE StoredRight(list, ss2, rr2)
    <3>1. StoredRight(list, ss, rr)
      BY <2>1 DEF HistoryRight
    <3> QED BY <3>1, StoredRightOnward
  <2>2. ASSUME NEW list \in hist[s].data PROVE CachedRight(list, ss2)
    <3>1. CachedRight(list, ss)
      BY <2>2 DEF HistoryRight
    <3> QED BY <3>1, CachedRightOnward
  <2> QED BY <2>1, <2>2
<1> QED BY <1>1 DEF HistoryRight

\* What is under way is as it was.
SameLive(ss, ss2) ==
    /\ Onward(ss, ss2)
    /\ \A n \in Sends :
          /\ ss2[n].at \in Waiting => ss[n].at \in Waiting
          /\ ss2[n].at \in Live => /\ ss[n].at \in Live /\ ss2[n].named = ss[n].named
                                   /\ ss2[n].read = ss[n].read
                                   /\ ss2[n].at = "requesting" => ss[n].at = "requesting"

LEMMA SameLiveMoves ==
    ASSUME NEW ss, NEW ss2, SameLive(ss, ss2)
    PROVE  Moves(ss, ss2)
BY DEF SameLive, Moves

LEMMA QuestionUnnamedOnward ==
    ASSUME NEW ss, NEW ss2, NEW l, NEW n, ss2[n].text = ss[n].text,
           QuestionUnnamed(l, n, ss)
    PROVE  QuestionUnnamed(l, n, ss2)
BY DEF QuestionUnnamed

\* No fetch in flight brings more to the open session than before.
NoMoreFetched(p, hist, hist2) ==
    p.session # NoSession => hist2[p.session].fetch \subseteq hist[p.session].fetch

LEMMA FitsOnward ==
    ASSUME NEW ss, NEW ss2, SameLive(ss, ss2), NEW p, NEW hist, NEW hist2,
           NoMoreFetched(p, hist, hist2), PanelFits(p, ss, hist)
    PROVE  PanelFits(p, ss2, hist2)
<1>1. p \in Panels /\ Right(p.messages, ss) /\ Apart(p.messages, ss) /\ Onward(ss, ss2)
  BY DEF PanelFits, SameLive
<1>2. p.messages \in Lists
  BY <1>1 DEF Panels
<1>3. Right(p.messages, ss2) /\ Apart(p.messages, ss2)
  BY <1>1, <1>2, RightOnward, ApartOnward
<1>4. ASSUME NEW n \in Sends, ss2[n].at \in Live
      PROVE  Followed(n, p, ss2[n]) /\ NumbersFit(n, p, ss2[n], ss2, hist2)
  <2>1. /\ ss[n].at \in Live /\ ss2[n].named = ss[n].named /\ ss2[n].read = ss[n].read
        /\ ss2[n].at = "requesting" => ss[n].at = "requesting"
    BY <1>4 DEF SameLive
  <2>2. Followed(n, p, ss[n]) /\ NumbersFit(n, p, ss[n], ss, hist)
    BY <2>1 DEF PanelFits
  <2>3. Followed(n, p, ss2[n])
    BY <2>1, <2>2 DEF Followed
  <2>4. ss[n].at \notin Fresh
    BY <2>1 DEF Live, Fresh
  <2>5. ss2[n].text = ss[n].text
    BY <1>1, <2>4 DEF Onward
  <2>6. p.userId = 0 => QuestionUnnamed(p.messages, n, ss2)
    BY <2>2, <2>5, QuestionUnnamedOnward DEF NumbersFit
  <2>7. <<"a", n>> \in Ids(p.messages) =>
          /\ ~ss2[n].named
          /\ p.session # NoSession =>
                \A list \in hist2[p.session].fetch : <<"ai", n>> \notin Ids(list)
    BY <2>1, <2>2 DEF NumbersFit, NoMoreFetched
  <2> QED BY <2>2, <2>3, <2>6, <2>7 DEF NumbersFit
<1>5. \A n \in Sends : ss2[n].at \in Waiting => p.sending
  BY DEF PanelFits, SameLive
<1> QED BY <1>1, <1>3, <1>4, <1>5 DEF PanelFits

\* A render with the same session, history and numbers, or with none.
LEMMA RenderedIs ==
    ASSUME NEW p, NEW q, NEW hist, NEW hist2, q.session = p.session,
           Data(hist2, q.session) = Data(hist, p.session),
           q.aiId = p.aiId \/ q.aiId = 0, q.userId = p.userId \/ q.userId = 0
    PROVE  Rendered(p, hist, q, hist2) = q \/ Rendered(p, hist, q, hist2) = StreamEffect(q)
<1>1. (IF q.aiId = p.aiId THEN q ELSE AnswerIdEffect(q)) = q
  BY DEF AnswerIdEffect
<1>2. (IF q.userId = p.userId THEN q ELSE UserIdEffect(q)) = q
  BY DEF UserIdEffect
<1>3. Rendered(p, hist, q, hist2) =
          IF q.content = p.content /\ q.streaming = p.streaming THEN q ELSE StreamEffect(q)
  BY <1>1, <1>2 DEF Rendered
<1> QED BY <1>3

LEMMA QuietRender ==
    ASSUME NEW p, NEW q \in Panels, NEW hist, NEW hist2, q.session = p.session,
           Data(hist2, q.session) = Data(hist, p.session),
           q.aiId = p.aiId \/ q.aiId = 0, q.userId = p.userId \/ q.userId = 0,
           NEW ss, Right(q.messages, ss), q.ref = <<>> \/ q.ref[1] \in {"a", "ai"}
    PROVE  \E k : /\ Reshown(q, Rendered(p, hist, q, hist2), k, q.ref)
                  /\ Rewritten(q.messages, k)
<1>1. CASE Rendered(p, hist, q, hist2) = q
  <2>1. Reshown(q, q, q.messages, q.ref)
    BY DEF Reshown, SameBut
  <2>2. q.messages \in Lists
    BY DEF Panels
  <2>3. Rewritten(q.messages, q.messages)
    BY <2>2, RewrittenSelf
  <2> QED BY <1>1, <2>1, <2>3
<1>2. CASE Rendered(p, hist, q, hist2) = StreamEffect(q)
  BY <1>2, StreamIs
<1> QED BY <1>1, <1>2, RenderedIs
-----------------------------------------------------------------------------
(* The steps of the server.                                                *)

\* A send begins when those before it are over, and over it remains.
InTurn(ss, ss2) ==
    \A n \in Sends :
        /\ ss[n].at = "over" => ss2[n].at = "over"
        /\ ss2[n].at # "unsent" => \/ ss[n].at # "unsent"
                                   \/ \A m \in Sends : m < n => ss[m].at = "over"

LEMMA SendsRightNext ==
    ASSUME SendsRight, sends' \in [Sends -> HandledSends], runs' \in [Sends -> ServerRuns],
           \A n \in Sends : SendRight(sends'[n], runs'[n]), InTurn(sends, sends')
    PROVE  SendsRight'
<1>1. OneSendAtATime'
  BY DEF SendsRight, OneSendAtATime, InTurn
<1> QED BY <1>1 DEF SendsRight

\* What a run may do while no send notices.
RunsGo ==
    /\ UNCHANGED <<panel, sends, history>>
    /\ runs' \in [Sends -> ServerRuns] /\ RunsOnward(runs, runs')
    /\ \A n \in Sends : /\ SendRight(sends[n], runs'[n])
                        /\ runs[n].at = "lost" => runs'[n].at = "lost"

StoreGoes ==
    /\ store' \in [created : SUBSET ChatSessions, conv : [ChatSessions -> Lists]]
    /\ store'.created = store.created
    /\ \A s \in ChatSessions \ store.created : store'.conv[s] = <<>>
    /\ StoreRight(store'.conv, sends, runs')

LEMMA SameSelf == \A ss : SameLive(ss, ss)
BY DEF SameLive, Onward

LEMMA RunsGoOn ==
    ASSUME PanelInvariant, RunsGo, StoreGoes
    PROVE  PanelInvariant'
<1>1. Moves(sends, sends)
  BY SameSelf, SameLiveMoves
<1>2. HistoryRight(history, sends, runs')
  BY <1>1, HistoryOnward DEF PanelInvariant, RunsGo
<1>3. SendsRight'
  <2>1. InTurn(sends, sends')
    BY DEF InTurn, RunsGo
  <2>2. SendsRight /\ sends' \in [Sends -> HandledSends]
    BY DEF PanelInvariant, SendsRight, RunsGo
  <2>3. runs' \in [Sends -> ServerRuns] /\ \A n \in Sends : SendRight(sends'[n], runs'[n])
    BY DEF RunsGo
  <2> QED BY <2>1, <2>2, <2>3, SendsRightNext
<1>4. SessionsExist'
  BY DEF PanelInvariant, RunsGo, SessionsExist, StoreGoes
<1> QED BY <1>2, <1>3, <1>4 DEF PanelInvariant, RunsGo, StoreGoes

LEMMA StoreStays ==
    ASSUME PanelInvariant, RunsGo, UNCHANGED store
    PROVE  StoreGoes
<1>1. Moves(sends, sends)
  BY SameSelf, SameLiveMoves
<1>2. StoreRight(store.conv, sends, runs')
  BY <1>1, StoreOnward DEF PanelInvariant, RunsGo
<1> QED BY <1>2 DEF PanelInvariant, SessionsExist, StoreGoes

\* A message that the server adds to a list.
Addable(m, l, ss, rr) ==
    /\ m \in Messages /\ m.id \notin Ids(l) /\ ss[m.id[2]].at \notin Fresh
    /\ \/ /\ m.id[1] = "msg" /\ m.role = "user" /\ rr[m.id[2]].at \notin {"none", "lost"}
          /\ m.text = Typed(ss[m.id[2]].text)
       \/ m.id[1] = "ai" /\ m.role = "assistant" /\ rr[m.id[2]].at \in {"saved", "closed"}

LEMMA AddedRight ==
    ASSUME NEW ss, NEW rr, NEW l, StoredRight(l, ss, rr), NEW m, Addable(m, l, ss, rr)
    PROVE  StoredRight(Append(l, m), ss, rr)
<1> DEFINE k == Append(l, m)
           c == Len(l) + 1
<1>1. l \in Lists /\ m \in Messages
  BY DEF StoredRight, Addable
<1>2. /\ Len(l) \in Nat /\ DOMAIN l = 1..Len(l) /\ k \in Lists /\ DOMAIN k = 1..c
      /\ \A i \in DOMAIN l : k[i] = l[i]
      /\ k[c] = m
  BY <1>1, ListTyped DEF Lists
<1>3. \A i \in DOMAIN k : i \in DOMAIN l \/ i = c
  BY <1>2
<1> HIDE DEF k, c
<1>4. Right(l, ss) /\ Stored(l, ss, rr)
  BY DEF StoredRight
<1>5. Right(k, ss)
  <2> SUFFICES ASSUME NEW i \in DOMAIN k
               PROVE  /\ k[i].role = IF k[i].id[1] \in {"u", "msg"} THEN "user"
                                     ELSE "assistant"
                      /\ ss[k[i].id[2]].at \notin Fresh
                      /\ k[i].id[1] = "u" => k[i].text = Typed(ss[k[i].id[2]].text)
    BY DEF Right
  <2>1. CASE i \in DOMAIN l
    BY <1>2, <1>4, <2>1 DEF Right
  <2>2. CASE i = c
    BY <1>2, <2>2 DEF Addable
  <2> QED BY <1>3, <2>1, <2>2
<1>6. Stored(k, ss, rr)
  <2>1. \A i \in DOMAIN l : l[i].id # m.id
    BY DEF Addable, Ids
  <2>2. ASSUME NEW i \in DOMAIN k, NEW j \in DOMAIN k, k[i].id = k[j].id PROVE i = j
    BY <1>2, <1>3, <1>4, <2>1, <2>2 DEF Stored
  <2>3. ASSUME NEW i \in DOMAIN k
        PROVE  LET n == k[i].id[2] IN
               \/ /\ k[i].id[1] = "msg" /\ rr[n].at \notin {"none", "lost"}
                  /\ k[i].text = Typed(ss[n].text)
               \/ k[i].id[1] = "ai" /\ rr[n].at \in {"saved", "closed"}
    <3>1. CASE i \in DOMAIN l
      BY <1>2, <1>4, <3>1 DEF Stored
    <3>2. CASE i = c
      BY <1>2, <3>2 DEF Addable
    <3> QED BY <1>3, <3>1, <3>2
  <2> QED BY <2>2, <2>3 DEF Stored
<1> QED BY <1>2, <1>5, <1>6 DEF StoredRight, k

\* The store when a message is added to the conversation of send n.
LEMMA AppendedIs ==
    ASSUME NEW ss, NEW rr, NEW n \in Sends, NEW m, store' = Appended(n, m),
           store \in [created : SUBSET ChatSessions, conv : [ChatSessions -> Lists]],
           \A s \in ChatSessions \ store.created : store.conv[s] = <<>>,
           StoreRight(store.conv, ss, rr), sends[n].session \in store.created,
           Addable(m, store.conv[sends[n].session], ss, rr)
    PROVE  /\ store' \in [created : SUBSET ChatSessions, conv : [ChatSessions -> Lists]]
           /\ store'.created = store.created
           /\ \A s \in ChatSessions \ store.created : store'.conv[s] = <<>>
           /\ StoreRight(store'.conv, ss, rr)
<1> DEFINE t == sends[n].session
           l == Append(store.conv[t], m)
           c == [store.conv EXCEPT ![t] = l]
<1>1. t \in ChatSessions /\ t \in store.created
  OBVIOUS
<1>2. StoredRight(l, ss, rr)
  BY <1>1, AddedRight DEF StoreRight
<1>3. store' = [store EXCEPT !.conv = c]
  BY DEF Appended
<1>4. l \in Lists
  BY <1>2 DEF StoredRight
<1> HIDE DEF t, l
<1>5. /\ c \in [ChatSessions -> Lists] /\ c[t] = l
      /\ \A s \in ChatSessions : s # t => c[s] = store.conv[s]
  BY <1>1, <1>4
<1> HIDE DEF c
<1>6. /\ store'.created = store.created /\ store'.conv = c
      /\ store' \in [created : SUBSET ChatSessions, conv : [ChatSessions -> Lists]]
  BY <1>3, <1>5
<1>7. StoreRight(c, ss, rr)
  BY <1>2, <1>5 DEF StoreRight
<1>8. \A s \in ChatSessions \ store.created : c[s] = <<>>
  BY <1>1, <1>5
<1> QED BY <1>6, <1>7, <1>8

LEMMA IdsFirstAppend ==
    ASSUME NEW w \in Seq(Events), NEW ev \in Seq(Events), IdsComeFirst(w)
    PROVE  IdsComeFirst(w \o ev)
<1>1. PICK i \in DOMAIN w : /\ w[i].type = "ai_message_id"
                            /\ \A j \in 1..(i - 1) : w[j].type = "user_id"
  BY DEF IdsComeFirst
<1>2. /\ DOMAIN w = 1..Len(w) /\ Len(w) \in Nat /\ DOMAIN (w \o ev) = 1..(Len(w) + Len(ev))
      /\ Len(ev) \in Nat /\ \A j \in 1..Len(w) : (w \o ev)[j] = w[j]
  OBVIOUS
<1>3. i \in DOMAIN (w \o ev) /\ 1..(i - 1) \subseteq 1..Len(w)
  BY <1>1, <1>2
<1>4. (w \o ev)[i] = w[i] /\ \A j \in 1..(i - 1) : (w \o ev)[j] = w[j]
  BY <1>1, <1>2, <1>3
<1> QED BY <1>1, <1>3, <1>4 DEF IdsComeFirst

\* What a step of the server does to one run.
UnderWay == {"running", "completed", "saved"}

RunGoes(n, r, r2) ==
    \/ r2.at = r.at /\ r2.wire = r.wire
    \/ /\ r.at \in UnderWay /\ r2.at \in UnderWay \cup {"closed"}
       /\ r.at = "saved" => r2.at \in {"saved", "closed"}
       /\ r2.wire = r.wire \/ \E ev \in Seq(Events) : r2.wire = Relayed(n, ev)

LEMMA RunsGoEach ==
    ASSUME PanelInvariant, UNCHANGED <<panel, sends, history>>,
           runs' \in [Sends -> ServerRuns],
           \A n \in Sends : RunGoes(n, runs[n], runs'[n])
    PROVE  RunsGo
<1>1. \A n \in Sends : SendRight(sends[n], runs[n]) /\ runs[n] \in ServerRuns
  BY DEF PanelInvariant, SendsRight
<1>2. RunsOnward(runs, runs') /\ \A n \in Sends : runs[n].at = "lost" => runs'[n].at = "lost"
  BY DEF RunGoes, RunsOnward, UnderWay
<1>3. ASSUME NEW n \in Sends PROVE SendRight(sends[n], runs'[n])
  <2>1. CASE runs'[n].at = runs[n].at /\ runs'[n].wire = runs[n].wire
    BY <1>1, <2>1 DEF SendRight
  <2>2. CASE /\ runs[n].at \in UnderWay /\ runs'[n].at \in UnderWay \cup {"closed"}
             /\ runs'[n].wire = runs[n].wire \/ \E ev \in Seq(Events) : runs'[n].wire = Relayed(n, ev)
    <3>1. sends[n].at \notin Fresh \cup {"requesting"}
      BY <1>1, <2>2 DEF SendRight, UnderWay
    <3>2. ASSUME sends[n].at = "reading", ~sends[n].named PROVE IdsComeFirst(runs'[n].wire)
      <4>1. IdsComeFirst(runs[n].wire) /\ runs[n].wire \in Seq(Events)
        BY <1>1, <3>2 DEF SendRight, ServerRuns
      <4>2. CASE runs'[n].wire = runs[n].wire
        BY <4>1, <4>2
      <4>3. ASSUME NEW ev \in Seq(Events), runs'[n].wire = Relayed(n, ev)
            PROVE  IdsComeFirst(runs'[n].wire)
        <5>1. runs'[n].wire = runs[n].wire \o ev
          BY <3>2, <4>3 DEF Relayed
        <5> QED BY <4>1, <5>1, IdsFirstAppend
      <4> QED BY <2>2, <4>2, <4>3
    <3>3. runs'[n].at \notin {"none", "lost"}
      BY <2>2 DEF UnderWay
    <3> QED BY <3>1, <3>2, <3>3 DEF SendRight
  <2> QED BY <2>1, <2>2 DEF RunGoes
<1> QED BY <1>2, <1>3 DEF RunsGo

\* One run becomes r; the others stay.
LEMMA OneRunGoes ==
    ASSUME PanelInvariant, UNCHANGED <<panel, sends, history>>, NEW n \in Sends,
           NEW r \in ServerRuns, RunGoes(n, runs[n], r), runs' = [runs EXCEPT ![n] = r]
    PROVE  RunsGo
<1>1. runs \in [Sends -> ServerRuns]
  BY DEF PanelInvariant, SendsRight
<1>2. runs' \in [Sends -> ServerRuns] /\ \A m \in Sends : RunGoes(m, runs[m], runs'[m])
  BY <1>1 DEF RunGoes
<1> QED BY <1>2, RunsGoEach

LEMMA RelayedTyped ==
    ASSUME SendsRight, NEW n \in Sends, NEW ev \in Seq(Events)
    PROVE  Relayed(n, ev) \in Seq(Events)
<1>1. runs[n].wire \in Seq(Events)
  BY DEF SendsRight, ServerRuns
<1> QED BY <1>1 DEF Relayed

LEMMA EventTyped ==
    ASSUME NEW type \in {"user_id", "ai_message_id", "token", "token_rollback", "complete",
                         "error", "close"}, NEW text \in Texts
    PROVE  SendEvent(type, text) \in Events /\ <<SendEvent(type, text)>> \in Seq(Events)
BY DEF SendEvent, Events

LEMMA NoTextTyped == <<>> \in Texts
BY DEF Texts

LEMMA EmitTokenKeeps ==
    ASSUME PanelInvariant, NEW n \in Sends, EmitToken(n)
    PROVE  PanelInvariant'
<1> DEFINE token == <<<<n, Len(runs[n].gathered) + 1>>>>
           ev == <<SendEvent("token", token)>>
           r == [runs[n] EXCEPT !.emitted = @ \o token, !.gathered = @ \o token,
                                !.wire = Relayed(n, ev)]
<1>1. SendsRight /\ runs \in [Sends -> ServerRuns] /\ runs[n] \in ServerRuns
  BY DEF PanelInvariant, SendsRight
<1>2. token \in Texts
  <2>1. n \in Nat /\ Len(runs[n].gathered) \in Nat
    BY <1>1 DEF Sends, ServerRuns, Texts
  <2> QED BY <2>1 DEF Texts
<1>3. runs' = [runs EXCEPT ![n] = r] /\ runs[n].at = "running"
  BY <1>1 DEF EmitToken
<1> HIDE DEF token
<1>4. ev \in Seq(Events)
  BY <1>2, EventTyped
<1> HIDE DEF ev
<1>5. Relayed(n, ev) \in Seq(Events)
  BY <1>1, <1>4, RelayedTyped
<1>6. runs[n].emitted \o token \in Texts /\ runs[n].gathered \o token \in Texts
  BY <1>1, <1>2 DEF ServerRuns, Texts
<1>7. r \in ServerRuns /\ r.at = runs[n].at /\ r.wire = Relayed(n, ev)
  BY <1>1, <1>5, <1>6 DEF ServerRuns
<1> HIDE DEF r
<1>8. RunGoes(n, runs[n], r)
  BY <1>3, <1>4, <1>7 DEF RunGoes, UnderWay
<1>9. RunsGo
  BY <1>3, <1>7, <1>8, OneRunGoes DEF EmitToken
<1>10. UNCHANGED store
  BY DEF EmitToken
<1> QED BY <1>9, <1>10, StoreStays, RunsGoOn

LEMMA RollBackKeeps ==
    ASSUME PanelInvariant, NEW n \in Sends, RollBack(n)
    PROVE  PanelInvariant'
<1> DEFINE ev == <<SendEvent("token_rollback", <<>>)>>
           r == [runs[n] EXCEPT !.emitted = <<>>, !.wire = Relayed(n, ev)]
<1>1. SendsRight /\ runs \in [Sends -> ServerRuns] /\ runs[n] \in ServerRuns
  BY DEF PanelInvariant, SendsRight
<1>2. runs' = [runs EXCEPT ![n] = r] /\ runs[n].at = "running"
  BY <1>1 DEF RollBack
<1>3. ev \in Seq(Events)
  BY NoTextTyped, EventTyped
<1> HIDE DEF ev
<1>4. Relayed(n, ev) \in Seq(Events)
  BY <1>1, <1>3, RelayedTyped
<1>5. r \in ServerRuns /\ r.at = runs[n].at /\ r.wire = Relayed(n, ev)
  BY <1>1, <1>4, NoTextTyped DEF ServerRuns
<1> HIDE DEF r
<1>6. RunGoes(n, runs[n], r)
  BY <1>2, <1>3, <1>5 DEF RunGoes, UnderWay
<1>7. RunsGo /\ UNCHANGED store
  BY <1>2, <1>5, <1>6, OneRunGoes DEF RollBack
<1> QED BY <1>7, StoreStays, RunsGoOn

LEMMA CompleteRunKeeps ==
    ASSUME PanelInvariant, NEW n \in Sends, CompleteRun(n)
    PROVE  PanelInvariant'
<1> DEFINE ev == <<SendEvent("complete", runs[n].emitted)>>
           r == [runs[n] EXCEPT !.at = "completed", !.gathered = runs[n].emitted,
                                !.wire = Relayed(n, ev)]
<1>1. SendsRight /\ runs \in [Sends -> ServerRuns] /\ runs[n] \in ServerRuns
  BY DEF PanelInvariant, SendsRight
<1>2. runs' = [runs EXCEPT ![n] = r] /\ runs[n].at = "running"
  BY <1>1 DEF CompleteRun
<1>3. runs[n].emitted \in Texts
  BY <1>1 DEF ServerRuns
<1>4. ev \in Seq(Events)
  BY <1>3, EventTyped
<1> HIDE DEF ev
<1>5. Relayed(n, ev) \in Seq(Events)
  BY <1>1, <1>4, RelayedTyped
<1>6. r \in ServerRuns /\ r.at = "completed" /\ r.wire = Relayed(n, ev)
  BY <1>1, <1>3, <1>5 DEF ServerRuns
<1> HIDE DEF r
<1>7. RunGoes(n, runs[n], r)
  BY <1>2, <1>4, <1>6 DEF RunGoes, UnderWay
<1>8. RunsGo /\ UNCHANGED store
  BY <1>2, <1>6, <1>7, OneRunGoes DEF CompleteRun
<1> QED BY <1>8, StoreStays, RunsGoOn

LEMMA CloseRunKeeps ==
    ASSUME PanelInvariant, NEW n \in Sends, CloseRun(n)
    PROVE  PanelInvariant'
<1> DEFINE ev == <<SendEvent("close", <<>>)>>
           r == [runs[n] EXCEPT !.at = "closed", !.wire = Relayed(n, ev)]
<1>1. SendsRight /\ runs \in [Sends -> ServerRuns] /\ runs[n] \in ServerRuns
  BY DEF PanelInvariant, SendsRight
<1>2. runs' = [runs EXCEPT ![n] = r] /\ runs[n].at = "saved"
  BY <1>1 DEF CloseRun
<1>3. ev \in Seq(Events)
  BY NoTextTyped, EventTyped
<1> HIDE DEF ev
<1>4. Relayed(n, ev) \in Seq(Events)
  BY <1>1, <1>3, RelayedTyped
<1>5. r \in ServerRuns /\ r.at = "closed" /\ r.wire = Relayed(n, ev)
  BY <1>1, <1>4 DEF ServerRuns
<1> HIDE DEF r
<1>6. RunGoes(n, runs[n], r)
  BY <1>2, <1>3, <1>5 DEF RunGoes, UnderWay
<1>7. RunsGo /\ UNCHANGED store
  BY <1>2, <1>5, <1>6, OneRunGoes DEF CloseRun
<1> QED BY <1>7, StoreStays, RunsGoOn

\* The answer of a run that is being saved is new to its conversation.
LEMMA AnswerSavedRight ==
    ASSUME PanelInvariant, RunsGo, NEW n \in Sends, runs[n].at \in {"running", "completed"},
           runs'[n].at \in {"saved", "closed"}, store' = AnswerSaved(n)
    PROVE  StoreGoes
<1> DEFINE m == Message(<<"ai", n>>, "assistant", runs[n].gathered)
           s == sends[n].session
<1>1. SendsRight /\ SessionsExist /\ StoreRight(store.conv, sends, runs)
  BY DEF PanelInvariant
<1>2. Moves(sends, sends)
  BY SameSelf, SameLiveMoves
<1>3. StoreRight(store.conv, sends, runs')
  BY <1>1, <1>2, StoreOnward DEF RunsGo
<1>4. sends[n].at \notin Fresh \cup {"requesting"} /\ runs[n].gathered \in Texts
  BY <1>1 DEF SendsRight, SendRight, ServerRuns
<1>5. s \in store.created /\ s \in ChatSessions
  BY <1>1, <1>4 DEF SessionsExist
<1>6. m \in Messages /\ m.id = <<"ai", n>> /\ m.role = "assistant"
  <2>1. <<"ai", n>> \in MessageIds
    BY DEF MessageIds
  <2> QED BY <1>4, <2>1 DEF Message, Messages
<1>7. store' = Appended(n, m)
  BY DEF AnswerSaved
<1> HIDE DEF m
<1>8. <<"ai", n>> \notin Ids(store.conv[s])
  <2> DEFINE l == store.conv[s]
  <2>1. Stored(l, sends, runs)
    BY <1>1, <1>5 DEF StoreRight, StoredRight
  <2> HIDE DEF l
  <2> SUFFICES ASSUME NEW i \in DOMAIN l, l[i].id = <<"ai", n>>
               PROVE  FALSE
    BY DEF Ids, l
  <2>2. l[i].id[1] = "ai" /\ l[i].id[2] = n
    OBVIOUS
  <2>3. runs[l[i].id[2]].at \in {"saved", "closed"}
    BY <2>1, <2>2 DEF Stored
  <2> QED BY <2>2, <2>3
<1>9. Addable(m, store.conv[s], sends, runs')
  BY <1>4, <1>6, <1>8 DEF Addable
<1>10. /\ store \in [created : SUBSET ChatSessions, conv : [ChatSessions -> Lists]]
       /\ \A t \in ChatSessions \ store.created : store.conv[t] = <<>>
  BY <1>1 DEF SessionsExist
<1> QED BY <1>3, <1>5, <1>7, <1>9, <1>10, AppendedIs DEF StoreGoes

LEMMA SaveAnswerKeeps ==
    ASSUME PanelInvariant, NEW n \in Sends, SaveAnswer(n)
    PROVE  PanelInvariant'
<1> DEFINE r == [runs[n] EXCEPT !.at = "saved"]
<1>1. SendsRight /\ runs \in [Sends -> ServerRuns] /\ runs[n] \in ServerRuns
  BY DEF PanelInvariant, SendsRight
<1>2. /\ runs' = [runs EXCEPT ![n] = r] /\ runs[n].at = "completed"
      /\ store' = AnswerSaved(n)
  BY <1>1 DEF SaveAnswer
<1>3. r \in ServerRuns /\ r.at = "saved" /\ r.wire = runs[n].wire
  BY <1>1 DEF ServerRuns
<1> HIDE DEF r
<1>4. RunGoes(n, runs[n], r)
  BY <1>2, <1>3 DEF RunGoes, UnderWay
<1>5. RunsGo
  BY <1>2, <1>3, <1>4, OneRunGoes DEF SaveAnswer
<1>6. runs'[n].at = "saved"
  BY <1>1, <1>2, <1>3
<1>7. StoreGoes
  BY <1>2, <1>5, <1>6, AnswerSavedRight
<1> QED BY <1>5, <1>7, RunsGoOn

LEMMA SavedPartlyRight ==
    ASSUME PanelInvariant, RunsGo, NEW n \in Sends, runs[n].at \in UnderWay,
           runs'[n].at = "closed", store' = SavedPartly(n)
    PROVE  StoreGoes
<1>1. CASE runs[n].at = "saved" \/ runs[n].gathered = <<>>
  <2>1. UNCHANGED store
    BY <1>1 DEF SavedPartly
  <2> QED BY <2>1, StoreStays
<1>2. CASE ~(runs[n].at = "saved" \/ runs[n].gathered = <<>>)
  <2>1. store' = AnswerSaved(n) /\ runs[n].at \in {"running", "completed"}
    BY <1>2 DEF SavedPartly, UnderWay
  <2> QED BY <2>1, AnswerSavedRight
<1> QED BY <1>1, <1>2

LEMMA RunFailsKeeps ==
    ASSUME PanelInvariant, NEW n \in Sends, RunFails(n)
    PROVE  PanelInvariant'
<1> DEFINE ev == <<SendEvent("error", <<>>), SendEvent("close", <<>>)>>
           r == [runs[n] EXCEPT !.at = "closed", !.wire = Relayed(n, ev)]
<1>1. SendsRight /\ runs \in [Sends -> ServerRuns] /\ runs[n] \in ServerRuns
  BY DEF PanelInvariant, SendsRight
<1>2. /\ runs' = [runs EXCEPT ![n] = r] /\ runs[n].at = "running"
      /\ store' = SavedPartly(n)
  BY <1>1 DEF RunFails
<1>3. ev \in Seq(Events)
  BY NoTextTyped, EventTyped
<1> HIDE DEF ev
<1>4. Relayed(n, ev) \in Seq(Events)
  BY <1>1, <1>3, RelayedTyped
<1>5. r \in ServerRuns /\ r.at = "closed" /\ r.wire = Relayed(n, ev)
  BY <1>1, <1>4 DEF ServerRuns
<1> HIDE DEF r
<1>6. RunGoes(n, runs[n], r)
  BY <1>2, <1>3, <1>5 DEF RunGoes, UnderWay
<1>7. RunsGo
  BY <1>2, <1>5, <1>6, OneRunGoes DEF RunFails
<1>8. runs'[n].at = "closed" /\ runs[n].at \in UnderWay
  BY <1>1, <1>2, <1>5 DEF UnderWay
<1>9. StoreGoes
  BY <1>2, <1>7, <1>8, SavedPartlyRight
<1> QED BY <1>7, <1>9, RunsGoOn

LEMMA StopArrivesKeeps ==
    ASSUME PanelInvariant, NEW n \in Sends, StopArrives(n)
    PROVE  PanelInvariant'
<1> DEFINE stopped == [runs EXCEPT ![n] = [runs[n] EXCEPT !.stop = FALSE]]
           ev == <<SendEvent("close", <<>>)>>
           Closed(m) == [stopped[m] EXCEPT !.at = "closed", !.wire = Relayed(m, ev)]
           ofSession == {m \in Sends : /\ runs[m].at \notin {"none", "lost"}
                                       /\ sends[m].session = sends[n].session}
           live == {m \in ofSession : runs[m].at # "closed" /\ \A k \in ofSession : k <= m}
<1>1. SendsRight /\ runs \in [Sends -> ServerRuns]
  BY DEF PanelInvariant, SendsRight
<1>2. /\ stopped \in [Sends -> ServerRuns]
      /\ \A m \in Sends : stopped[m].at = runs[m].at /\ stopped[m].wire = runs[m].wire
  BY <1>1 DEF ServerRuns
<1>3. UNCHANGED <<panel, sends, history>>
  BY DEF StopArrives
<1>4. \/ runs' = stopped /\ UNCHANGED store
      \/ \E m \in live : /\ runs' = [stopped EXCEPT ![m].at = "closed",
                                                    ![m].wire = Relayed(m, ev)]
                         /\ store' = SavedPartly(m)
  BY DEF StopArrives
<1>5. \A m \in live : m \in Sends /\ runs[m].at \in UnderWay
  BY <1>1 DEF ServerRuns, UnderWay
<1> HIDE DEF live, stopped
<1>6. CASE runs' = stopped /\ UNCHANGED store
  <2>1. \A m \in Sends : RunGoes(m, runs[m], runs'[m])
    BY <1>2, <1>6 DEF RunGoes
  <2>2. RunsGo
    BY <1>2, <1>3, <1>6, <2>1, RunsGoEach
  <2> QED BY <1>6, <2>2, StoreStays, RunsGoOn
<1>7. ASSUME NEW m \in live, store' = SavedPartly(m),
             runs' = [stopped EXCEPT ![m].at = "closed", ![m].wire = Relayed(m, ev)]
      PROVE  PanelInvariant'
  <2>1. m \in Sends /\ runs[m].at \in UnderWay
    BY <1>5, <1>7
  <2>2. runs' = [stopped EXCEPT ![m] = Closed(m)]
    BY <1>2, <1>7, <2>1
  <2>3. ev \in Seq(Events)
    BY NoTextTyped, EventTyped
  <2> HIDE DEF ev
  <2>4. Relayed(m, ev) \in Seq(Events) /\ stopped[m] \in ServerRuns
    BY <1>1, <1>2, <2>1, <2>3, RelayedTyped
  <2>5. Closed(m) \in ServerRuns /\ Closed(m).at = "closed" /\ Closed(m).wire = Relayed(m, ev)
    BY <2>4 DEF ServerRuns
  <2> HIDE DEF Closed
  <2>6. /\ runs' \in [Sends -> ServerRuns] /\ runs'[m] = Closed(m)
        /\ \A k \in Sends : k # m => runs'[k] = stopped[k]
    BY <1>2, <2>1, <2>2, <2>5
  <2>7. RunGoes(m, runs[m], runs'[m])
    BY <2>1, <2>3, <2>5, <2>6 DEF RunGoes, UnderWay
  <2>8. \A k \in Sends : RunGoes(k, runs[k], runs'[k])
    BY <1>2, <2>6, <2>7 DEF RunGoes
  <2>9. RunsGo
    BY <1>3, <2>6, <2>8, RunsGoEach
  <2>10. runs'[m].at = "closed"
    BY <2>5, <2>6
  <2>11. StoreGoes
    BY <1>7, <2>1, <2>9, <2>10, SavedPartlyRight
  <2> QED BY <2>9, <2>11, RunsGoOn
<1> QED BY <1>4, <1>6, <1>7

LEMMA RequestArrivesKeeps ==
    ASSUME PanelInvariant, NEW n \in Sends, RequestArrives(n)
    PROVE  PanelInvariant'
<1> DEFINE f == [sends[n] EXCEPT !.at = IF @ = "requesting" THEN "reading" ELSE @]
           asked == <<SendEvent("user_id", <<>>), SendEvent("ai_message_id", <<>>)>>
           wire == IF sends[n].at = "requesting" THEN asked ELSE <<>>
           r == [runs[n] EXCEPT !.at = "running", !.wire = wire]
           m == Message(<<"msg", n>>, "user", Typed(sends[n].text))
           s == sends[n].session
<1>1. /\ SendsRight /\ SessionsExist /\ StoreRight(store.conv, sends, runs)
      /\ HistoryRight(history, sends, runs) /\ PanelFits(panel, sends, history)
  BY DEF PanelInvariant
<1>2. /\ sends \in [Sends -> HandledSends] /\ runs \in [Sends -> ServerRuns]
      /\ \A k \in Sends : SendRight(sends[k], runs[k])
  BY <1>1 DEF SendsRight
<1>3. sends[n] \in HandledSends /\ runs[n] \in ServerRuns
  BY <1>2
<1>4. /\ runs[n].at = "none" /\ sends[n].at \notin Fresh
      /\ sends' = [sends EXCEPT ![n] = f] /\ runs' = [runs EXCEPT ![n] = r]
      /\ store' = Appended(n, m) /\ UNCHANGED <<panel, history>>
  BY <1>2 DEF RequestArrives, Fresh
<1>5. sends[n].at # "reading"
  BY <1>2, <1>4 DEF SendRight
<1>6. /\ asked \in Seq(Events) /\ IdsComeFirst(asked)
  <2>1. asked \in Seq(Events)
    BY NoTextTyped, EventTyped
  <2>2. DOMAIN asked = 1..2 /\ asked[1].type = "user_id" /\ asked[2].type = "ai_message_id"
    BY DEF SendEvent
  <2> HIDE DEF asked
  <2>3. 2 \in DOMAIN asked /\ \A j \in 1..(2 - 1) : j = 1
    BY <2>2
  <2> QED BY <2>1, <2>2, <2>3 DEF IdsComeFirst
<1> HIDE DEF asked
<1>7. wire \in Seq(Events) /\ (sends[n].at = "requesting" => IdsComeFirst(wire))
  BY <1>6
<1> HIDE DEF wire
<1>8. r \in ServerRuns /\ r.at = "running" /\ r.wire = wire
  BY <1>3, <1>7 DEF ServerRuns
<1>9. /\ f \in HandledSends /\ f.text = sends[n].text /\ f.session = sends[n].session
      /\ f.named = sends[n].named /\ f.read = sends[n].read
      /\ f.at = IF sends[n].at = "requesting" THEN "reading" ELSE sends[n].at
  BY <1>3 DEF HandledSends
<1> HIDE DEF f, r
<1>10. /\ sends' \in [Sends -> HandledSends] /\ runs' \in [Sends -> ServerRuns]
       /\ sends'[n] = f /\ runs'[n] = r
       /\ \A k \in Sends : k # n => sends'[k] = sends[k] /\ runs'[k] = runs[k]
  BY <1>2, <1>4, <1>8, <1>9
<1>11. SameLive(sends, sends')
  BY <1>4, <1>5, <1>9, <1>10 DEF SameLive, Onward, Fresh, Waiting, Live
<1>12. RunsOnward(runs, runs')
  BY <1>4, <1>8, <1>10 DEF RunsOnward
<1>13. SendsRight'
  <2>1. SendRight(f, r)
    BY <1>4, <1>5, <1>7, <1>8, <1>9 DEF SendRight, Fresh
  <2>2. \A k \in Sends : SendRight(sends'[k], runs'[k])
    BY <1>2, <1>10, <2>1
  <2>3. InTurn(sends, sends')
    BY <1>4, <1>9, <1>10 DEF InTurn, Fresh
  <2> QED BY <1>1, <1>10, <2>2, <2>3, SendsRightNext
<1>14. Moves(sends, sends')
  BY <1>11, SameLiveMoves
<1>15. HistoryRight(history, sends', runs') /\ StoreRight(store.conv, sends', runs')
  BY <1>1, <1>12, <1>14, HistoryOnward, StoreOnward
<1>16. PanelFits(panel, sends', history)
  <2>1. NoMoreFetched(panel, history, history)
    BY DEF NoMoreFetched
  <2> QED BY <1>1, <1>11, <2>1, FitsOnward
<1>17. s \in store.created /\ s \in ChatSessions
  BY <1>1, <1>4 DEF SessionsExist
<1>18. m \in Messages /\ m.id = <<"msg", n>> /\ m.role = "user" /\ m.text = Typed(sends[n].text)
  <2>1. <<"msg", n>> \in MessageIds
    BY DEF MessageIds
  <2>2. sends[n].text \in Nat
    <3>1. SendTexts \subseteq Nat
      BY ChatPanelAssumption
    <3>2. sends[n].text \in SendTexts \cup {0}
      BY <1>3 DEF HandledSends
    <3>3. \A text \in SendTexts \cup {0} : text \in Nat
      BY <3>1
    <3> QED BY <3>2, <3>3, Zenon
  <2>3. Typed(sends[n].text) \in Texts
    BY <2>2 DEF Typed, Texts
  <2> QED BY <2>1, <2>3 DEF Message, Messages
<1> HIDE DEF m
<1>19. <<"msg", n>> \notin Ids(store.conv[s])
  <2> DEFINE l == store.conv[s]
  <2>1. Stored(l, sends, runs)
    BY <1>1, <1>17 DEF StoreRight, StoredRight
  <2> HIDE DEF l
  <2> SUFFICES ASSUME NEW i \in DOMAIN l, l[i].id = <<"msg", n>>
               PROVE  FALSE
    BY DEF Ids, l
  <2>2. l[i].id[1] = "msg" /\ l[i].id[2] = n
    OBVIOUS
  <2>3. runs[l[i].id[2]].at \notin {"none", "lost"}
    BY <2>1, <2>2 DEF Stored
  <2> QED BY <1>4, <2>2, <2>3
<1>20. Addable(m, store.conv[s], sends', runs')
  BY <1>4, <1>8, <1>9, <1>10, <1>18, <1>19 DEF Addable, Fresh
<1>21. /\ store \in [created : SUBSET ChatSessions, conv : [ChatSessions -> Lists]]
       /\ \A t \in ChatSessions \ store.created : store.conv[t] = <<>>
  BY <1>1 DEF SessionsExist
<1>22. /\ store' \in [created : SUBSET ChatSessions, conv : [ChatSessions -> Lists]]
       /\ store'.created = store.created
       /\ \A t \in ChatSessions \ store.created : store'.conv[t] = <<>>
       /\ StoreRight(store'.conv, sends', runs')
  BY <1>4, <1>15, <1>17, <1>20, <1>21, AppendedIs
<1>23. SessionsExist'
  <2>1. \A k \in Sends : sends'[k].at \notin Fresh /\ runs'[k].at # "lost" =>
                            sends'[k].session \in store.created
    BY <1>1, <1>4, <1>9, <1>10 DEF SessionsExist
  <2> QED BY <1>1, <1>4, <1>22, <2>1 DEF SessionsExist
<1> QED BY <1>4, <1>13, <1>15, <1>16, <1>22, <1>23 DEF PanelInvariant

-----------------------------------------------------------------------------
(* The steps that leave the messages as they are, or write to answers.     *)

\* The history while a stored conversation is fetched.
Fetching(hist, s, list) == [hist EXCEPT ![s].fetch = {list}]

LEMMA FetchingIs ==
    ASSUME NEW ss, NEW rr, NEW hist, HistoryRight(hist, ss, rr), NEW s \in ChatSessions,
           NEW list, StoredRight(list, ss, rr)
    PROVE  /\ HistoryRight(Fetching(hist, s, list), ss, rr)
           /\ \A t \in ChatSessions : Fetching(hist, s, list)[t].data = hist[t].data
           /\ \A t \in ChatSessions : t # s => Fetching(hist, s, list)[t] = hist[t]
           /\ Fetching(hist, s, list)[s].fetch = {list}
<1> DEFINE new == [hist[s] EXCEPT !.fetch = {list}]
           hist2 == [hist EXCEPT ![s] = new]
<1>1. /\ hist \in [ChatSessions -> [data : SUBSET Lists, fetch : SUBSET Lists]]
      /\ list \in Lists
  BY DEF HistoryRight, StoredRight
<1>2. Fetching(hist, s, list) = hist2
  BY <1>1 DEF Fetching
<1>3. /\ new \in [data : SUBSET Lists, fetch : SUBSET Lists]
      /\ new.data = hist[s].data /\ new.fetch = {list}
  BY <1>1
<1> HIDE DEF new
<1>4. /\ hist2 \in [ChatSessions -> [data : SUBSET Lists, fetch : SUBSET Lists]]
      /\ hist2[s] = new /\ \A t \in ChatSessions : t # s => hist2[t] = hist[t]
  BY <1>1, <1>3
<1> HIDE DEF hist2
<1>5. HistoryRight(hist2, ss, rr)
  BY <1>3, <1>4 DEF HistoryRight
<1> QED BY <1>2, <1>3, <1>4, <1>5

LEMMA PollKeeps ==
    ASSUME PanelInvariant, Poll
    PROVE  PanelInvariant'
<1> DEFINE s == panel.session
<1>1. /\ SendsRight /\ SessionsExist /\ StoreRight(store.conv, sends, runs)
      /\ HistoryRight(history, sends, runs) /\ PanelFits(panel, sends, history)
  BY DEF PanelInvariant
<1>2. /\ s # NoSession /\ ~panel.streaming /\ UNCHANGED <<panel, sends, runs, store>>
      /\ history' = Fetching(history, s, store.conv[s])
  BY DEF Poll, Fetching
<1>3. s \in store.created /\ s \in ChatSessions
  BY <1>1, <1>2 DEF SessionsExist
<1>4. StoredRight(store.conv[s], sends, runs)
  BY <1>1, <1>3 DEF StoreRight
<1>5. /\ HistoryRight(history', sends, runs)
      /\ \A t \in ChatSessions : t # s => history'[t] = history[t]
  BY <1>1, <1>2, <1>3, <1>4, FetchingIs
<1>6. ASSUME NEW n \in Sends, sends[n].at \in Live
      PROVE  NumbersFit(n, panel, sends[n], sends, history')
  <2>1. Followed(n, panel, sends[n]) /\ NumbersFit(n, panel, sends[n], sends, history)
    BY <1>1, <1>6 DEF PanelFits
  <2> QED BY <1>2, <2>1 DEF Followed, NumbersFit
<1>7. PanelFits(panel, sends, history')
  BY <1>1, <1>6 DEF PanelFits
<1>8. SessionsExist'
  BY <1>1, <1>2, <1>3, <1>5 DEF SessionsExist
<1>9. SendsRight'
  BY <1>1, <1>2 DEF SendsRight, OneSendAtATime
<1> QED BY <1>1, <1>2, <1>5, <1>7, <1>8, <1>9 DEF PanelInvariant

LEMMA RewrittenTransitive ==
    ASSUME NEW l, NEW k, NEW m, Rewritten(l, k), Rewritten(k, m)
    PROVE  Rewritten(l, m)
<1>1. ASSUME NEW n \in Sends PROVE Redone(l, m, n, "a")
  <2>1. Redone(l, k, n, "a") /\ Redone(k, m, n, "a")
    BY DEF Rewritten
  <2>2. DOMAIN k = DOMAIN l
    BY <2>1, RedoneIds
  <2> QED BY <2>1, <2>2 DEF Redone
<1>2. m \in Lists
  BY DEF Rewritten
<1> QED BY <1>1, <1>2 DEF Rewritten

LEMMA RewrittenKeeps ==
    ASSUME NEW ss, NEW l \in Lists, NEW k, Rewritten(l, k), Right(l, ss), Apart(l, ss)
    PROVE  /\ Right(k, ss) /\ Apart(k, ss)
           /\ \A n \in Sends : /\ Ids(k) = Ids(l)
                               /\ QuestionUnnamed(l, n, ss) => QuestionUnnamed(k, n, ss)
<1>1. CASE Sends = {}
  <2>1. Messages = {}
    BY <1>1 DEF Messages, MessageIds
  <2>2. k \in Lists
    BY DEF Rewritten
  <2>3. DOMAIN k = {}
    BY <2>1, <2>2 DEF Lists
  <2> QED BY <1>1, <2>3 DEF Right, Apart
<1>2. ASSUME NEW n \in Sends
      PROVE  /\ Right(k, ss) /\ Apart(k, ss) /\ Ids(k) = Ids(l)
             /\ QuestionUnnamed(l, n, ss) => QuestionUnnamed(k, n, ss)
  <2>1. Redone(l, k, n, "a")
    BY DEF Rewritten
  <2>2. Right(k, ss) /\ Apart(k, ss)
    BY <2>1, RightRedone, ApartRedone
  <2>3. Ids(k) = Ids(l)
    BY <2>1, RedoneIds
  <2>4. QuestionUnnamed(l, n, ss) => QuestionUnnamed(k, n, ss)
    BY <2>1, QuestionUnnamedRedone
  <2> QED BY <2>2, <2>3, <2>4
<1> QED BY <1>1, <1>2

\* q is the panel p of the same session, with other texts of answers.
Redrawn(p, q, ss) ==
    /\ q \in Panels /\ Rewritten(p.messages, q.messages)
    /\ q.session = p.session /\ q.skip = p.skip /\ q.userId = p.userId
    /\ q.ref \in {p.ref, <<>>}
    /\ q.streaming => p.streaming /\ q.abort = p.abort
    /\ \A n \in Sends : /\ ss[n].at \in Waiting => q.sending
                        /\ ss[n].at \in Live => Followed(n, q, ss[n])

LEMMA FitsRedrawn ==
    ASSUME NEW ss, NEW p, NEW q, NEW hist, PanelFits(p, ss, hist), Redrawn(p, q, ss)
    PROVE  PanelFits(q, ss, hist)
<1>1. p \in Panels /\ Right(p.messages, ss) /\ Apart(p.messages, ss)
  BY DEF PanelFits
<1>2. p.messages \in Lists /\ Rewritten(p.messages, q.messages)
  BY <1>1 DEF Panels, Redrawn
<1>3. /\ Right(q.messages, ss) /\ Apart(q.messages, ss)
      /\ \A n \in Sends : /\ Ids(q.messages) = Ids(p.messages)
                          /\ QuestionUnnamed(p.messages, n, ss) =>
                                QuestionUnnamed(q.messages, n, ss)
  BY <1>1, <1>2, RewrittenKeeps
<1>4. ASSUME NEW n \in Sends, ss[n].at \in Live PROVE NumbersFit(n, q, ss[n], ss, hist)
  <2>1. NumbersFit(n, p, ss[n], ss, hist)
    BY <1>4 DEF PanelFits
  <2>2. q.session = p.session /\ q.userId = p.userId
    BY DEF Redrawn
  <2> QED BY <1>3, <2>1, <2>2 DEF NumbersFit, AnswerUnnamed
<1>5. q.ref = <<>> \/ q.ref[1] \in {"a", "ai"}
  BY DEF PanelFits, Redrawn
<1>6. /\ q.skip = NoSession /\ (q.streaming => q.abort \in Sends) /\ q \in Panels
      /\ \A n \in Sends : ss[n].at \in Waiting => q.sending
  BY DEF PanelFits, Redrawn
<1> QED BY <1>3, <1>4, <1>5, <1>6 DEF PanelFits, Redrawn

\* A quiet render of q shows it, but for texts of answers.
LEMMA ShowsQuietly ==
    ASSUME NEW ss, NEW p, NEW hist, PanelFits(p, ss, hist), NEW q, Redrawn(p, q, ss),
           q.aiId = p.aiId
    PROVE  Redrawn(p, Rendered(p, hist, q, hist), ss)
<1>1. p \in Panels /\ Right(p.messages, ss) /\ Apart(p.messages, ss)
  BY DEF PanelFits
<1>2. p.messages \in Lists /\ q \in Panels /\ Rewritten(p.messages, q.messages)
  BY <1>1 DEF Panels, Redrawn
<1>3. Right(q.messages, ss)
  BY <1>1, <1>2, RewrittenKeeps
<1>4. /\ q.session = p.session /\ q.userId = p.userId
      /\ q.ref = <<>> \/ q.ref[1] \in {"a", "ai"}
  BY DEF Redrawn, PanelFits
<1>5. Data(hist, q.session) = Data(hist, p.session)
  BY <1>4
<1> DEFINE s == Rendered(p, hist, q, hist)
<1>6. PICK k : Reshown(q, s, k, q.ref) /\ Rewritten(q.messages, k)
  BY <1>2, <1>3, <1>4, <1>5, QuietRender
<1> HIDE DEF s
<1>7. s \in Panels /\ SameBut(q, s) /\ s.messages = k /\ s.ref = q.ref
  BY <1>6 DEF Reshown
<1>8. Rewritten(p.messages, s.messages)
  BY <1>2, <1>6, <1>7, RewrittenTransitive
<1>9. ASSUME NEW n \in Sends, ss[n].at \in Live PROVE Followed(n, s, ss[n])
  <2>1. Followed(n, q, ss[n])
    BY <1>9 DEF Redrawn
  <2> QED BY <1>7, <2>1 DEF Followed, SameBut
<1>10. /\ s.session = p.session /\ s.skip = p.skip /\ s.userId = p.userId
       /\ s.ref \in {p.ref, <<>>} /\ (s.streaming => p.streaming /\ s.abort = p.abort)
       /\ \A n \in Sends : ss[n].at \in Waiting => s.sending
  BY <1>7 DEF Redrawn, SameBut
<1>11. Redrawn(p, s, ss)
  BY <1>7, <1>8, <1>9, <1>10 DEF Redrawn
<1> QED BY <1>11 DEF s

LEMMA FrameKeeps ==
    ASSUME PanelInvariant, Frame
    PROVE  PanelInvariant' /\ Redrawn(panel, panel', sends)
<1> DEFINE q == [panel EXCEPT !.frame = FALSE, !.buffer = <<>>,
                              !.content = panel.content \o panel.buffer]
<1>1. /\ SendsRight /\ SessionsExist /\ StoreRight(store.conv, sends, runs)
      /\ HistoryRight(history, sends, runs) /\ PanelFits(panel, sends, history)
  BY DEF PanelInvariant
<1>2. panel' = Rendered(panel, history, q, history) /\ UNCHANGED <<sends, runs, store, history>>
  BY DEF Frame, Shows
<1>3. panel \in Panels /\ panel.content \in Texts /\ panel.buffer \in Texts
  BY <1>1 DEF PanelFits, Panels
<1>4. panel.content \o panel.buffer \in Texts /\ <<>> \in Texts
  BY <1>3 DEF Texts
<1>5. /\ q \in Panels /\ q.messages = panel.messages /\ q.session = panel.session
      /\ q.skip = panel.skip /\ q.userId = panel.userId /\ q.aiId = panel.aiId
      /\ q.ref = panel.ref /\ q.streaming = panel.streaming /\ q.abort = panel.abort
      /\ q.sending = panel.sending /\ q.buffer = <<>>
      /\ q.content = panel.content \o panel.buffer
  BY <1>3, <1>4 DEF Panels
<1> HIDE DEF q
<1>6. ASSUME NEW n \in Sends, sends[n].at \in Live PROVE Followed(n, q, sends[n])
  <2>1. Followed(n, panel, sends[n])
    BY <1>1, <1>6 DEF PanelFits
  <2>2. q.content \o q.buffer = panel.content \o panel.buffer
    BY <1>4, <1>5 DEF Texts
  <2> QED BY <1>5, <2>1, <2>2 DEF Followed
<1>7. Rewritten(panel.messages, q.messages)
  <2>1. panel.messages \in Lists
    BY <1>3 DEF Panels
  <2> QED BY <1>5, <2>1, RewrittenSelf
<1>8. \A n \in Sends : sends[n].at \in Waiting => q.sending
  BY <1>1, <1>5 DEF PanelFits
<1>9. Redrawn(panel, q, sends)
  BY <1>5, <1>6, <1>7, <1>8 DEF Redrawn
<1>10. Redrawn(panel, panel', sends)
  BY <1>1, <1>2, <1>5, <1>9, ShowsQuietly
<1>11. PanelFits(panel', sends, history)
  BY <1>1, <1>10, FitsRedrawn
<1>12. SessionsExist' /\ SendsRight'
  BY <1>1, <1>2, <1>10 DEF SessionsExist, SendsRight, OneSendAtATime, Redrawn
<1> QED BY <1>1, <1>2, <1>10, <1>11, <1>12 DEF PanelInvariant

\* The send n, which was under way, is aborted or over, with the run r.
Ends(n, f, r) ==
    /\ sends[n].at \in Waiting /\ f \in HandledSends /\ f.at \in {"aborted", "over"}
    /\ f.text = sends[n].text /\ f.session = sends[n].session
    /\ r \in ServerRuns
    /\ r.at = runs[n].at \/ (runs[n].at = "none" /\ r.at = "lost")
    /\ sends[n].at = "creating" => r.at = "lost"
    /\ sends' = [sends EXCEPT ![n] = f] /\ runs' = [runs EXCEPT ![n] = r]

LEMMA OneLive ==
    ASSUME OneSendAtATime, NEW m \in Sends, NEW n \in Sends,
           sends[m].at \in Waiting, sends[n].at \in Waiting
    PROVE  m = n
<1>1. m \in Nat /\ n \in Nat
  BY DEF Sends
<1>2. sends[m].at \notin {"unsent", "over"} /\ sends[n].at \notin {"unsent", "over"}
  BY DEF Waiting
<1>3. ~(m < n) /\ ~(n < m)
  BY <1>2 DEF OneSendAtATime
<1> QED BY <1>1, <1>3

LEMMA EndsIs ==
    ASSUME PanelInvariant, NEW n \in Sends, NEW f, NEW r, Ends(n, f, r)
    PROVE  /\ SendsRight' /\ SameLive(sends, sends') /\ RunsOnward(runs, runs')
           /\ \A k \in Sends : /\ sends'[k].at \notin Live
                               /\ f.at = "over" => sends'[k].at \notin Waiting
           /\ \A k \in Sends : sends'[k].at \notin Fresh /\ runs'[k].at # "lost" =>
                                  sends'[k].session \in store.created
<1>1. SendsRight /\ SessionsExist
  BY DEF PanelInvariant
<1>2. /\ sends \in [Sends -> HandledSends] /\ runs \in [Sends -> ServerRuns]
      /\ OneSendAtATime /\ \A k \in Sends : SendRight(sends[k], runs[k])
  BY <1>1 DEF SendsRight
<1>3. /\ sends' \in [Sends -> HandledSends] /\ runs' \in [Sends -> ServerRuns]
      /\ sends'[n] = f /\ runs'[n] = r
      /\ \A k \in Sends : k # n => sends'[k] = sends[k] /\ runs'[k] = runs[k]
  BY <1>2 DEF Ends
<1>4. \A k \in Sends : k # n => sends[k].at \notin Waiting
  BY <1>2, OneLive DEF Ends
<1>5. SameLive(sends, sends')
  BY <1>3 DEF SameLive, Onward, Ends, Waiting, Live, Fresh
<1>6. RunsOnward(runs, runs')
  BY <1>3 DEF RunsOnward, Ends
<1>7. \A k \in Sends : /\ sends'[k].at \notin Live
                       /\ f.at = "over" => sends'[k].at \notin Waiting
  BY <1>3, <1>4 DEF Ends, Waiting, Live
<1>8. \A k \in Sends : sends'[k].at \notin Fresh /\ runs'[k].at # "lost" =>
                          sends'[k].session \in store.created
  BY <1>1, <1>3 DEF SessionsExist, Ends, Waiting, Fresh
<1>9. SendsRight'
  <2>1. SendRight(f, r)
    BY DEF Ends, SendRight, Fresh
  <2>2. \A k \in Sends : SendRight(sends'[k], runs'[k])
    BY <1>2, <1>3, <2>1
  <2>3. InTurn(sends, sends')
    BY <1>3 DEF InTurn, Ends, Waiting
  <2> QED BY <1>1, <1>3, <2>2, <2>3, SendsRightNext
<1> QED BY <1>5, <1>6, <1>7, <1>8, <1>9

\* And the panel shows q.
LEMMA EndsShown ==
    ASSUME PanelInvariant, NEW n \in Sends, NEW f, NEW r, Ends(n, f, r),
           NEW q, q \in Panels, Rewritten(panel.messages, q.messages),
           q.session = panel.session, q.skip = panel.skip, q.userId = panel.userId,
           q.aiId = panel.aiId, q.ref \in {panel.ref, <<>>},
           q.streaming => panel.streaming /\ q.abort = panel.abort,
           q.sending \/ f.at = "over",
           panel' = Rendered(panel, history, q, history), UNCHANGED <<store, history>>
    PROVE  PanelInvariant' /\ Redrawn(panel, panel', sends')
<1>1. /\ SessionsExist /\ StoreRight(store.conv, sends, runs)
      /\ HistoryRight(history, sends, runs) /\ PanelFits(panel, sends, history)
  BY DEF PanelInvariant
<1>2. /\ SendsRight' /\ SameLive(sends, sends') /\ RunsOnward(runs, runs')
      /\ \A k \in Sends : /\ sends'[k].at \notin Live
                          /\ f.at = "over" => sends'[k].at \notin Waiting
      /\ \A k \in Sends : sends'[k].at \notin Fresh /\ runs'[k].at # "lost" =>
                             sends'[k].session \in store.created
  BY EndsIs
<1>3. Moves(sends, sends')
  BY <1>2, SameLiveMoves
<1>4. HistoryRight(history, sends', runs') /\ StoreRight(store.conv, sends', runs')
  BY <1>1, <1>2, <1>3, HistoryOnward, StoreOnward
<1>5. PanelFits(panel, sends', history)
  <2>1. NoMoreFetched(panel, history, history)
    BY DEF NoMoreFetched
  <2> QED BY <1>1, <1>2, <2>1, FitsOnward
<1>6. Redrawn(panel, q, sends')
  BY <1>2 DEF Redrawn
<1>7. Redrawn(panel, panel', sends')
  BY <1>5, <1>6, ShowsQuietly
<1>8. PanelFits(panel', sends', history)
  BY <1>5, <1>7, FitsRedrawn
<1>9. SessionsExist'
  BY <1>1, <1>2, <1>7 DEF SessionsExist, Redrawn
<1> QED BY <1>2, <1>4, <1>7, <1>8, <1>9 DEF PanelInvariant

LEMMA CreateFailsKeeps ==
    ASSUME PanelInvariant, NEW n \in Sends, CreateFails(n)
    PROVE  PanelInvariant' /\ Redrawn(panel, panel', sends')
<1> DEFINE f == [sends[n] EXCEPT !.at = "over"]
           r == [runs[n] EXCEPT !.at = "lost"]
           q == [panel EXCEPT !.sending = FALSE]
<1>1. SendsRight /\ PanelFits(panel, sends, history)
  BY DEF PanelInvariant
<1>2. /\ sends \in [Sends -> HandledSends] /\ runs \in [Sends -> ServerRuns]
      /\ SendRight(sends[n], runs[n]) /\ panel \in Panels
  BY <1>1 DEF SendsRight, PanelFits
<1>3. /\ sends[n].at = "creating" /\ sends' = [sends EXCEPT ![n] = f]
      /\ runs' = [runs EXCEPT ![n] = r] /\ panel' = Rendered(panel, history, q, history)
      /\ UNCHANGED <<store, history>>
  BY <1>2 DEF CreateFails, Shows
<1>4. sends[n] \in HandledSends /\ runs[n] \in ServerRuns
  BY <1>2
<1>5. /\ f \in HandledSends /\ f.at = "over" /\ f.text = sends[n].text
      /\ f.session = sends[n].session
  BY <1>4 DEF HandledSends
<1>6. r \in ServerRuns /\ r.at = "lost"
  BY <1>4 DEF ServerRuns
<1>7. /\ q \in Panels /\ q.messages = panel.messages /\ q.session = panel.session
      /\ q.skip = panel.skip /\ q.userId = panel.userId /\ q.aiId = panel.aiId
      /\ q.ref = panel.ref /\ q.streaming = panel.streaming /\ q.abort = panel.abort
  BY <1>2 DEF Panels
<1> HIDE DEF f, r, q
<1>8. runs[n].at = "none" /\ sends[n].at \in Waiting
  BY <1>2, <1>3 DEF SendRight, Fresh, Waiting
<1>9. Ends(n, f, r)
  BY <1>3, <1>5, <1>6, <1>8 DEF Ends
<1>10. Rewritten(panel.messages, q.messages)
  <2>1. panel.messages \in Lists
    BY <1>2 DEF Panels
  <2> QED BY <1>7, <2>1, RewrittenSelf
<1> QED BY <1>3, <1>5, <1>7, <1>9, <1>10, EndsShown

LEMMA StopKeeps ==
    ASSUME PanelInvariant, Stop
    PROVE  PanelInvariant' /\ Redrawn(panel, panel', sends')
<1> DEFINE n == panel.abort
           f == [sends[n] EXCEPT !.at = "aborted"]
           r == [runs[n] EXCEPT !.stop = TRUE, !.wire = <<>>]
           q == [panel EXCEPT !.streaming = FALSE, !.frame = FALSE, !.buffer = <<>>,
                              !.content = panel.content \o panel.buffer]
<1>1. SendsRight /\ PanelFits(panel, sends, history)
  BY DEF PanelInvariant
<1>2. /\ panel.streaming /\ sends[n].at \in {"requesting", "reading"}
      /\ panel' = Rendered(panel, history, q, history) /\ UNCHANGED <<store, history>>
  BY DEF Stop, Shows
<1>3. n \in Sends
  BY <1>1, <1>2 DEF PanelFits
<1>4. /\ sends \in [Sends -> HandledSends] /\ runs \in [Sends -> ServerRuns]
      /\ panel \in Panels
  BY <1>1 DEF SendsRight, PanelFits
<1>5. sends' = [sends EXCEPT ![n] = f] /\ runs' = [runs EXCEPT ![n] = r]
  BY <1>3, <1>4 DEF Stop
<1>6. sends[n] \in HandledSends /\ runs[n] \in ServerRuns
  BY <1>3, <1>4
<1>7. /\ f \in HandledSends /\ f.at = "aborted" /\ f.text = sends[n].text
      /\ f.session = sends[n].session
  BY <1>6 DEF HandledSends
<1>8. r \in ServerRuns /\ r.at = runs[n].at
  <2>1. <<>> \in Seq(Events)
    OBVIOUS
  <2> QED BY <1>6, <2>1 DEF ServerRuns
<1>9. panel.content \in Texts /\ panel.buffer \in Texts
  BY <1>4 DEF Panels
<1>10. panel.content \o panel.buffer \in Texts /\ <<>> \in Texts
  BY <1>9 DEF Texts
<1>11. /\ q \in Panels /\ q.messages = panel.messages /\ q.session = panel.session
       /\ q.skip = panel.skip /\ q.userId = panel.userId /\ q.aiId = panel.aiId
       /\ q.ref = panel.ref /\ ~q.streaming /\ q.sending = panel.sending
  BY <1>4, <1>10 DEF Panels
<1> HIDE DEF n, f, r, q
<1>12. sends[n].at \in Waiting /\ sends[n].at # "creating"
  BY <1>2 DEF Waiting
<1>13. Ends(n, f, r)
  BY <1>5, <1>7, <1>8, <1>12 DEF Ends
<1>14. Rewritten(panel.messages, q.messages)
  <2>1. panel.messages \in Lists
    BY <1>4 DEF Panels
  <2> QED BY <1>11, <2>1, RewrittenSelf
<1>15. q.sending
  BY <1>1, <1>3, <1>11, <1>12 DEF PanelFits
<1> QED BY <1>2, <1>3, <1>11, <1>13, <1>14, <1>15, EndsShown

\* An answer that remains unfinished may get a text in place of none.
LEMMA UnfinishedIs ==
    ASSUME NEW p \in Panels, NEW n \in Sends, NEW ss, Right(p.messages, ss)
    PROVE  LET q == Unfinished(p, n) IN
           /\ q \in Panels /\ Rewritten(p.messages, q.messages) /\ q.session = p.session
           /\ q.skip = p.skip /\ q.userId = p.userId /\ q.aiId = p.aiId /\ q.ref = <<>>
           /\ q.streaming = p.streaming /\ q.abort = p.abort /\ q.captured = p.captured
<1> DEFINE l == p.messages
           Empty(i) == l[i].id = <<"a", n>> /\ sends[n].staleError /\ l[i].text = <<>>
           k == [i \in DOMAIN l |-> IF Empty(i) THEN [l[i] EXCEPT !.text = Fallback]
                                    ELSE l[i]]
           q == [p EXCEPT !.sending = FALSE, !.ref = <<>>, !.messages = k]
<1>1. l \in Lists /\ Fallback \in Texts
  BY DEF Panels, Fallback, Texts
<1>2. Unfinished(p, n) = q
  BY DEF Unfinished
<1>3. \A i \in DOMAIN l : l[i].role = IF l[i].id[1] \in {"u", "msg"} THEN "user"
                                      ELSE "assistant"
  BY DEF Right
<1>4. /\ k = [i \in DOMAIN l |-> k[i]]
      /\ \A i \in DOMAIN l : k[i] = IF Empty(i) THEN [l[i] EXCEPT !.text = Fallback]
                                    ELSE l[i]
  OBVIOUS
<1>5. \A i \in DOMAIN l : Empty(i) => l[i].role # "user"
  BY <1>3
<1> HIDE DEF l, k, Empty
<1>6. ASSUME NEW i \in DOMAIN l
      PROVE  /\ k[i] \in Messages /\ k[i].id = l[i].id
             /\ k[i].role = l[i].role /\ (l[i].role = "user" => k[i].text = l[i].text)
  <2>1. l[i] \in Messages
    BY <1>1, ListTyped
  <2>2. CASE Empty(i)
    <3>1. Reworded(k[i], l[i], l[i].id, Fallback)
      BY <1>1, <1>4, <2>1, <2>2, Retexted
    <3> QED BY <1>5, <2>2, <3>1 DEF Reworded
  <2>3. CASE ~Empty(i)
    BY <1>4, <2>1, <2>3
  <2> QED BY <2>2, <2>3
<1>7. Rewritten(l, k)
  BY <1>1, <1>4, <1>6, RewrittenEach
<1>8. k \in Lists
  BY <1>7 DEF Rewritten
<1>9. /\ q \in Panels /\ q.messages = k /\ q.session = p.session
      /\ q.skip = p.skip /\ q.userId = p.userId /\ q.aiId = p.aiId /\ q.ref = <<>>
      /\ q.streaming = p.streaming /\ q.abort = p.abort /\ q.captured = p.captured
  BY <1>8 DEF Panels
<1> QED BY <1>2, <1>7, <1>9 DEF l

LEMMA AbortLandsKeeps ==
    ASSUME PanelInvariant, NEW n \in Sends, AbortLands(n)
    PROVE  PanelInvariant' /\ Redrawn(panel, panel', sends')
<1> DEFINE f == [sends[n] EXCEPT !.at = "over"]
           q == Unfinished(panel, n)
<1>1. SendsRight /\ PanelFits(panel, sends, history)
  BY DEF PanelInvariant
<1>2. /\ sends \in [Sends -> HandledSends] /\ runs \in [Sends -> ServerRuns]
      /\ panel \in Panels /\ Right(panel.messages, sends)
  BY <1>1 DEF SendsRight, PanelFits
<1>3. /\ sends[n].at = "aborted" /\ sends' = [sends EXCEPT ![n] = f]
      /\ panel' = Rendered(panel, history, q, history)
      /\ UNCHANGED <<store, history, runs>>
  BY <1>2 DEF AbortLands, Shows
<1>4. sends[n] \in HandledSends /\ runs[n] \in ServerRuns /\ runs' = [runs EXCEPT ![n] = runs[n]]
  BY <1>2, <1>3
<1>5. /\ f \in HandledSends /\ f.at = "over" /\ f.text = sends[n].text
      /\ f.session = sends[n].session
  BY <1>4 DEF HandledSends
<1>6. /\ q \in Panels /\ Rewritten(panel.messages, q.messages) /\ q.session = panel.session
      /\ q.skip = panel.skip /\ q.userId = panel.userId /\ q.aiId = panel.aiId
      /\ q.ref = <<>> /\ q.streaming = panel.streaming /\ q.abort = panel.abort
  BY <1>2, UnfinishedIs
<1> HIDE DEF f, q
<1>7. Ends(n, f, runs[n])
  BY <1>3, <1>4, <1>5 DEF Ends, Waiting
<1> QED BY <1>3, <1>5, <1>6, <1>7, EndsShown

LEMMA RequestFailsKeeps ==
    ASSUME PanelInvariant, NEW n \in Sends, RequestFails(n)
    PROVE  PanelInvariant' /\ Redrawn(panel, panel', sends')
<1> DEFINE f == [sends[n] EXCEPT !.at = "over"]
           at == IF runs[n].at = "none" THEN "lost" ELSE runs[n].at
           r == [runs[n] EXCEPT !.at = at, !.wire = <<>>]
           p == [panel EXCEPT !.error = TRUE, !.streaming = FALSE]
           q == Unfinished(p, n)
<1>1. SendsRight /\ PanelFits(panel, sends, history)
  BY DEF PanelInvariant
<1>2. /\ sends \in [Sends -> HandledSends] /\ runs \in [Sends -> ServerRuns]
      /\ panel \in Panels /\ Right(panel.messages, sends)
  BY <1>1 DEF SendsRight, PanelFits
<1>3. /\ sends[n].at \in {"requesting", "reading"} /\ sends' = [sends EXCEPT ![n] = f]
      /\ runs' = [runs EXCEPT ![n] = r]
      /\ panel' = Rendered(panel, history, q, history) /\ UNCHANGED <<store, history>>
  BY <1>2 DEF RequestFails, Shows
<1>4. sends[n] \in HandledSends /\ runs[n] \in ServerRuns
  BY <1>2
<1>5. /\ f \in HandledSends /\ f.at = "over" /\ f.text = sends[n].text
      /\ f.session = sends[n].session
  BY <1>4 DEF HandledSends
<1>6. r \in ServerRuns /\ (r.at = runs[n].at \/ (runs[n].at = "none" /\ r.at = "lost"))
  <2>1. <<>> \in Seq(Events)
    OBVIOUS
  <2>2. /\ at \in {"none", "lost", "running", "completed", "saved", "closed"}
        /\ at = runs[n].at \/ (runs[n].at = "none" /\ at = "lost")
    BY <1>4 DEF ServerRuns
  <2> HIDE DEF at
  <2>3. r \in ServerRuns /\ r.at = at
    BY <1>4, <2>1, <2>2 DEF ServerRuns
  <2> QED BY <2>2, <2>3
<1>7. /\ p \in Panels /\ p.messages = panel.messages /\ p.session = panel.session
      /\ p.skip = panel.skip /\ p.userId = panel.userId /\ p.aiId = panel.aiId
      /\ ~p.streaming /\ p.abort = panel.abort
  BY <1>2 DEF Panels
<1> HIDE DEF p
<1>8. /\ q \in Panels /\ Rewritten(p.messages, q.messages) /\ q.session = p.session
      /\ q.skip = p.skip /\ q.userId = p.userId /\ q.aiId = p.aiId
      /\ q.ref = <<>> /\ q.streaming = p.streaming /\ q.abort = p.abort
  BY <1>2, <1>7, UnfinishedIs
<1> HIDE DEF f, r, q
<1>9. Ends(n, f, r)
  BY <1>3, <1>5, <1>6 DEF Ends, Waiting
<1> QED BY <1>3, <1>5, <1>7, <1>8, <1>9, EndsShown

-----------------------------------------------------------------------------
(* The steps that bring a history.                                         *)

LEMMA StoredIsCached ==
    ASSUME NEW ss, NEW rr, NEW l, StoredRight(l, ss, rr)
    PROVE  /\ CachedRight(l, ss) /\ ~HasLocal(l)
           /\ \A n : <<"a", n>> \notin Ids(l) /\ <<"u", n>> \notin Ids(l)
           /\ \A i \in DOMAIN l : \A n \in Sends : l[i].id = <<"msg", n>> =>
                 l[i].role = "user" /\ l[i].text = Typed(ss[n].text)
<1>1. l \in Lists /\ Right(l, ss) /\ Stored(l, ss, rr)
  BY DEF StoredRight
<1>2. /\ Apart(l, ss) /\ ~HasLocal(l)
      /\ \A i \in DOMAIN l : \A n \in Sends : l[i].id = <<"msg", n>> =>
            l[i].role = "user" /\ l[i].text = Typed(ss[n].text)
  BY <1>1, StoredIsRight
<1>3. \A i \in DOMAIN l : l[i].id[1] \in {"msg", "ai"}
  BY <1>1 DEF Stored
<1>4. ASSUME NEW n, NEW kind \in {"a", "u"} PROVE <<kind, n>> \notin Ids(l)
  <2> SUFFICES ASSUME NEW i \in DOMAIN l, l[i].id = <<kind, n>> PROVE FALSE
    BY DEF Ids
  <2>1. l[i].id[1] = kind
    OBVIOUS
  <2> QED BY <1>3, <1>4, <2>1
<1>5. \A n : <<"a", n>> \notin Ids(l) /\ <<"u", n>> \notin Ids(l)
  BY <1>4
<1>6. CachedRight(l, ss)
  BY <1>1, <1>2, <1>5 DEF CachedRight, Settled
<1> QED BY <1>2, <1>5, <1>6

\* A render of the same panel with another history.
LEMMA HistoryRender ==
    ASSUME NEW p, NEW hist, NEW hist2
    PROVE  Rendered(p, hist, p, hist2) =
              IF Data(hist2, p.session) = Data(hist, p.session) THEN p
              ELSE HistoryEffect(p, Data(hist2, p.session))
BY DEF Rendered

\* What was stored when it was fetched comes before what is shown.
FetchShown(p, q, ss, rr) ==
    \/ q = p
    \/ \E stored : /\ StoredRight(stored, ss, rr)
                   /\ q = [p EXCEPT !.messages = Merged(stored, p.messages)]

LEMMA FetchShownFits ==
    ASSUME NEW p, NEW ss, NEW rr, NEW hist, NEW hist2, PanelFits(p, ss, hist),
           p.session # NoSession, hist2[p.session].fetch = NoFetch,
           NEW stored \in hist[p.session].fetch, StoredRight(stored, ss, rr),
           NEW q, q = [p EXCEPT !.messages = Merged(stored, p.messages)]
    PROVE  PanelFits(q, ss, hist2)
<1> DEFINE l == p.messages
           k == Merged(stored, l)
<1>1. p \in Panels /\ Right(l, ss) /\ Apart(l, ss)
  BY DEF PanelFits
<1>2. l \in Lists
  BY <1>1 DEF Panels
<1>3. /\ CachedRight(stored, ss) /\ ~HasLocal(stored)
      /\ \A n : <<"a", n>> \notin Ids(stored) /\ <<"u", n>> \notin Ids(stored)
      /\ \A i \in DOMAIN stored : \A n \in Sends : stored[i].id = <<"msg", n>> =>
            stored[i].role = "user" /\ stored[i].text = Typed(ss[n].text)
  BY StoredIsCached
<1>4. stored \in Lists /\ Right(stored, ss) /\ Apart(stored, ss)
  BY <1>3 DEF CachedRight
<1>5. PICK g : IsMerged(k, stored, l, g)
  BY <1>2, <1>4, Merges
<1> HIDE DEF k
<1>6. k \in Lists
  BY <1>5 DEF IsMerged
<1>7. Reshown(p, q, k, p.ref)
  BY <1>1, <1>6, WithMessages DEF k
<1>8. Right(k, ss)
  BY <1>1, <1>2, <1>4, <1>5, RightMerged
<1>9. Apart(k, ss)
  BY <1>1, <1>2, <1>4, <1>5, ApartMerged
<1>10. Ids(k) \subseteq Ids(stored) \cup Ids(l)
  BY <1>2, <1>4, <1>5, IdsMerged
<1>11. ASSUME NEW n \in Sends, ss[n].at \in Live
       PROVE  Followed(n, q, ss[n]) /\ NumbersFit(n, q, ss[n], ss, hist2)
  <2>1. Followed(n, p, ss[n]) /\ NumbersFit(n, p, ss[n], ss, hist)
    BY <1>11 DEF PanelFits
  <2>2. Followed(n, q, ss[n])
    BY <1>7, <2>1 DEF Reshown, SameBut, Followed
  <2>3. /\ AnswerUnnamed(l, n)
        /\ <<"a", n>> \in Ids(l) => ~ss[n].named /\ <<"ai", n>> \notin Ids(stored)
        /\ p.userId = 0 => QuestionUnnamed(l, n, ss)
    BY <2>1 DEF NumbersFit
  <2>4. <<"a", n>> \in Ids(k) => <<"a", n>> \in Ids(l)
    BY <1>3, <1>10
  <2>5. AnswerUnnamed(k, n)
    BY <1>10, <2>3, <2>4 DEF AnswerUnnamed
  <2>6. p.userId = 0 => QuestionUnnamed(k, n, ss)
    <3>1. \A i \in DOMAIN stored : stored[i].id = <<"msg", n>> =>
             stored[i].role = "user" /\ stored[i].text = Typed(ss[n].text)
      BY <1>3
    <3> QED BY <1>1, <1>2, <1>3, <1>4, <1>5, <2>3, <3>1, QuestionUnnamedMerged
  <2>7. q.messages = k /\ q.userId = p.userId /\ q.session = p.session
    BY <1>7 DEF Reshown, SameBut
  <2> QED BY <2>2, <2>3, <2>4, <2>5, <2>6, <2>7 DEF NumbersFit, NoFetch
<1>12. /\ q \in Panels /\ q.messages = k /\ q.ref = p.ref /\ q.skip = p.skip
       /\ q.streaming = p.streaming /\ q.abort = p.abort /\ q.sending = p.sending
  BY <1>7 DEF Reshown, SameBut
<1> QED BY <1>8, <1>9, <1>11, <1>12 DEF PanelFits

LEMMA FetchLandsKeeps ==
    ASSUME PanelInvariant, NEW s \in ChatSessions, FetchLands(s)
    PROVE  PanelInvariant' /\ FetchShown(panel, panel', sends, runs)
<1> DEFINE new == [data |-> history[s].fetch, fetch |-> NoFetch]
<1>1. /\ SendsRight /\ SessionsExist /\ StoreRight(store.conv, sends, runs)
      /\ HistoryRight(history, sends, runs) /\ PanelFits(panel, sends, history)
  BY DEF PanelInvariant
<1>2. /\ history[s].fetch # NoFetch /\ history' = [history EXCEPT ![s] = new]
      /\ panel' = Rendered(panel, history, panel, history')
      /\ UNCHANGED <<sends, runs, store>>
  BY DEF FetchLands
<1>3. history \in [ChatSessions -> [data : SUBSET Lists, fetch : SUBSET Lists]]
  BY <1>1 DEF HistoryRight
<1>4. /\ history' \in [ChatSessions -> [data : SUBSET Lists, fetch : SUBSET Lists]]
      /\ history'[s].data = history[s].fetch /\ history'[s].fetch = NoFetch
      /\ \A t \in ChatSessions : t # s => history'[t] = history[t]
  BY <1>2, <1>3 DEF NoFetch
<1> HIDE DEF new
<1>5. \A list \in history[s].fetch : StoredRight(list, sends, runs) /\ CachedRight(list, sends)
  <2>1. \A list \in history[s].fetch : StoredRight(list, sends, runs)
    BY <1>1 DEF HistoryRight
  <2> QED BY <2>1, StoredIsCached
<1>6. HistoryRight(history', sends, runs)
  <2>1. \A list \in history'[s].fetch : StoredRight(list, sends, runs)
    BY <1>4 DEF NoFetch
  <2>2. \A list \in history'[s].data : CachedRight(list, sends)
    BY <1>4, <1>5
  <2> QED BY <1>1, <1>4, <2>1, <2>2 DEF HistoryRight
<1>7. PanelFits(panel', sends, history') /\ FetchShown(panel, panel', sends, runs)
  <2>1. NoMoreFetched(panel, history, history')
    <3>1. panel.session # NoSession => panel.session \in ChatSessions
      BY <1>1 DEF SessionsExist
    <3> QED BY <1>4, <3>1 DEF NoMoreFetched, NoFetch
  <2>2. PanelFits(panel, sends, history')
    BY <1>1, <2>1, SameSelf, FitsOnward
  <2>3. CASE Data(history', panel.session) = Data(history, panel.session)
    <3>1. panel' = panel
      BY <1>2, <2>3, HistoryRender
    <3> QED BY <2>2, <3>1 DEF FetchShown
  <2>4. CASE Data(history', panel.session) # Data(history, panel.session)
    <3>1. panel.session = s /\ s # NoSession /\ Data(history', panel.session) = history[s].fetch
      BY <1>1, <1>4, <2>4 DEF Data, SessionsExist
    <3> DEFINE stored == The(history[s].fetch)
    <3>2. stored \in history[s].fetch
      BY <1>2 DEF The, NoFetch
    <3>3. panel' = [panel EXCEPT !.messages = Merged(stored, panel.messages)]
      BY <1>2, <2>4, <3>1, HistoryRender DEF HistoryEffect, NoFetch, NotLoaded
    <3> HIDE DEF stored
    <3>4. StoredRight(stored, sends, runs) /\ history'[s].fetch = NoFetch
      BY <1>4, <1>5, <3>2
    <3>5. FetchShown(panel, panel', sends, runs)
      BY <3>3, <3>4 DEF FetchShown
    <3>6. PanelFits(panel', sends, history')
      BY <1>1, <3>1, <3>2, <3>3, <3>4, FetchShownFits
    <3> QED BY <3>5, <3>6
  <2> QED BY <2>3, <2>4
<1>8. panel'.session = panel.session
  <2>1. panel \in Panels
    BY <1>1 DEF PanelFits
  <2> QED BY <1>7, <2>1 DEF FetchShown, Panels
<1>9. SessionsExist'
  <2>1. \A t \in ChatSessions \ store.created : t # s
    BY <1>1, <1>2 DEF SessionsExist
  <2> QED BY <1>1, <1>2, <1>4, <1>8, <2>1 DEF SessionsExist
<1>10. SendsRight'
  BY <1>1, <1>2 DEF SendsRight, OneSendAtATime
<1> QED BY <1>1, <1>2, <1>6, <1>7, <1>9, <1>10 DEF PanelInvariant

-----------------------------------------------------------------------------
(* Another session is opened.                                              *)

LEMMA MergedNothing ==
    ASSUME NEW stored \in Lists
    PROVE  Merged(stored, <<>>) = stored
<1>1. <<>> \in Lists /\ Len(<<>>) = 0
  BY DEF Lists
<1>2. PICK t : /\ Merged(stored, <<>>) = stored \o t
               /\ Left(<<>>, Len(<<>>), t, {m \in Messages : IsNotAmong(m, stored)})
  BY <1>1, MergedIs
<1>3. t \in Lists /\ Len(t) \in Nat /\ \E g : g \in [1..Len(t) -> 1..0]
  BY <1>1, <1>2, ListTyped DEF Left, Tracks
<1>4. Len(t) = 0
  <2>1. SUFFICES ASSUME Len(t) # 0 PROVE FALSE
    OBVIOUS
  <2>2. PICK g : g \in [1..Len(t) -> 1..0]
    BY <1>3
  <2>3. 1 \in 1..Len(t) /\ 1..0 = {}
    BY <1>3, <2>1
  <2> QED BY <2>2, <2>3
<1>5. t = <<>>
  BY <1>3, <1>4 DEF Lists
<1> QED BY <1>2, <1>5 DEF Lists

\* What is cached, or nothing, awaits no number.
LEMMA CachedFits ==
    ASSUME NEW ss, NEW l, CachedRight(l, ss), NEW n \in Sends, ss[n].at \in Live
    PROVE  /\ <<"a", n>> \notin Ids(l) /\ AnswerUnnamed(l, n)
           /\ QuestionUnnamed(l, n, ss)
<1>1. Settled(l, n)
  BY DEF CachedRight
<1>2. <<"a", n>> \notin Ids(l) /\ <<"u", n>> \notin Ids(l)
      /\ (<<"msg", n>> \in Ids(l) => ~HasLocal(l))
  BY <1>1 DEF Settled
<1>3. QuestionUnnamed(l, n, ss)
  BY <1>2 DEF QuestionUnnamed, Ids, HasLocal
<1> QED BY <1>2, <1>3 DEF AnswerUnnamed

LEMMA NothingCached ==
    ASSUME NEW ss
    PROVE  CachedRight(<<>>, ss)
<1>1. <<>> \in Lists /\ DOMAIN <<>> = {}
  BY DEF Lists
<1> QED BY <1>1 DEF CachedRight, Right, Apart, Settled, Ids, HasLocal

\* q is the panel p at session s, with the messages l.
Opened(p, q, s, l) ==
    /\ q \in Panels /\ q.session = s /\ q.messages = l /\ q.skip = NoSession
    /\ q.streaming = p.streaming /\ q.sending = p.sending /\ q.ref = p.ref
    /\ q.abort = p.abort /\ q.content = p.content /\ q.buffer = p.buffer
    /\ q.aiId = p.aiId /\ q.userId = p.userId

LEMMA OpenedIs ==
    ASSUME NEW p \in Panels, p.skip = NoSession, NEW s \in ChatSessions \cup {NoSession},
           s # p.session, NEW hist, NEW hist2,
           s # NoSession => hist2[s].data \subseteq Lists
    PROVE  \E l : /\ Opened(p, Rendered(p, hist, [p EXCEPT !.session = s], hist2), s, l)
                  /\ l = <<>> \/ (s # NoSession /\ l \in hist2[s].data)
<1> DEFINE q == [p EXCEPT !.session = s]
           c == [q EXCEPT !.captured = q.content]
           p1 == ResetEffect(c)
           data == Data(hist2, s)
           p2 == IF data = Data(hist, p.session) THEN p1 ELSE HistoryEffect(p1, data)
           With(r, l) == Opened(p, r, s, l)
                         /\ r.content = q.content /\ r.streaming = q.streaming
<1>1. <<>> \in Lists
  BY DEF Lists
<1>2. /\ q.session = s /\ q.content = p.content /\ q.streaming = p.streaming
      /\ q.aiId = p.aiId /\ q.userId = p.userId
  BY DEF Panels
<1>3. Rendered(p, hist, q, hist2) = p2
  BY <1>2 DEF Rendered
<1>4. c.skip = NoSession /\ c.session = s /\ c \in Panels
  BY DEF Panels
<1>5. p1 = [c EXCEPT !.skip = NoSession, !.messages = <<>>]
  BY <1>4 DEF ResetEffect
<1>6. Opened(p, p1, s, <<>>)
  BY <1>1, <1>5 DEF Opened, Panels
<1> HIDE DEF p1
<1>7. ASSUME NEW l \in Lists PROVE Opened(p, [p1 EXCEPT !.messages = l], s, l)
  BY <1>6, <1>7 DEF Opened, Panels
<1>8. p1.messages = <<>> /\ p1.session = s
  BY <1>6 DEF Opened
<1>9. CASE p2 = p1
  BY <1>3, <1>6, <1>9
<1>10. CASE p2 # p1
  <2>1. p2 = HistoryEffect(p1, data)
    BY <1>10
  <2>2. CASE s = NoSession
    <3>1. p2 = [p1 EXCEPT !.messages = <<>>]
      BY <1>8, <2>1, <2>2 DEF HistoryEffect
    <3> QED BY <1>1, <1>3, <1>7, <3>1
  <2>3. CASE s # NoSession
    <3>1. data = hist2[s].data /\ data # NotLoaded
      BY <1>8, <1>10, <2>1, <2>3 DEF HistoryEffect, Data
    <3> DEFINE stored == The(data)
    <3>2. stored \in hist2[s].data
      BY <3>1 DEF The, NotLoaded
    <3>3. stored \in Lists
      BY <2>3, <3>2
    <3>4. p2 = [p1 EXCEPT !.messages = Merged(stored, <<>>)]
      BY <1>8, <2>1, <2>3, <3>1 DEF HistoryEffect
    <3> HIDE DEF stored, p2
    <3>5. p2 = [p1 EXCEPT !.messages = stored]
      BY <3>3, <3>4, MergedNothing
    <3> QED BY <1>3, <1>7, <2>3, <3>2, <3>3, <3>5
  <2> QED BY <2>2, <2>3
<1> QED BY <1>9, <1>10

LEMMA OpenedFits ==
    ASSUME NEW p, NEW ss, NEW hist, NEW hist2, PanelFits(p, ss, hist),
           NEW s, NEW l, NEW q, Opened(p, q, s, l), CachedRight(l, ss)
    PROVE  PanelFits(q, ss, hist2)
<1>1. /\ q \in Panels /\ q.messages = l /\ q.ref = p.ref /\ q.skip = NoSession
      /\ q.streaming = p.streaming /\ q.abort = p.abort /\ q.sending = p.sending
  BY DEF Opened
<1>2. Right(l, ss) /\ Apart(l, ss)
  BY DEF CachedRight
<1>3. ASSUME NEW n \in Sends, ss[n].at \in Live
      PROVE  Followed(n, q, ss[n]) /\ NumbersFit(n, q, ss[n], ss, hist2)
  <2>1. Followed(n, p, ss[n])
    BY <1>3 DEF PanelFits
  <2>2. Followed(n, q, ss[n])
    BY <2>1 DEF Opened, Followed
  <2>3. <<"a", n>> \notin Ids(l) /\ AnswerUnnamed(l, n) /\ QuestionUnnamed(l, n, ss)
    BY <1>3, CachedFits
  <2> QED BY <1>1, <2>2, <2>3 DEF NumbersFit
<1> QED BY <1>1, <1>2, <1>3 DEF PanelFits

LEMMA OpenSessionKeeps ==
    ASSUME PanelInvariant, NEW s \in ChatSessions \cup {NoSession}, OpenSession(s)
    PROVE  PanelInvariant' /\ panel'.session # panel.session
<1>1. /\ SendsRight /\ SessionsExist /\ StoreRight(store.conv, sends, runs)
      /\ HistoryRight(history, sends, runs) /\ PanelFits(panel, sends, history)
  BY DEF PanelInvariant
<1>2. /\ s # panel.session /\ s \in store.created \cup {NoSession}
      /\ panel' = Rendered(panel, history, [panel EXCEPT !.session = s], history')
      /\ UNCHANGED <<sends, runs, store>>
      /\ history' = history \/ (s # NoSession /\ history' = Fetching(history, s, store.conv[s]))
  BY DEF OpenSession, Fetching
<1>3. /\ HistoryRight(history', sends, runs)
      /\ \A t \in ChatSessions : t # s => history'[t] = history[t]
  <2>1. CASE s # NoSession /\ history' = Fetching(history, s, store.conv[s])
    <3>1. s \in ChatSessions /\ StoredRight(store.conv[s], sends, runs)
      BY <1>1, <2>1 DEF StoreRight
    <3>2. /\ HistoryRight(Fetching(history, s, store.conv[s]), sends, runs)
          /\ \A t \in ChatSessions : t # s =>
                Fetching(history, s, store.conv[s])[t] = history[t]
      BY <1>1, <3>1, FetchingIs
    <3> QED BY <2>1, <3>2
  <2> QED BY <1>1, <1>2, <2>1
<1>4. panel \in Panels /\ panel.skip = NoSession
  BY <1>1 DEF PanelFits
<1>5. s # NoSession => history'[s].data \subseteq Lists
  BY <1>3 DEF HistoryRight, CachedRight
<1>6. PICK l : /\ Opened(panel, panel', s, l)
               /\ l = <<>> \/ (s # NoSession /\ l \in history'[s].data)
  BY <1>2, <1>4, <1>5, OpenedIs
<1>7. CachedRight(l, sends)
  BY <1>3, <1>6, NothingCached DEF HistoryRight
<1>8. PanelFits(panel', sends, history')
  BY <1>1, <1>6, <1>7, OpenedFits
<1>9. panel'.session = s
  BY <1>6 DEF Opened
<1>10. SessionsExist'
  <2>1. \A t \in ChatSessions \ store.created : history'[t] = history[t]
    <3>1. ChatPanelAssumption
      BY ChatPanelAssumption
    <3> QED BY <1>2, <1>3, <3>1 DEF ChatPanelAssumption
  <2> QED BY <1>1, <1>2, <1>9, <2>1 DEF SessionsExist
<1>11. SendsRight'
  BY <1>1, <1>2 DEF SendsRight, OneSendAtATime
<1> QED BY <1>1, <1>2, <1>3, <1>8, <1>9, <1>10, <1>11 DEF PanelInvariant

-----------------------------------------------------------------------------
(* A send begins.                                                          *)

\* x is the panel p after a click that sent n.
Started(x, p, n, text) ==
    /\ x \in Panels /\ Begun(p.messages, x.messages, n, text)
    /\ x.ref = <<"a", n>> /\ x.content = <<>> /\ x.buffer = <<>> /\ x.streaming
    /\ x.aiId = 0 /\ x.userId = 0 /\ x.abort = n /\ x.sending /\ x.skip = NoSession

\* The send n begins, and is the only one.
Begins(n, text, ss, ss2) ==
    /\ Onward(ss, ss2) /\ ss[n].at \in Fresh /\ ss2[n].at = "requesting"
    /\ ss2[n].text = text /\ ~ss2[n].named /\ ss2[n].read = <<>>
    /\ \A m \in Sends : m # n => ss2[m].at \notin Waiting

\* No fetch in flight brings the answer n to the session of x.
NotFetched(x, n, hist) ==
    x.session # NoSession =>
        \A list \in hist[x.session].fetch : <<"ai", n>> \notin Ids(list)

\* y is x, or x with what is being streamed.
Streamed(x, y) == y = x \/ y = StreamEffect(x)

\* y fits, and shows what p has shown.
FitsAfter(p, x, y, ss, hist) ==
    PanelFits(y, ss, hist) /\ InPlace(p.messages, y.messages) /\ y.session = x.session

LEMMA StartedFits ==
    ASSUME NEW ss, NEW ss2, NEW n \in Sends, NEW text, Begins(n, text, ss, ss2),
           NEW p \in Panels, Right(p.messages, ss), Apart(p.messages, ss),
           NEW x, Started(x, p, n, text), NEW hist2, NotFetched(x, n, hist2),
           NEW y, Streamed(x, y)
    PROVE  FitsAfter(p, x, y, ss2, hist2)
<1> DEFINE l == p.messages
           k == x.messages
<1>1. Begun(l, k, n, text) /\ x \in Panels
  BY DEF Started
<1>2. l \in Lists /\ k \in Lists
  BY <1>1 DEF Panels
<1>3. /\ Onward(ss, ss2) /\ ss[n].at \in Fresh /\ ss2[n].at \notin Fresh
      /\ ss2[n].text = text
  BY DEF Begins, Fresh
<1>4. /\ Right(k, ss2) /\ Apart(k, ss2) /\ AnswerUnnamed(k, n)
      /\ QuestionUnnamed(k, n, ss2)
  BY <1>1, <1>3, BegunKeeps
<1>5. PICK m : Reshown(x, y, m, x.ref) /\ Rewritten(k, m)
  <2>1. x.ref = <<>> \/ x.ref[1] \in {"a", "ai"}
    BY DEF Started
  <2>2. CASE y = x
    <3>1. Rewritten(k, k)
      BY <1>2, RewrittenSelf
    <3>2. Reshown(x, y, k, x.ref)
      BY <1>1, <2>2 DEF Reshown, SameBut
    <3> QED BY <3>1, <3>2
  <2>3. CASE y = StreamEffect(x)
    BY <1>1, <1>4, <2>1, <2>3, StreamIs
  <2> QED BY <2>2, <2>3 DEF Streamed
<1>6. /\ Right(m, ss2) /\ Apart(m, ss2) /\ Ids(m) = Ids(k)
      /\ QuestionUnnamed(m, n, ss2)
  BY <1>2, <1>4, <1>5, RewrittenKeeps
<1>7. InPlace(l, m)
  <2>1. InPlace(l, k)
    <3>1. DOMAIN l \subseteq DOMAIN k /\ \A i \in DOMAIN l : k[i] = l[i]
      <4>1. /\ DOMAIN l = 1..Len(l) /\ DOMAIN k = 1..(Len(l) + 2) /\ Len(l) \in Nat
            /\ \A i \in DOMAIN l : k[i] = l[i]
        BY <1>1, BegunIs
      <4> QED BY <4>1
    <3> QED BY <3>1 DEF InPlace, Follows
  <2>2. Redone(k, m, n, "a")
    BY <1>5 DEF Rewritten
  <2>3. InPlace(k, m)
    BY <1>4, <2>2, InPlaceRedone
  <2> QED BY <2>1, <2>3, InPlaceTransitive
<1>8. /\ y \in Panels /\ y.messages = m /\ y.ref = <<"a", n>> /\ y.session = x.session
      /\ y.content = <<>> /\ y.buffer = <<>> /\ y.streaming /\ y.aiId = 0 /\ y.userId = 0
      /\ y.abort = n /\ y.sending /\ y.skip = NoSession
  BY <1>5 DEF Reshown, SameBut, Started
<1>9. Followed(n, y, ss2[n])
  <2>1. <<>> \o <<>> = <<>>
    OBVIOUS
  <2> QED BY <1>8, <2>1 DEF Followed, Begins
<1>10. NumbersFit(n, y, ss2[n], ss2, hist2)
  <2>1. AnswerUnnamed(m, n)
    BY <1>4, <1>6 DEF AnswerUnnamed
  <2> QED BY <1>6, <1>8, <2>1 DEF NumbersFit, Begins, NotFetched
<1>11. \A j \in Sends : ss2[j].at \in Live => j = n
  BY DEF Begins, Live, Waiting
<1>12. y.ref[1] = "a"
  BY <1>8
<1>13. PanelFits(y, ss2, hist2)
  BY <1>6, <1>8, <1>9, <1>10, <1>11, <1>12 DEF PanelFits
<1> QED BY <1>7, <1>8, <1>13 DEF FitsAfter

\* The panel that is set up for a send.
LEMMA SetUpIs ==
    ASSUME NEW p \in Panels, p.sending, NEW n \in Sends, NEW text \in Nat
    PROVE  LET x == SetUp(p, n, text) IN
           /\ x \in Panels /\ Begun(p.messages, x.messages, n, text)
           /\ x.ref = <<"a", n>> /\ x.content = <<>> /\ x.buffer = <<>> /\ x.streaming
           /\ x.aiId = 0 /\ x.userId = 0 /\ x.abort = n /\ x.sending
           /\ x.skip = p.skip /\ x.session = p.session
<1> DEFINE l == p.messages
           k == l \o <<Message(<<"u", n>>, "user", Typed(text)),
                       Message(<<"a", n>>, "assistant", <<>>)>>
           y == [p EXCEPT !.messages = k, !.ref = <<"a", n>>, !.content = <<>>,
                          !.buffer = <<>>]
           x == [y EXCEPT !.streaming = TRUE, !.aiId = 0, !.userId = 0,
                          !.error = FALSE, !.abort = n]
<1>1. SetUp(p, n, text) = x
  BY DEF SetUp
<1>2. l \in Lists
  BY DEF Panels
<1>3. Begun(l, k, n, text)
  BY <1>2 DEF Begun
<1>4. k \in Lists
  BY <1>3, BegunIs
<1> HIDE DEF k
<1>5. <<"a", n>> \in MessageIds
  BY DEF MessageIds
<1>6. <<>> \in Texts /\ n \in 0..MaxSends /\ 0 \in 0..MaxSends
  BY ChatPanelAssumption DEF Texts, Sends, ChatPanelAssumption
<1>7. /\ y \in Panels /\ y.messages = k /\ y.ref = <<"a", n>> /\ y.content = <<>>
      /\ y.buffer = <<>> /\ y.sending /\ y.skip = p.skip /\ y.session = p.session
  BY <1>4, <1>5, <1>6 DEF Panels
<1> HIDE DEF y
<1>8. /\ x \in Panels /\ x.messages = k
      /\ x.ref = <<"a", n>> /\ x.content = <<>> /\ x.buffer = <<>> /\ x.streaming
      /\ x.aiId = 0 /\ x.userId = 0 /\ x.abort = n /\ x.sending
      /\ x.skip = p.skip /\ x.session = p.session
  BY <1>6, <1>7 DEF Panels
<1> QED BY <1>1, <1>3, <1>8

LEMMA TextsAreNumbers ==
    \A text \in SendTexts : text \in Nat
<1>1. SendTexts \subseteq Nat \ {0}
  BY ChatPanelAssumption DEF ChatPanelAssumption
<1> QED BY <1>1

\* The only send that is under way begins, or has begun.
LEMMA BeginsIs ==
    ASSUME PanelInvariant, NEW n \in Sends, sends[n].at \in Fresh,
           \A m \in Sends : m # n => sends[m].at \notin Waiting,
           \A m \in Sends : m < n => sends[m].at = "over",
           NEW f \in HandledSends, f.at \in {"creating", "requesting"},
           f.read = sends[n].read, f.final = sends[n].final, f.named = sends[n].named,
           sends' = [sends EXCEPT ![n] = f], UNCHANGED runs
    PROVE  /\ SendsRight' /\ Moves(sends, sends')
           /\ f.at = "requesting" => Begins(n, f.text, sends, sends')
<1>1. SendsRight
  BY DEF PanelInvariant
<1>2. /\ sends \in [Sends -> HandledSends] /\ runs \in [Sends -> ServerRuns]
      /\ \A m \in Sends : SendRight(sends[m], runs[m])
  BY <1>1 DEF SendsRight
<1>3. /\ sends' \in [Sends -> HandledSends] /\ sends'[n] = f
      /\ \A m \in Sends : m # n => sends'[m] = sends[m]
  BY <1>2
<1>4. Onward(sends, sends')
  BY <1>3 DEF Onward
<1>5. Moves(sends, sends')
  BY <1>3, <1>4 DEF Moves, Live, Fresh, Waiting
<1>6. \A m \in Sends : SendRight(sends'[m], runs'[m])
  <2>1. SendRight(f, runs[n])
    BY <1>2 DEF SendRight, Fresh
  <2> QED BY <1>2, <1>3, <2>1
<1>7. InTurn(sends, sends')
  BY <1>3 DEF InTurn, Fresh
<1>8. SendsRight'
  BY <1>1, <1>2, <1>3, <1>6, <1>7, SendsRightNext
<1>9. ASSUME f.at = "requesting" PROVE Begins(n, f.text, sends, sends')
  <2>1. ~sends[n].named /\ sends[n].read = <<>>
    BY <1>2 DEF SendRight
  <2> QED BY <1>3, <1>4, <1>9, <2>1 DEF Begins
<1> QED BY <1>5, <1>8, <1>9

LEMMA NoneWaits ==
    ASSUME PanelInvariant, ~panel.sending
    PROVE  \A m \in Sends : sends[m].at \notin Waiting
BY DEF PanelInvariant, PanelFits

LEMMA ClickSendKeeps ==
    ASSUME PanelInvariant, NEW n \in Sends, NEW text \in SendTexts, ClickSend(n, text)
    PROVE  PanelInvariant' /\ InPlace(panel.messages, panel'.messages)
<1> DEFINE new == panel.session = NoSession
           at == IF new THEN "creating" ELSE "requesting"
           f == [sends[n] EXCEPT !.at = at, !.session = panel.session, !.text = text,
                                 !.captured = panel.captured, !.staleError = panel.error]
           busy == [panel EXCEPT !.sending = TRUE]
           x == SetUp(busy, n, text)
<1>1. /\ SendsRight /\ SessionsExist /\ StoreRight(store.conv, sends, runs)
      /\ HistoryRight(history, sends, runs) /\ PanelFits(panel, sends, history)
  BY DEF PanelInvariant
<1>2. /\ MaySend /\ sends[n].at = "unsent" /\ \A m \in 1..(n - 1) : sends[m].at # "unsent"
      /\ sends' = [sends EXCEPT ![n] = f]
      /\ panel' = Rendered(panel, history, IF new THEN busy ELSE x, history)
      /\ UNCHANGED <<history, runs, store>>
  BY DEF ClickSend, Shows
<1>3. /\ sends \in [Sends -> HandledSends] /\ runs \in [Sends -> ServerRuns]
      /\ panel \in Panels /\ Right(panel.messages, sends) /\ Apart(panel.messages, sends)
      /\ panel.skip = NoSession
  BY <1>1 DEF SendsRight, PanelFits
<1>4. sends[n] \in HandledSends
  BY <1>3
<1>5. /\ f \in HandledSends /\ f.at = at /\ f.session = panel.session /\ f.text = text
      /\ f.read = sends[n].read /\ f.final = sends[n].final /\ f.named = sends[n].named
  <2>1. at \in {"creating", "requesting"}
    OBVIOUS
  <2>2. /\ panel.session \in ChatSessions \cup {NoSession} /\ panel.captured \in Texts
        /\ panel.error \in BOOLEAN
    BY <1>3 DEF Panels
  <2> HIDE DEF at
  <2> QED BY <1>4, <2>1, <2>2 DEF HandledSends
<1>6. /\ busy \in Panels /\ busy.messages = panel.messages /\ busy.sending
      /\ busy.skip = NoSession /\ busy.session = panel.session /\ busy.ref = panel.ref
      /\ busy.streaming = panel.streaming /\ busy.abort = panel.abort
      /\ busy.aiId = panel.aiId /\ busy.userId = panel.userId
      /\ busy.content = panel.content
  BY <1>3 DEF Panels
<1> HIDE DEF f, busy, x
<1>7. \A m \in Sends : sends[m].at \notin Waiting
  BY <1>2, NoneWaits DEF MaySend
<1>8. \A m \in Sends : m < n => sends[m].at = "over"
  <2>1. \A m \in Sends : m < n => m \in 1..(n - 1)
    BY DEF Sends
  <2> QED BY <1>2, <1>3, <1>7, <2>1 DEF Waiting, HandledSends
<1>9. /\ SendsRight' /\ Moves(sends, sends')
      /\ f.at = "requesting" => Begins(n, f.text, sends, sends')
  <2>1. f.at \in {"creating", "requesting"} /\ sends[n].at \in Fresh
    BY <1>2, <1>5 DEF Fresh
  <2> QED BY <1>2, <1>5, <1>7, <1>8, <2>1, BeginsIs
<1>10. /\ sends'[n] = f /\ \A m \in Sends : m # n => sends'[m] = sends[m]
  BY <1>2, <1>3
<1>11. StoreRight(store.conv, sends', runs) /\ HistoryRight(history, sends', runs)
  <2>1. RunsOnward(runs, runs)
    BY DEF RunsOnward
  <2> QED BY <1>1, <1>9, <2>1, StoreOnward, HistoryOnward
<1>12. /\ PanelFits(panel', sends', history) /\ InPlace(panel.messages, panel'.messages)
       /\ panel'.session = panel.session
  <2>1. CASE new
    <3>1. Rendered(panel, history, busy, history) = busy
      BY <1>6 DEF Rendered
    <3>2. panel' = busy
      BY <1>2, <2>1, <3>1
    <3>3. \A m \in Sends : sends'[m].at \notin Live
      BY <1>5, <1>7, <1>10, <2>1 DEF Live, Waiting
    <3>4. Right(panel.messages, sends') /\ Apart(panel.messages, sends')
      <4>1. Onward(sends, sends') /\ panel.messages \in Lists
        BY <1>3, <1>9 DEF Moves, Panels
      <4> QED BY <1>3, <4>1, RightOnward, ApartOnward
    <3>5. PanelFits(busy, sends', history)
      BY <1>1, <1>6, <3>3, <3>4 DEF PanelFits
    <3> QED BY <1>6, <3>2, <3>5, InPlaceSelf
  <2>2. CASE ~new
    <3>1. /\ x \in Panels /\ Begun(busy.messages, x.messages, n, text)
          /\ x.ref = <<"a", n>> /\ x.content = <<>> /\ x.buffer = <<>> /\ x.streaming
          /\ x.aiId = 0 /\ x.userId = 0 /\ x.abort = n /\ x.sending
          /\ x.skip = busy.skip /\ x.session = busy.session
      <4>1. text \in Nat
        BY TextsAreNumbers
      <4> QED BY <1>6, <4>1, SetUpIs DEF x
    <3>2. Started(x, panel, n, text)
      BY <1>6, <3>1 DEF Started
    <3>3. Streamed(x, panel')
      <4>1. panel' = Rendered(panel, history, x, history)
        BY <1>2, <2>2
      <4>2. /\ x.session = panel.session
            /\ Data(history, x.session) = Data(history, panel.session)
        BY <1>6, <3>1
      <4> QED BY <3>1, <4>1, <4>2, RenderedIs DEF Streamed
    <3>4. Begins(n, text, sends, sends')
      BY <1>5, <1>9, <2>2
    <3>5. NotFetched(x, n, history)
      <4>1. x.session # NoSession => x.session \in ChatSessions
        BY <3>1 DEF Panels
      <4>2. \A s \in ChatSessions : \A list \in history[s].fetch : Right(list, sends)
        BY <1>1 DEF HistoryRight, StoredRight
      <4>3. sends[n].at \in Fresh
        BY <1>2 DEF Fresh
      <4>4. \A list : Right(list, sends) => \A id \in Ids(list) : id[2] # n
        BY <4>3, NothingOfFresh
      <4>5. <<"ai", n>>[2] = n
        OBVIOUS
      <4> QED BY <4>1, <4>2, <4>4, <4>5 DEF NotFetched
    <3>6. FitsAfter(panel, x, panel', sends', history)
      BY <1>3, <3>2, <3>3, <3>4, <3>5, StartedFits
    <3> QED BY <1>6, <3>1, <3>6 DEF FitsAfter
  <2> QED BY <2>1, <2>2
<1>13. SessionsExist'
  <2>1. ASSUME NEW m \in Sends, sends'[m].at \notin Fresh, runs[m].at # "lost"
        PROVE  sends'[m].session \in store.created
    <3>1. CASE m = n
      BY <1>1, <1>5, <1>10, <2>1, <3>1 DEF SessionsExist, Fresh
    <3>2. CASE m # n
      BY <1>1, <1>10, <2>1, <3>2 DEF SessionsExist
    <3> QED BY <3>1, <3>2
  <2> QED BY <1>1, <1>2, <1>12, <2>1 DEF SessionsExist
<1> QED BY <1>2, <1>9, <1>11, <1>12, <1>13 DEF PanelInvariant

\* z is x, and need not skip anything any more.
Arrived(x, z) ==
    /\ z \in Panels /\ z.session = x.session /\ z.messages = x.messages
    /\ z.ref = x.ref /\ z.content = x.content /\ z.buffer = x.buffer
    /\ z.streaming = x.streaming /\ z.aiId = x.aiId /\ z.userId = x.userId
    /\ z.abort = x.abort /\ z.sending = x.sending /\ z.skip = NoSession

\* A render that opens the session just created keeps what is shown.
LEMMA CreatedRender ==
    ASSUME NEW p, NEW x \in Panels, x.session # p.session, x.session # NoSession,
           x.skip = x.session, x.aiId = 0, x.userId = 0, NEW hist, NEW hist2,
           Data(hist2, x.session) = NotLoaded
    PROVE  \E z : Arrived(x, z) /\ Streamed(z, Rendered(p, hist, x, hist2))
<1> DEFINE c == [x EXCEPT !.captured = x.content]
           z == [x EXCEPT !.captured = x.content, !.skip = NoSession]
<1>1. c.session = x.session /\ c.skip = x.session
  BY DEF Panels
<1>2. ResetEffect(c) = [c EXCEPT !.skip = NoSession]
  BY <1>1 DEF ResetEffect
<1>3. ResetEffect(c) = z
  BY <1>2
<1>4. z.session = x.session /\ z.aiId = 0 /\ z.userId = 0
  BY DEF Panels
<1>5. Arrived(x, z)
  BY DEF Arrived, Panels
<1> HIDE DEF z
<1>6. HistoryEffect(z, NotLoaded) = z
  BY <1>4 DEF HistoryEffect
<1>7. AnswerIdEffect(z) = z /\ UserIdEffect(z) = z
  BY <1>4 DEF AnswerIdEffect, UserIdEffect
<1>8. Rendered(p, hist, x, hist2) = z \/ Rendered(p, hist, x, hist2) = StreamEffect(z)
  BY <1>3, <1>6, <1>7 DEF Rendered
<1> QED BY <1>5, <1>8 DEF Streamed

LEMMA CreateSessionKeeps ==
    ASSUME PanelInvariant, NEW n \in Sends, NEW s \in ChatSessions, CreateSession(n, s)
    PROVE  PanelInvariant' /\ panel'.session # panel.session
<1> DEFINE f == [sends[n] EXCEPT !.at = "requesting", !.session = s]
           there == [panel EXCEPT !.session = s, !.skip = s]
           text == sends[n].text
           x == SetUp(there, n, text)
<1>1. /\ SendsRight /\ SessionsExist /\ StoreRight(store.conv, sends, runs)
      /\ HistoryRight(history, sends, runs) /\ PanelFits(panel, sends, history)
  BY DEF PanelInvariant
<1>2. /\ sends \in [Sends -> HandledSends] /\ runs \in [Sends -> ServerRuns]
      /\ OneSendAtATime
      /\ panel \in Panels /\ Right(panel.messages, sends) /\ Apart(panel.messages, sends)
      /\ panel.skip = NoSession
      /\ store \in [created : SUBSET ChatSessions, conv : [ChatSessions -> Lists]]
  BY <1>1 DEF SendsRight, PanelFits, SessionsExist
<1>3. /\ sends[n].at = "creating" /\ s \notin store.created
      /\ store' = [store EXCEPT !.created = store.created \cup {s}]
      /\ sends' = [sends EXCEPT ![n] = f]
      /\ history' = history \/ history' = Fetching(history, s, store.conv[s])
      /\ panel' = Rendered(panel, history, x, history')
      /\ UNCHANGED runs
  BY <1>2 DEF CreateSession, Fetching
<1>4. sends[n] \in HandledSends /\ s # NoSession
  BY <1>2, ChatPanelAssumption DEF ChatPanelAssumption
<1>5. /\ f \in HandledSends /\ f.at = "requesting" /\ f.session = s /\ f.text = text
      /\ f.read = sends[n].read /\ f.final = sends[n].final /\ f.named = sends[n].named
  BY <1>4 DEF HandledSends
<1>6. panel.sending
  BY <1>1, <1>3 DEF PanelFits, Waiting
<1>7. /\ there \in Panels /\ there.messages = panel.messages /\ there.sending
      /\ there.skip = s /\ there.session = s
  BY <1>2, <1>6 DEF Panels
<1>8. \A m \in Sends : m # n => sends[m].at \notin Waiting
  BY <1>2, <1>3, OneLive DEF Waiting
<1>9. \A m \in Sends : m < n => sends[m].at = "over"
  BY <1>2, <1>3 DEF OneSendAtATime
<1> HIDE DEF f, there, x
<1>10. SendsRight' /\ Moves(sends, sends') /\ Begins(n, text, sends, sends')
  BY <1>3, <1>5, <1>8, <1>9, BeginsIs DEF Fresh
<1>11. /\ sends'[n] = f /\ \A m \in Sends : m # n => sends'[m] = sends[m]
  BY <1>2, <1>3
<1>12. /\ store' \in [created : SUBSET ChatSessions, conv : [ChatSessions -> Lists]]
       /\ store'.conv = store.conv /\ store'.created = store.created \cup {s}
  BY <1>2, <1>3
<1>13. store.conv[s] = <<>> /\ history[s].data = NotLoaded /\ history[s].fetch = NoFetch
  BY <1>1, <1>3 DEF SessionsExist
<1>14. StoreRight(store.conv, sends', runs) /\ HistoryRight(history, sends', runs)
  <2>1. RunsOnward(runs, runs)
    BY DEF RunsOnward
  <2> QED BY <1>1, <1>10, <2>1, StoreOnward, HistoryOnward
<1>15. /\ HistoryRight(history', sends', runs)
       /\ \A t \in ChatSessions : t # s => history'[t] = history[t]
       /\ history'[s].data = NotLoaded /\ history'[s].fetch \subseteq {<<>>}
  <2>1. CASE history' = Fetching(history, s, store.conv[s])
    <3>1. StoredRight(store.conv[s], sends', runs)
      BY <1>14 DEF StoreRight
    <3>2. /\ HistoryRight(Fetching(history, s, store.conv[s]), sends', runs)
          /\ \A t \in ChatSessions : Fetching(history, s, store.conv[s])[t].data =
                                     history[t].data
          /\ \A t \in ChatSessions : t # s =>
                Fetching(history, s, store.conv[s])[t] = history[t]
          /\ Fetching(history, s, store.conv[s])[s].fetch = {store.conv[s]}
      BY <1>14, <3>1, FetchingIs
    <3> QED BY <1>13, <2>1, <3>2
  <2>2. CASE history' = history
    BY <1>13, <1>14, <2>2 DEF NoFetch
  <2> QED BY <1>3, <2>1, <2>2
<1>16. /\ x \in Panels /\ Begun(there.messages, x.messages, n, text)
       /\ x.ref = <<"a", n>> /\ x.content = <<>> /\ x.buffer = <<>> /\ x.streaming
       /\ x.aiId = 0 /\ x.userId = 0 /\ x.abort = n /\ x.sending
       /\ x.skip = there.skip /\ x.session = there.session
  <2>1. text \in Nat
    <3>1. text \in SendTexts \cup {0}
      BY <1>4 DEF HandledSends
    <3> QED BY <3>1, TextsAreNumbers
  <2> QED BY <1>7, <2>1, SetUpIs DEF x
<1>17. panel.session # s
  BY <1>1, <1>3, <1>4 DEF SessionsExist
<1>18. PICK z : Arrived(x, z) /\ Streamed(z, panel')
  <2>1. Data(history', x.session) = NotLoaded
    BY <1>4, <1>7, <1>15, <1>16 DEF Data
  <2> QED BY <1>3, <1>4, <1>7, <1>16, <1>17, <2>1, CreatedRender
<1>19. Started(z, panel, n, text) /\ z.session = s
  BY <1>7, <1>16, <1>18 DEF Started, Arrived
<1>20. PanelFits(panel', sends', history') /\ panel'.session = s
  <2>1. NotFetched(z, n, history')
    <3>1. Ids(<<>>) = {}
      BY DEF Ids
    <3> QED BY <1>15, <1>19, <3>1 DEF NotFetched
  <2>2. FitsAfter(panel, z, panel', sends', history')
    BY <1>2, <1>10, <1>18, <1>19, <2>1, StartedFits
  <2> QED BY <1>19, <2>2 DEF FitsAfter
<1>21. SessionsExist'
  <2>1. \A m \in Sends : sends'[m].at \notin Fresh /\ runs[m].at # "lost" =>
                            sends'[m].session \in store'.created
    BY <1>1, <1>5, <1>11, <1>12 DEF SessionsExist
  <2>2. \A t \in ChatSessions \ store'.created : t # s /\ t \in ChatSessions \ store.created
    BY <1>12
  <2> QED BY <1>1, <1>3, <1>12, <1>15, <1>20, <2>1, <2>2 DEF SessionsExist
<1> QED BY <1>3, <1>10, <1>12, <1>14, <1>15, <1>17, <1>20, <1>21 DEF PanelInvariant

-----------------------------------------------------------------------------
(* A chunk of events.                                                      *)

\* What one event does to the panel and the send of number n.
Turn(n, p, f, p2, f2, type) ==
    /\ p2 \in Panels /\ f2 \in HandledSends
    /\ p2.session = p.session /\ p2.messages = p.messages /\ p2.ref = p.ref
    /\ p2.abort = p.abort /\ p2.sending = p.sending /\ p2.skip = p.skip
    /\ f2.session = f.session /\ f2.text = f.text /\ f2.at \in {f.at, "over"}
    /\ \/ p2.aiId = p.aiId /\ f2.named = f.named
       \/ p2.aiId = n /\ f2.named
    /\ p2.userId \in {p.userId, n}
    /\ p2.streaming =>
          /\ p.streaming
          /\ p.content \o p.buffer = f.read => p2.content \o p2.buffer = f2.read
    /\ type = "ai_message_id" => f2.named
    /\ type = "user_id" => f2 = f /\ p2.streaming = p.streaming

LEMMA TextsJoin ==
    ASSUME NEW a \in Texts, NEW b \in Texts, NEW c \in Texts
    PROVE  (a \o b) \o c = a \o (b \o c)
<1>1. \E T : a \in Seq(T) /\ b \in Seq(T) /\ c \in Seq(T)
  BY DEF Texts
<1>2. PICK T : a \in Seq(T) /\ b \in Seq(T) /\ c \in Seq(T)
  BY <1>1
<1> QED BY <1>2, ConcatAssociative

LEMMA HeardTurns ==
    ASSUME NEW n \in Sends, NEW p \in Panels, NEW f \in HandledSends, NEW e \in Events
    PROVE  \E p2, f2 : Heard(n, <<p, f>>, e) = <<p2, f2>> /\ Turn(n, p, f, p2, f2, e.type)
<1>1. /\ e.type \in {"user_id", "ai_message_id", "token", "token_rollback", "complete",
                     "error", "close"}
      /\ e.text \in Texts
  BY DEF Events
<1>2. n \in 0..MaxSends
  BY DEF Sends
<1>3. <<>> \in Texts /\ <<>> \o <<>> = <<>>
  BY DEF Texts
<1>4. p.buffer \in Texts /\ p.content \in Texts /\ f.read \in Texts /\ f.captured \in Texts
  BY DEF Panels, HandledSends
<1>5. CASE e.type = "user_id"
  <2> DEFINE p2 == [p EXCEPT !.userId = n]
  <2>1. Heard(n, <<p, f>>, e) = <<p2, f>>
    BY <1>5 DEF Heard
  <2>2. /\ p2 \in Panels /\ p2.session = p.session /\ p2.messages = p.messages
        /\ p2.ref = p.ref /\ p2.abort = p.abort /\ p2.sending = p.sending
        /\ p2.skip = p.skip /\ p2.aiId = p.aiId /\ p2.userId = n
        /\ p2.streaming = p.streaming /\ p2.content = p.content /\ p2.buffer = p.buffer
    BY <1>2 DEF Panels
  <2> HIDE DEF p2
  <2>3. Turn(n, p, f, p2, f, e.type)
    BY <1>5, <2>2 DEF Turn
  <2> QED BY <2>1, <2>3
<1>6. CASE e.type = "ai_message_id"
  <2> DEFINE p2 == [p EXCEPT !.aiId = n]
             f2 == [f EXCEPT !.named = TRUE]
  <2>1. Heard(n, <<p, f>>, e) = <<p2, f2>>
    BY <1>6 DEF Heard
  <2>2. /\ p2 \in Panels /\ p2.session = p.session /\ p2.messages = p.messages
        /\ p2.ref = p.ref /\ p2.abort = p.abort /\ p2.sending = p.sending
        /\ p2.skip = p.skip /\ p2.aiId = n /\ p2.userId = p.userId
        /\ p2.streaming = p.streaming /\ p2.content = p.content /\ p2.buffer = p.buffer
    BY <1>2 DEF Panels
  <2>3. /\ f2 \in HandledSends /\ f2.session = f.session /\ f2.text = f.text
        /\ f2.at = f.at /\ f2.named /\ f2.read = f.read
    BY DEF HandledSends
  <2> HIDE DEF p2, f2
  <2>4. Turn(n, p, f, p2, f2, e.type)
    BY <1>6, <2>2, <2>3 DEF Turn
  <2> QED BY <2>1, <2>4
<1>7. CASE e.type = "token"
  <2> DEFINE b == p.buffer \o e.text
             r == f.read \o e.text
             p2 == [p EXCEPT !.buffer = b, !.frame = TRUE]
             f2 == [f EXCEPT !.read = r]
  <2>1. Heard(n, <<p, f>>, e) = <<p2, f2>>
    BY <1>7 DEF Heard
  <2>2. /\ b \in Texts /\ r \in Texts
        /\ p.content \o b = (p.content \o p.buffer) \o e.text
    <3>1. b \in Texts /\ r \in Texts
      BY <1>1, <1>4 DEF Texts
    <3>2. p.content \o (p.buffer \o e.text) = (p.content \o p.buffer) \o e.text
      <4>1. (p.content \o p.buffer) \o e.text = p.content \o (p.buffer \o e.text)
        BY <1>1, <1>4, TextsJoin
      <4> QED BY <4>1
    <3> QED BY <3>1, <3>2
  <2>3. p.content \o p.buffer = f.read => p.content \o b = r
    BY <2>2
  <2> HIDE DEF b, r
  <2>4. /\ p2 \in Panels /\ p2.session = p.session /\ p2.messages = p.messages
        /\ p2.ref = p.ref /\ p2.abort = p.abort /\ p2.sending = p.sending
        /\ p2.skip = p.skip /\ p2.aiId = p.aiId /\ p2.userId = p.userId
        /\ p2.streaming = p.streaming /\ p2.content = p.content /\ p2.buffer = b
    BY <2>2 DEF Panels
  <2>5. /\ f2 \in HandledSends /\ f2.session = f.session /\ f2.text = f.text
        /\ f2.at = f.at /\ f2.named = f.named /\ f2.read = r
    BY <2>2 DEF HandledSends
  <2> HIDE DEF p2, f2
  <2>6. Turn(n, p, f, p2, f2, e.type)
    BY <1>7, <2>3, <2>4, <2>5 DEF Turn
  <2> QED BY <2>1, <2>6
<1>8. CASE e.type = "token_rollback"
  <2> DEFINE p2 == [p EXCEPT !.buffer = <<>>, !.content = <<>>, !.frame = FALSE]
             f2 == [f EXCEPT !.read = <<>>]
  <2>1. Heard(n, <<p, f>>, e) = <<p2, f2>>
    BY <1>8 DEF Heard
  <2>2. /\ p2 \in Panels /\ p2.session = p.session /\ p2.messages = p.messages
        /\ p2.ref = p.ref /\ p2.abort = p.abort /\ p2.sending = p.sending
        /\ p2.skip = p.skip /\ p2.aiId = p.aiId /\ p2.userId = p.userId
        /\ p2.streaming = p.streaming /\ p2.content = <<>> /\ p2.buffer = <<>>
    BY <1>3 DEF Panels
  <2>3. /\ f2 \in HandledSends /\ f2.session = f.session /\ f2.text = f.text
        /\ f2.at = f.at /\ f2.named = f.named /\ f2.read = <<>>
    BY <1>3 DEF HandledSends
  <2> HIDE DEF p2, f2
  <2>4. Turn(n, p, f, p2, f2, e.type)
    BY <1>3, <1>8, <2>2, <2>3 DEF Turn
  <2> QED BY <2>1, <2>4
<1>9. CASE e.type = "complete"
  <2> DEFINE answer == {IF f.captured # <<>> THEN f.captured ELSE e.text}
             p2 == [p EXCEPT !.buffer = <<>>, !.frame = FALSE, !.streaming = FALSE]
             f2 == [f EXCEPT !.final = answer]
  <2>1. Heard(n, <<p, f>>, e) = <<p2, f2>>
    BY <1>9 DEF Heard
  <2>2. /\ p2 \in Panels /\ p2.session = p.session /\ p2.messages = p.messages
        /\ p2.ref = p.ref /\ p2.abort = p.abort /\ p2.sending = p.sending
        /\ p2.skip = p.skip /\ p2.aiId = p.aiId /\ p2.userId = p.userId /\ ~p2.streaming
    BY <1>3 DEF Panels
  <2>3. answer \subseteq Texts
    BY <1>1, <1>4
  <2> HIDE DEF answer
  <2>4. /\ f2 \in HandledSends /\ f2.session = f.session /\ f2.text = f.text
        /\ f2.at = f.at /\ f2.named = f.named
    BY <2>3 DEF HandledSends
  <2> HIDE DEF p2, f2
  <2>5. Turn(n, p, f, p2, f2, e.type)
    BY <1>9, <2>2, <2>4 DEF Turn
  <2> QED BY <2>1, <2>5
<1>10. CASE e.type = "error"
  <2> DEFINE p2 == [p EXCEPT !.error = TRUE]
  <2>1. Heard(n, <<p, f>>, e) = <<p2, f>>
    BY <1>10 DEF Heard
  <2>2. /\ p2 \in Panels /\ p2.session = p.session /\ p2.messages = p.messages
        /\ p2.ref = p.ref /\ p2.abort = p.abort /\ p2.sending = p.sending
        /\ p2.skip = p.skip /\ p2.aiId = p.aiId /\ p2.userId = p.userId
        /\ p2.streaming = p.streaming /\ p2.content = p.content /\ p2.buffer = p.buffer
    BY DEF Panels
  <2> HIDE DEF p2
  <2>3. Turn(n, p, f, p2, f, e.type)
    BY <1>10, <2>2 DEF Turn
  <2> QED BY <2>1, <2>3
<1>11. CASE e.type = "close"
  <2> DEFINE answer == IF f.final = NoAnswer /\ f.captured # <<>> THEN {f.captured}
                       ELSE f.final
             p2 == [p EXCEPT !.streaming = FALSE]
             f2 == [f EXCEPT !.at = "over", !.final = answer]
  <2>1. Heard(n, <<p, f>>, e) = <<p2, f2>>
    BY <1>11 DEF Heard
  <2>2. /\ p2 \in Panels /\ p2.session = p.session /\ p2.messages = p.messages
        /\ p2.ref = p.ref /\ p2.abort = p.abort /\ p2.sending = p.sending
        /\ p2.skip = p.skip /\ p2.aiId = p.aiId /\ p2.userId = p.userId /\ ~p2.streaming
    BY DEF Panels
  <2>3. answer \subseteq Texts
    BY <1>4 DEF HandledSends
  <2> HIDE DEF answer
  <2>4. /\ f2 \in HandledSends /\ f2.session = f.session /\ f2.text = f.text
        /\ f2.at = "over" /\ f2.named = f.named
    BY <2>3 DEF HandledSends
  <2> HIDE DEF p2, f2
  <2>5. Turn(n, p, f, p2, f2, e.type)
    BY <1>11, <2>2, <2>4 DEF Turn
  <2> QED BY <2>1, <2>5
<1> QED BY <1>1, <1>5, <1>6, <1>7, <1>8, <1>9, <1>10, <1>11

\* The panel p and the send f of number n when k of its events are heard.
Heeds(n, k, p, f) ==
    /\ p \in Panels /\ f \in HandledSends
    /\ p.session = panel.session /\ p.messages = panel.messages /\ p.ref = panel.ref
    /\ p.abort = panel.abort /\ p.sending = panel.sending /\ p.skip = panel.skip
    /\ f.session = sends[n].session /\ f.text = sends[n].text
    /\ f.at \in {"reading", "over"}
    /\ p.aiId = IF f.named THEN n ELSE 0
    /\ p.userId \in {panel.userId, n}
    /\ sends[n].named => f.named
    /\ p.streaming => panel.streaming /\ p.content \o p.buffer = f.read
    /\ \A i \in 1..k : runs[n].wire[i].type = "ai_message_id" => f.named
    /\ (\A i \in 1..k : runs[n].wire[i].type = "user_id") =>
          f = sends[n] /\ p.streaming = panel.streaming

LEMMA HeedsNext ==
    ASSUME NEW n \in Sends, NEW k \in Nat, NEW p, NEW f, Heeds(n, k, p, f),
           NEW p2, NEW f2, Turn(n, p, f, p2, f2, runs[n].wire[k + 1].type)
    PROVE  Heeds(n, k + 1, p2, f2)
<1> DEFINE w == runs[n].wire
<1>1. \A i \in 1..(k + 1) : i \in 1..k \/ i = k + 1
  OBVIOUS
<1>2. k + 1 \in 1..(k + 1) /\ \A i \in 1..k : i \in 1..(k + 1)
  OBVIOUS
<1>3. f.named => f2.named
  BY DEF Turn
<1>4. \A i \in 1..(k + 1) : w[i].type = "ai_message_id" => f2.named
  BY <1>1, <1>3 DEF Turn, Heeds
<1>5. (\A i \in 1..(k + 1) : w[i].type = "user_id") =>
         f2 = sends[n] /\ p2.streaming = panel.streaming
  <2>1. SUFFICES ASSUME \A i \in 1..(k + 1) : w[i].type = "user_id"
                 PROVE  f2 = sends[n] /\ p2.streaming = panel.streaming
    OBVIOUS
  <2>2. w[k + 1].type = "user_id" /\ \A i \in 1..k : w[i].type = "user_id"
    BY <1>2, <2>1
  <2> QED BY <2>2 DEF Turn, Heeds
<1>6. p2.streaming => panel.streaming /\ p2.content \o p2.buffer = f2.read
  BY DEF Turn, Heeds
<1>7. p2.aiId = IF f2.named THEN n ELSE 0
  BY DEF Turn, Heeds
<1>8. f2.at \in {"reading", "over"} /\ p2.userId \in {panel.userId, n}
  BY DEF Turn, Heeds
<1> QED BY <1>3, <1>4, <1>5, <1>6, <1>7, <1>8 DEF Turn, Heeds

LEMMA ChunkKeeps ==
    ASSUME NEW n \in Sends, NEW k \in 1..Len(runs[n].wire), runs[n].wire \in Seq(Events),
           Heeds(n, 0, panel, sends[n])
    PROVE  \E p, f : Chunk(n, k) = <<p, f>> /\ Heeds(n, k, p, f)
<1> DEFINE w == runs[n].wire
           A == Panels \X HandledSends
           base == <<panel, sends[n]>>
           step == [x \in A \X (1..k) |-> Heard(n, x[1], w[x[2]])]
           Upto(f) == f = [i \in 0..k |-> IF i = 0 THEN base ELSE Heard(n, f[i - 1], w[i])]
           f == CHOOSE f : Upto(f)
<1>1. k \in Nat /\ \A i \in 1..k : w[i] \in Events
  OBVIOUS
<1>2. base \in A
  BY DEF Heeds
<1>3. ASSUME NEW x \in A, NEW i \in 1..k PROVE Heard(n, x, w[i]) \in A
  <2>1. PICK p \in Panels, g \in HandledSends : x = <<p, g>>
    OBVIOUS
  <2>2. PICK p2, f2 : Heard(n, <<p, g>>, w[i]) = <<p2, f2>> /\ Turn(n, p, g, p2, f2, w[i].type)
    BY <1>1, HeardTurns
  <2> QED BY <2>1, <2>2 DEF Turn
<1> HIDE DEF w, base, A
<1>4. step \in [A \X (1..k) -> A]
  BY <1>3
<1>5. \A x \in A : \A i \in 1..k : step[<<x, i>>] = Heard(n, x, w[i])
  OBVIOUS
<1> HIDE DEF step, f, Upto
<1>6. PICK g : Computed(A, base, k, step, g)
  BY <1>1, <1>2, <1>4, StepsExist, Zenon
<1>7. ASSUME NEW i \in 0..k
      PROVE  g[i] = IF i = 0 THEN base ELSE Heard(n, g[i - 1], w[i])
  <2>1. CASE i = 0
    BY <1>6, <2>1 DEF Computed
  <2>2. CASE i # 0
    <3>1. i \in 1..k /\ i - 1 \in 0..k
      BY <1>1, <2>2
    <3>2. g[i - 1] \in A /\ g[i] = step[<<g[i - 1], i>>]
      BY <1>6, <3>1 DEF Computed
    <3> QED BY <1>5, <2>2, <3>1, <3>2
  <2> QED BY <2>1, <2>2
<1>8. Upto(g)
  BY <1>6, <1>7 DEF Upto, Computed
<1>9. f = [i \in 0..k |-> IF i = 0 THEN base ELSE Heard(n, f[i - 1], w[i])]
  BY <1>8 DEF f, Upto
<1>10. Chunk(n, k) = f[k]
  BY DEF Chunk, w, f, Upto, base
<1>11. \A i \in 0..k : f[i] = IF i = 0 THEN base ELSE Heard(n, f[i - 1], w[i])
  BY <1>9, Zenon
<1> DEFINE S == {i \in Nat : i > k \/ \E p, g2 : f[i] = <<p, g2>> /\ Heeds(n, i, p, g2)}
<1>12. 0 \in S
  <2>1. 0 \in 0..k
    BY <1>1
  <2>2. f[0] = <<panel, sends[n]>>
    BY <1>11, <2>1 DEF base
  <2> QED BY <2>2
<1>13. ASSUME NEW i \in Nat, i \in S PROVE i + 1 \in S
  <2>1. CASE i + 1 > k
    BY <2>1
  <2>2. CASE i + 1 <= k
    <3>1. i + 1 \in 0..k /\ i + 1 \in 1..k /\ i + 1 # 0 /\ (i + 1) - 1 = i
      BY <1>1, <2>2
    <3>2. PICK p, g2 : f[i] = <<p, g2>> /\ Heeds(n, i, p, g2)
      BY <1>1, <1>13, <2>2
    <3>3. f[i + 1] = Heard(n, <<p, g2>>, w[i + 1])
      BY <1>11, <3>1, <3>2
    <3>4. p \in Panels /\ g2 \in HandledSends
      BY <3>2 DEF Heeds
    <3>5. PICK p2, f2 : /\ Heard(n, <<p, g2>>, w[i + 1]) = <<p2, f2>>
                        /\ Turn(n, p, g2, p2, f2, w[i + 1].type)
      BY <1>1, <3>1, <3>4, HeardTurns
    <3>6. Heeds(n, i + 1, p2, f2)
      BY <3>2, <3>5, HeedsNext DEF w
    <3> QED BY <3>3, <3>5, <3>6
  <2> QED BY <1>1, <2>1, <2>2
<1> HIDE DEF S
<1>14. k \in S
  BY <1>1, <1>12, <1>13, SetInduction
<1> QED BY <1>1, <1>10, <1>14 DEF S

\* A list that shows the answer of send n once at most.
Sound(l, n, ss) == l \in Lists /\ Right(l, ss) /\ Apart(l, ss) /\ AnswerUnnamed(l, n)

\* And k shows what l does.
Carries(l, k, n, ss) ==
    /\ Sound(k, n, ss) /\ InPlace(l, k)
    /\ <<"a", n>> \in Ids(k) => <<"a", n>> \in Ids(l)
    /\ QuestionUnnamed(l, n, ss) => QuestionUnnamed(k, n, ss)

LEMMA CarriesTransitive ==
    ASSUME NEW ss, NEW n, NEW l, NEW k, NEW m, Carries(l, k, n, ss), Carries(k, m, n, ss)
    PROVE  Carries(l, m, n, ss)
<1>1. InPlace(l, m)
  BY InPlaceTransitive DEF Carries
<1> QED BY <1>1 DEF Carries

LEMMA CarriesSelf ==
    ASSUME NEW ss, NEW n, NEW l, Sound(l, n, ss)
    PROVE  Carries(l, l, n, ss)
BY InPlaceSelf DEF Carries

LEMMA RedoneCarries ==
    ASSUME NEW ss, NEW n \in Sends, NEW l, NEW k, Sound(l, n, ss), Redone(l, k, n, "ai")
    PROVE  Carries(l, k, n, ss) /\ <<"a", n>> \notin Ids(k)
<1>1. l \in Lists /\ Right(l, ss) /\ Apart(l, ss) /\ AnswerUnnamed(l, n)
  BY DEF Sound
<1>2. k \in Lists
  BY DEF Redone
<1>3. <<"a", n>> \notin Ids(k)
  BY RedoneIds
<1>4. Right(k, ss)
  BY <1>1, RightRedone
<1>5. Apart(k, ss)
  BY <1>1, ApartRedone DEF AnswerUnnamed
<1>6. InPlace(l, k)
  BY <1>1, InPlaceRedone
<1>7. QuestionUnnamed(l, n, ss) => QuestionUnnamed(k, n, ss)
  BY <1>1, QuestionUnnamedRedone
<1> QED BY <1>2, <1>3, <1>4, <1>5, <1>6, <1>7 DEF Carries, Sound, AnswerUnnamed

LEMMA RewrittenCarries ==
    ASSUME NEW ss, NEW n \in Sends, NEW l, NEW k, Sound(l, n, ss), Rewritten(l, k)
    PROVE  Carries(l, k, n, ss)
<1>1. l \in Lists /\ Right(l, ss) /\ Apart(l, ss) /\ AnswerUnnamed(l, n)
  BY DEF Sound
<1>2. k \in Lists /\ Redone(l, k, n, "a")
  BY DEF Rewritten
<1>3. InPlace(l, k)
  BY <1>1, <1>2, InPlaceRedone
<1>4. /\ Right(k, ss) /\ Apart(k, ss) /\ Ids(k) = Ids(l)
      /\ QuestionUnnamed(l, n, ss) => QuestionUnnamed(k, n, ss)
  BY <1>1, RewrittenKeeps
<1> QED BY <1>1, <1>2, <1>3, <1>4 DEF Carries, Sound, AnswerUnnamed

LEMMA NumberedCarries ==
    ASSUME NEW ss, NEW n \in Sends, NEW l, NEW k, Sound(l, n, ss), NEW last,
           Numbered(l, k, last, n), QuestionUnnamed(l, n, ss), ss[n].at \notin Fresh
    PROVE  /\ Sound(k, n, ss) /\ InPlace(l, k)
           /\ <<"a", n>> \in Ids(k) => <<"a", n>> \in Ids(l)
<1>1. l \in Lists /\ Right(l, ss) /\ Apart(l, ss) /\ AnswerUnnamed(l, n)
  BY DEF Sound
<1>2. k \in Lists
  BY NumberedIs
<1>3. Right(k, ss) /\ Apart(k, ss) /\ InPlace(l, k)
  BY <1>1, RightNumbered, ApartNumbered, InPlaceNumbered
<1>4. /\ <<"a", n>> \in Ids(k) => <<"a", n>> \in Ids(l)
      /\ <<"ai", n>> \in Ids(k) => <<"ai", n>> \in Ids(l)
  <2>1. \A id : id[1] \notin {"u", "msg"} => (id \in Ids(k) <=> id \in Ids(l))
    BY IdsNumbered
  <2>2. <<"a", n>>[1] \notin {"u", "msg"} /\ <<"ai", n>>[1] \notin {"u", "msg"}
    OBVIOUS
  <2>3. <<"a", n>> \in Ids(k) <=> <<"a", n>> \in Ids(l)
    BY <2>1, <2>2, Zenon
  <2>4. <<"ai", n>> \in Ids(k) <=> <<"ai", n>> \in Ids(l)
    BY <2>1, <2>2, Zenon
  <2> QED BY <2>3, <2>4
<1> QED BY <1>1, <1>2, <1>3, <1>4 DEF Sound, AnswerUnnamed

\* What the first k events leave of a send that was being answered.
HeardSome(n, p, f) ==
    /\ f.at = "over" => f.named
    /\ ~f.named => f = sends[n] /\ p.streaming = panel.streaming /\ ~sends[n].named

LEMMA NamedFirst ==
    ASSUME NEW n \in Sends, NEW k \in 1..Len(runs[n].wire), runs[n].wire \in Seq(Events),
           NEW p, NEW f, Heeds(n, k, p, f), sends[n].at = "reading",
           ~sends[n].named => IdsComeFirst(runs[n].wire)
    PROVE  /\ HeardSome(n, p, f)
           /\ ~f.named => IdsComeFirst(SubSeq(runs[n].wire, k + 1, Len(runs[n].wire)))
<1> DEFINE w == runs[n].wire
           v == SubSeq(w, k + 1, Len(w))
<1>1. CASE f.named
  BY <1>1 DEF HeardSome
<1>2. CASE ~f.named
  <2>1. ~sends[n].named
    BY <1>2 DEF Heeds
  <2>2. PICK i \in DOMAIN w : /\ w[i].type = "ai_message_id"
                              /\ \A j \in 1..(i - 1) : w[j].type = "user_id"
    BY <2>1 DEF IdsComeFirst
  <2>3. i \in 1..Len(w) /\ Len(w) \in Nat /\ k \in Nat
    OBVIOUS
  <2>4. i > k
    <3>1. i \notin 1..k
      BY <1>2, <2>2 DEF Heeds
    <3> QED BY <2>3, <3>1
  <2>5. \A j \in 1..k : w[j].type = "user_id"
    <3>1. \A j \in 1..k : j \in 1..(i - 1)
      BY <2>3, <2>4
    <3> QED BY <2>2, <3>1
  <2>6. f = sends[n] /\ p.streaming = panel.streaming
    BY <2>5 DEF Heeds
  <2>7. HeardSome(n, p, f)
    BY <2>1, <2>6 DEF HeardSome
  <2>8. IdsComeFirst(v)
    <3>1. /\ Len(v) = Len(w) - k /\ DOMAIN v = 1..(Len(w) - k)
          /\ \A j \in 1..(Len(w) - k) : v[j] = w[k + j]
      BY <2>3
    <3> HIDE DEF v
    <3>2. i - k \in 1..(Len(w) - k) /\ k + (i - k) = i
      BY <2>3, <2>4
    <3>3. v[i - k].type = "ai_message_id"
      BY <2>2, <3>1, <3>2
    <3>4. ASSUME NEW j \in 1..((i - k) - 1) PROVE v[j].type = "user_id"
      <4>1. j \in 1..(Len(w) - k) /\ k + j \in 1..(i - 1)
        BY <2>3, <2>4
      <4> QED BY <2>2, <3>1, <4>1
    <3> QED BY <3>1, <3>2, <3>3, <3>4 DEF IdsComeFirst
  <2> QED BY <2>7, <2>8
<1> QED BY <1>1, <1>2

-----------------------------------------------------------------------------
(* What is shown of a chunk.                                               *)

\* q is the panel p, in which the send f has come to its end if it is over.
EndedAs(n, q, p, f) ==
    /\ q \in Panels /\ q.session = p.session /\ q.skip = p.skip /\ q.userId = p.userId
    /\ q.aiId = p.aiId /\ q.abort = p.abort /\ q.streaming = p.streaming
    /\ Carries(panel.messages, q.messages, n, sends) /\ q.ref \in {panel.ref, <<>>}
    /\ f.at = "reading" => q = p

LEMMA FinalizedIs ==
    ASSUME NEW n \in Sends, NEW f \in HandledSends, HasAnswer(f), f.named,
           NEW ss, NEW l \in Lists, Right(l, ss)
    PROVE  Redone(l, Finalized(l, n, f), n, "ai")
<1> DEFINE answer == The(f.final)
           new == Message(<<"ai", n>>, "assistant", answer)
           k == [i \in DOMAIN l |-> IF l[i].id = <<"a", n>> THEN new ELSE l[i]]
<1>1. Finalized(l, n, f) = k
  BY DEF Finalized
<1>2. answer \in Texts
  <2>1. f.final \subseteq Texts /\ f.final # {}
    BY DEF HandledSends, HasAnswer, NoAnswer
  <2> QED BY <2>1 DEF The
<1> HIDE DEF answer
<1>3. /\ new \in Messages /\ new.id = <<"ai", n>> /\ new.role = "assistant"
  BY <1>2 DEF Message, Messages, MessageIds
<1> HIDE DEF new
<1>4. /\ k = [i \in DOMAIN l |-> k[i]]
      /\ \A i \in DOMAIN l : k[i] = IF l[i].id = <<"a", n>> THEN new ELSE l[i]
  OBVIOUS
<1> HIDE DEF k
<1>5. ASSUME NEW i \in DOMAIN l
      PROVE  /\ k[i] \in Messages
             /\ k[i].role = l[i].role /\ (l[i].role = "user" => k[i].text = l[i].text)
             /\ k[i].id = IF l[i].id = <<"a", n>> THEN <<"ai", n>> ELSE l[i].id
  <2>1. l[i] \in Messages
    BY ListTyped
  <2>2. l[i].id = <<"a", n>> => l[i].role = "assistant"
    BY DEF Right
  <2> QED BY <1>3, <1>4, <2>1, <2>2
<1>6. Redone(l, k, n, "ai")
  BY <1>4, <1>5, RedoneEach
<1> QED BY <1>1, <1>6

LEMMA ConcludedIs ==
    ASSUME NEW n \in Sends, NEW k, NEW p, NEW f, Heeds(n, k, p, f), HeardSome(n, p, f),
           Sound(panel.messages, n, sends)
    PROVE  /\ EndedAs(n, Concluded(n, p, f), p, f)
           /\ HasAnswer(f) => <<"a", n>> \notin Ids(Concluded(n, p, f).messages)
<1> DEFINE l == panel.messages
<1>1. /\ p \in Panels /\ f \in HandledSends /\ p.messages = l /\ p.ref = panel.ref
      /\ f.at \in {"reading", "over"}
  BY DEF Heeds
<1>2. l \in Lists /\ Right(l, sends) /\ Carries(l, l, n, sends)
  BY CarriesSelf DEF Sound
<1>3. CASE f.at = "reading"
  <2>1. Concluded(n, p, f) = p /\ ~HasAnswer(f)
    BY <1>3 DEF Concluded, HasAnswer
  <2> QED BY <1>1, <1>2, <2>1 DEF EndedAs
<1>4. CASE f.at = "over" /\ HasAnswer(f)
  <2> DEFINE m == Finalized(l, n, f)
             q == [p EXCEPT !.messages = m, !.sending = FALSE]
  <2>1. Concluded(n, p, f) = q
    BY <1>1, <1>4 DEF Concluded
  <2>2. f.named
    BY <1>4 DEF HeardSome
  <2>3. Redone(l, m, n, "ai")
    BY <1>1, <1>2, <1>4, <2>2, FinalizedIs
  <2> HIDE DEF m
  <2>4. Carries(l, m, n, sends) /\ <<"a", n>> \notin Ids(m) /\ m \in Lists
    BY <2>3, RedoneCarries DEF Redone
  <2>5. /\ q \in Panels /\ q.session = p.session /\ q.skip = p.skip
        /\ q.userId = p.userId /\ q.aiId = p.aiId /\ q.abort = p.abort
        /\ q.streaming = p.streaming /\ q.messages = m /\ q.ref = p.ref
    BY <1>1, <2>4 DEF Panels
  <2> HIDE DEF q
  <2>6. EndedAs(n, q, p, f)
    BY <1>1, <1>4, <2>4, <2>5 DEF EndedAs
  <2> QED BY <2>1, <2>4, <2>5, <2>6
<1>5. CASE f.at = "over" /\ ~HasAnswer(f)
  <2> DEFINE q == Unfinished(p, n)
  <2>1. Concluded(n, p, f) = q
    BY <1>5 DEF Concluded
  <2>2. /\ q \in Panels /\ Rewritten(l, q.messages) /\ q.session = p.session
        /\ q.skip = p.skip /\ q.userId = p.userId /\ q.aiId = p.aiId /\ q.ref = <<>>
        /\ q.streaming = p.streaming /\ q.abort = p.abort
    BY <1>1, <1>2, UnfinishedIs
  <2> HIDE DEF q
  <2>3. Carries(l, q.messages, n, sends)
    BY <2>2, RewrittenCarries
  <2>4. EndedAs(n, q, p, f)
    BY <1>5, <2>2, <2>3 DEF EndedAs
  <2> QED BY <1>5, <2>1, <2>4
<1> QED BY <1>1, <1>3, <1>4, <1>5

LEMMA ReshownTransitive ==
    ASSUME NEW p, NEW q, NEW x, NEW l, NEW r, NEW k, NEW t,
           Reshown(p, q, l, r), Reshown(q, x, k, t)
    PROVE  Reshown(p, x, k, t)
BY DEF Reshown, SameBut

\* y shows the panel q after a chunk; a question awaits its number while u is 0.
ChunkShown(n, q, f, y, u) ==
    \E k, r :
        /\ Reshown(q, y, k, r) /\ Sound(k, n, sends) /\ InPlace(panel.messages, k)
        /\ r = <<>> \/ r \in {<<"a", n>>, <<"ai", n>>}
        /\ u = 0 => QuestionUnnamed(k, n, sends)
        /\ f.at = "reading" =>
              /\ r = <<IF f.named THEN "ai" ELSE "a", n>>
              /\ <<"a", n>> \in Ids(k) => <<"a", n>> \in Ids(panel.messages) /\ ~f.named

\* The panel before the chunk.
Followable(n) ==
    /\ sends[n] \in HandledSends /\ sends[n].at = "reading"
    /\ Sound(panel.messages, n, sends)
    /\ Followed(n, panel, sends[n]) /\ NumbersFit(n, panel, sends[n], sends, history)

LEMMA AnswerNamed ==
    ASSUME NEW n \in Sends, NEW k, NEW p, NEW f, Heeds(n, k, p, f), Followable(n),
           NEW q, EndedAs(n, q, p, f)
    PROVE  ChunkShown(n, q, f, IF q.aiId = panel.aiId THEN q ELSE AnswerIdEffect(q),
                      panel.userId)
<1> DEFINE l == panel.messages
           m == q.messages
<1>1. n # 0
  BY DEF Sends
<1>2. /\ q.aiId = IF f.named THEN n ELSE 0
      /\ panel.aiId = IF sends[n].named THEN n ELSE 0
      /\ sends[n].named => f.named
      /\ panel.ref = <<IF sends[n].named THEN "ai" ELSE "a", n>>
  BY DEF Heeds, EndedAs, Followable, Followed
<1>3. /\ q \in Panels /\ Carries(l, m, n, sends) /\ q.ref \in {panel.ref, <<>>}
      /\ f.at = "reading" => m = l /\ q.ref = panel.ref
  BY DEF EndedAs, Heeds
<1>4. /\ panel.userId = 0 => QuestionUnnamed(l, n, sends)
      /\ <<"a", n>> \in Ids(l) => ~sends[n].named
  BY DEF Followable, NumbersFit
<1>5. Sound(m, n, sends) /\ InPlace(l, m) /\ (panel.userId = 0 => QuestionUnnamed(m, n, sends))
  BY <1>3, <1>4 DEF Carries
<1>6. CASE q.aiId = panel.aiId
  <2>1. f.named = sends[n].named
    <3>1. f.named \in BOOLEAN /\ sends[n].named \in BOOLEAN
      BY DEF Heeds, HandledSends, Followable
    <3> QED BY <1>1, <1>2, <1>6, <3>1
  <2>2. Reshown(q, q, m, q.ref)
    BY <1>3 DEF Reshown, SameBut
  <2>3. ChunkShown(n, q, f, q, panel.userId)
    BY <1>2, <1>3, <1>4, <1>5, <2>1, <2>2 DEF ChunkShown
  <2> QED BY <1>6, <2>3
<1>7. CASE q.aiId # panel.aiId
  <2>1. f.named /\ ~sends[n].named /\ q.aiId = n /\ panel.ref = <<"a", n>>
    BY <1>1, <1>2, <1>7
  <2>2. CASE q.ref = <<>>
    <3>1. AnswerIdEffect(q) = q
      BY <1>3, <2>2, AnswerIdIs
    <3>2. Reshown(q, q, m, q.ref)
      BY <1>3 DEF Reshown, SameBut
    <3>3. f.at # "reading"
      BY <1>3, <2>1, <2>2
    <3>4. ChunkShown(n, q, f, q, panel.userId)
      BY <1>5, <2>2, <3>2, <3>3 DEF ChunkShown
    <3> QED BY <1>7, <3>1, <3>4
  <2>3. CASE q.ref = <<"a", n>>
    <3>1. PICK t : /\ Reshown(q, AnswerIdEffect(q), t, <<"ai", n>>)
                   /\ Redone(m, t, n, "ai")
      BY <1>3, <2>1, <2>3, AnswerIdIs
    <3>2. Carries(m, t, n, sends) /\ <<"a", n>> \notin Ids(t)
      BY <1>5, <3>1, RedoneCarries
    <3>3. Carries(l, t, n, sends)
      BY <1>3, <3>2, CarriesTransitive
    <3>4. /\ Sound(t, n, sends) /\ InPlace(l, t)
          /\ panel.userId = 0 => QuestionUnnamed(t, n, sends)
      BY <1>4, <3>3 DEF Carries
    <3>5. ChunkShown(n, q, f, AnswerIdEffect(q), panel.userId)
      BY <2>1, <3>1, <3>2, <3>4 DEF ChunkShown
    <3> QED BY <1>7, <3>5
  <2> QED BY <1>3, <2>1, <2>2, <2>3
<1> QED BY <1>6, <1>7

LEMMA QuestionNamed ==
    ASSUME NEW n \in Sends, NEW k, NEW p, NEW f, Heeds(n, k, p, f), Followable(n),
           NEW q, EndedAs(n, q, p, f), NEW y, ChunkShown(n, q, f, y, panel.userId)
    PROVE  ChunkShown(n, q, f, IF q.userId = panel.userId THEN y ELSE UserIdEffect(y),
                      q.userId)
<1>1. PICK m, r :
        /\ Reshown(q, y, m, r) /\ Sound(m, n, sends) /\ InPlace(panel.messages, m)
        /\ r = <<>> \/ r \in {<<"a", n>>, <<"ai", n>>}
        /\ panel.userId = 0 => QuestionUnnamed(m, n, sends)
        /\ f.at = "reading" =>
              /\ r = <<IF f.named THEN "ai" ELSE "a", n>>
              /\ <<"a", n>> \in Ids(m) => <<"a", n>> \in Ids(panel.messages) /\ ~f.named
  BY DEF ChunkShown
<1>2. CASE q.userId = panel.userId
  <2>1. ChunkShown(n, q, f, y, q.userId)
    BY <1>2
  <2> QED BY <1>2, <2>1
<1>3. CASE q.userId # panel.userId
  <2>1. q.userId = n /\ panel.userId = 0 /\ n # 0
    BY <1>3 DEF Heeds, EndedAs, Followable, Followed, Sends
  <2>2. /\ y \in Panels /\ y.messages = m /\ y.userId = n /\ y.ref = r
    BY <1>1, <2>1 DEF Reshown, SameBut
  <2>3. Right(m, sends)
    BY <1>1 DEF Sound
  <2>4. PICK t : /\ Reshown(y, UserIdEffect(y), t, r)
                 /\ t = m \/ \E last : Numbered(m, t, last, n)
    BY <2>2, <2>3, UserIdIs
  <2>5. Reshown(q, UserIdEffect(y), t, r)
    BY <1>1, <2>4, ReshownTransitive
  <2>6. /\ Sound(t, n, sends) /\ InPlace(m, t)
        /\ <<"a", n>> \in Ids(t) => <<"a", n>> \in Ids(m)
    <3>1. CASE t = m
      BY <1>1, <3>1, InPlaceSelf
    <3>2. CASE t # m
      <4>1. PICK last : Numbered(m, t, last, n)
        BY <2>4, <3>2
      <4>2. sends[n].at \notin Fresh
        BY DEF Followable, Fresh
      <4> QED BY <1>1, <2>1, <4>1, <4>2, NumberedCarries
    <3> QED BY <3>1, <3>2
  <2>7. InPlace(panel.messages, t)
    BY <1>1, <2>6, InPlaceTransitive
  <2>8. ChunkShown(n, q, f, UserIdEffect(y), q.userId)
    BY <1>1, <2>1, <2>5, <2>6, <2>7 DEF ChunkShown
  <2> QED BY <1>3, <2>8
<1> QED BY <1>2, <1>3

LEMMA StreamShown ==
    ASSUME NEW n \in Sends, NEW f, NEW q, NEW y, NEW u, ChunkShown(n, q, f, y, u)
    PROVE  ChunkShown(n, q, f, StreamEffect(y), u)
<1>1. PICK m, r :
        /\ Reshown(q, y, m, r) /\ Sound(m, n, sends) /\ InPlace(panel.messages, m)
        /\ r = <<>> \/ r \in {<<"a", n>>, <<"ai", n>>}
        /\ u = 0 => QuestionUnnamed(m, n, sends)
        /\ f.at = "reading" =>
              /\ r = <<IF f.named THEN "ai" ELSE "a", n>>
              /\ <<"a", n>> \in Ids(m) => <<"a", n>> \in Ids(panel.messages) /\ ~f.named
  BY DEF ChunkShown
<1>2. y \in Panels /\ y.messages = m /\ y.ref = r /\ Right(m, sends)
  BY <1>1 DEF Reshown, Sound
<1>3. r = <<>> \/ r[1] \in {"a", "ai"}
  BY <1>1
<1>4. PICK t : Reshown(y, StreamEffect(y), t, r) /\ Rewritten(m, t)
  BY <1>2, <1>3, StreamIs
<1>5. Carries(m, t, n, sends)
  BY <1>1, <1>4, RewrittenCarries
<1>6. /\ Sound(t, n, sends) /\ InPlace(panel.messages, t)
      /\ <<"a", n>> \in Ids(t) => <<"a", n>> \in Ids(m)
      /\ u = 0 => QuestionUnnamed(t, n, sends)
  BY <1>1, <1>5, InPlaceTransitive DEF Carries
<1>7. Reshown(q, StreamEffect(y), t, r)
  BY <1>1, <1>4, ReshownTransitive
<1> QED BY <1>1, <1>6, <1>7 DEF ChunkShown

LEMMA ChunkRendered ==
    ASSUME NEW n \in Sends, NEW k, NEW p, NEW f, Heeds(n, k, p, f), Followable(n),
           NEW q, EndedAs(n, q, p, f)
    PROVE  ChunkShown(n, q, f, Rendered(panel, history, q, history), q.userId)
<1> DEFINE y3 == IF q.aiId = panel.aiId THEN q ELSE AnswerIdEffect(q)
           y4 == IF q.userId = panel.userId THEN y3 ELSE UserIdEffect(y3)
<1>1. q.session = panel.session
  BY DEF EndedAs, Heeds
<1>2. \/ Rendered(panel, history, q, history) = y4
      \/ Rendered(panel, history, q, history) = StreamEffect(y4)
  BY <1>1 DEF Rendered
<1>3. ChunkShown(n, q, f, y3, panel.userId)
  BY AnswerNamed
<1> HIDE DEF y3
<1>4. ChunkShown(n, q, f, y4, q.userId)
  BY <1>3, QuestionNamed
<1> HIDE DEF y4
<1> QED BY <1>2, <1>4, StreamShown

LEMMA SoundOnward ==
    ASSUME NEW ss, NEW ss2, Onward(ss, ss2), NEW n, NEW l, Sound(l, n, ss)
    PROVE  Sound(l, n, ss2)
BY RightOnward, ApartOnward DEF Sound

\* The send n, which is read, is f by now, and its run r.
ReadsOn(n, f, r) ==
    /\ sends[n].at = "reading" /\ f \in HandledSends /\ f.at \in {"reading", "over"}
    /\ f.text = sends[n].text /\ f.session = sends[n].session
    /\ r \in ServerRuns /\ r.at = runs[n].at /\ (~f.named => IdsComeFirst(r.wire))
    /\ sends' = [sends EXCEPT ![n] = f] /\ runs' = [runs EXCEPT ![n] = r]

LEMMA ReadsOnIs ==
    ASSUME PanelInvariant, NEW n \in Sends, NEW f, NEW r, ReadsOn(n, f, r)
    PROVE  /\ SendsRight' /\ Moves(sends, sends') /\ RunsOnward(runs, runs')
           /\ sends'[n] = f /\ \A k \in Sends : k # n => sends'[k].at \notin Waiting
           /\ \A k \in Sends : sends'[k].at \notin Fresh /\ runs'[k].at # "lost" =>
                                  sends'[k].session \in store.created
<1>1. SendsRight /\ SessionsExist
  BY DEF PanelInvariant
<1>2. /\ sends \in [Sends -> HandledSends] /\ runs \in [Sends -> ServerRuns]
      /\ OneSendAtATime /\ \A k \in Sends : SendRight(sends[k], runs[k])
  BY <1>1 DEF SendsRight
<1>3. /\ sends' \in [Sends -> HandledSends] /\ runs' \in [Sends -> ServerRuns]
      /\ sends'[n] = f /\ runs'[n] = r
      /\ \A k \in Sends : k # n => sends'[k] = sends[k] /\ runs'[k] = runs[k]
  BY <1>2 DEF ReadsOn
<1>4. \A k \in Sends : k # n => sends[k].at \notin Waiting
  BY <1>2, OneLive DEF ReadsOn, Waiting
<1>5. Moves(sends, sends')
  BY <1>3 DEF Moves, Onward, ReadsOn, Live, Fresh
<1>6. RunsOnward(runs, runs')
  BY <1>3 DEF RunsOnward, ReadsOn
<1>7. \A k \in Sends : sends'[k].at \notin Fresh /\ runs'[k].at # "lost" =>
                          sends'[k].session \in store.created
  BY <1>1, <1>3 DEF SessionsExist, ReadsOn, Fresh
<1>8. SendsRight'
  <2>1. SendRight(f, r)
    BY <1>2 DEF ReadsOn, SendRight, Fresh
  <2>2. \A k \in Sends : SendRight(sends'[k], runs'[k])
    BY <1>2, <1>3, <2>1
  <2>3. InTurn(sends, sends')
    BY <1>3 DEF InTurn, ReadsOn
  <2> QED BY <1>1, <1>3, <2>2, <2>3, SendsRightNext
<1> QED BY <1>3, <1>4, <1>5, <1>6, <1>7, <1>8

\* The panel y, shown after a chunk, before any history comes of it.
LEMMA ChunkFits ==
    ASSUME PanelFits(panel, sends, history), NEW n \in Sends, NEW k, NEW p, NEW f,
           Heeds(n, k, p, f), HeardSome(n, p, f), Followable(n), NEW q,
           EndedAs(n, q, p, f), NEW y, ChunkShown(n, q, f, y, q.userId),
           NEW ss, Onward(sends, ss), ss[n] = f,
           \A m \in Sends : m # n => ss[m].at \notin Waiting
    PROVE  PanelFits(y, ss, history) /\ y.session = panel.session
<1>1. PICK m, r :
        /\ Reshown(q, y, m, r) /\ Sound(m, n, sends) /\ InPlace(panel.messages, m)
        /\ r = <<>> \/ r \in {<<"a", n>>, <<"ai", n>>}
        /\ q.userId = 0 => QuestionUnnamed(m, n, sends)
        /\ f.at = "reading" =>
              /\ r = <<IF f.named THEN "ai" ELSE "a", n>>
              /\ <<"a", n>> \in Ids(m) => <<"a", n>> \in Ids(panel.messages) /\ ~f.named
  BY DEF ChunkShown
<1>2. /\ y \in Panels /\ y.messages = m /\ y.ref = r /\ y.session = q.session
      /\ y.skip = q.skip /\ y.streaming = q.streaming /\ y.abort = q.abort
      /\ y.sending = q.sending /\ y.content = q.content /\ y.buffer = q.buffer
      /\ y.aiId = q.aiId /\ y.userId = q.userId
  BY <1>1 DEF Reshown, SameBut
<1>3. /\ q.session = panel.session /\ q.skip = NoSession
      /\ q.streaming => panel.abort \in Sends /\ q.abort = panel.abort
      /\ f.at \in {"reading", "over"} /\ f.text = sends[n].text
  BY DEF EndedAs, Heeds, PanelFits
<1>4. Right(m, ss) /\ Apart(m, ss) /\ AnswerUnnamed(m, n)
  <2>1. Sound(m, n, ss)
    BY <1>1, SoundOnward
  <2> QED BY <2>1 DEF Sound
<1>5. r = <<>> \/ r[1] \in {"a", "ai"}
  BY <1>1
<1>6. ASSUME f.at = "reading"
      PROVE  q.sending /\ Followed(n, y, f) /\ NumbersFit(n, y, f, ss, history)
  <2>1. /\ q = p /\ panel.sending /\ p.sending = panel.sending
    BY <1>6 DEF EndedAs, Heeds, PanelFits, Followable, Waiting
  <2>2. Followed(n, y, f)
    <3>1. y.streaming => y.content \o y.buffer = f.read
      BY <1>2, <2>1 DEF Heeds
    <3>2. y.aiId = IF f.named THEN n ELSE 0
      BY <1>2, <2>1 DEF Heeds
    <3>3. y.userId \in {0, n}
      BY <1>2, <2>1 DEF Heeds, Followable, Followed
    <3>4. y.ref = <<IF f.named THEN "ai" ELSE "a", n>>
      BY <1>1, <1>2, <1>6
    <3>5. ~f.named => y.streaming
      BY <1>2, <2>1 DEF HeardSome, Followable, Followed
    <3> QED BY <1>6, <3>1, <3>2, <3>3, <3>4, <3>5 DEF Followed
  <2>3. NumbersFit(n, y, f, ss, history)
    <3>1. y.userId = 0 => QuestionUnnamed(m, n, ss)
      <4>1. y.userId = 0 => QuestionUnnamed(m, n, sends)
        BY <1>1, <1>2
      <4>2. ss[n].text = sends[n].text
        BY <1>3
      <4> QED BY <4>1, <4>2, QuestionUnnamedOnward
    <3>2. <<"a", n>> \in Ids(m) => <<"a", n>> \in Ids(panel.messages) /\ ~f.named
      BY <1>1, <1>6
    <3>3. <<"a", n>> \in Ids(panel.messages) /\ panel.session # NoSession =>
             \A list \in history[panel.session].fetch : <<"ai", n>> \notin Ids(list)
      BY DEF Followable, NumbersFit
    <3> QED BY <1>2, <1>3, <1>4, <3>1, <3>2, <3>3 DEF NumbersFit
  <2> QED BY <2>1, <2>2, <2>3
<1>7. \A j \in Sends : ss[j].at \in Waiting => y.sending
  BY <1>2, <1>3, <1>6 DEF Waiting
<1>8. \A j \in Sends : ss[j].at \in Live =>
         Followed(j, y, ss[j]) /\ NumbersFit(j, y, ss[j], ss, history)
  BY <1>3, <1>6 DEF Waiting, Live
<1>9. PanelFits(y, ss, history)
  BY <1>2, <1>3, <1>4, <1>5, <1>7, <1>8 DEF PanelFits
<1> QED BY <1>2, <1>3, <1>9

\* The panel q shows the list l before what the panel y does.
ShownBefore(l, y, q) == q = [y EXCEPT !.messages = Merged(l, y.messages)]

\* What is cached of an answered send is shown before what was.
LEMMA CachedShown ==
    ASSUME NEW y, NEW ss, NEW hist, NEW hist2, PanelFits(y, ss, hist),
           \A m \in Sends : ss[m].at \notin Waiting,
           NEW l, l \in Lists, Right(l, ss), Apart(l, ss), NEW k, InPlace(k, l),
           NEW q, ShownBefore(l, y, q)
    PROVE  PanelFits(q, ss, hist2) /\ InPlace(k, q.messages) /\ q.session = y.session
<1> DEFINE t == Merged(l, y.messages)
<1>1. y \in Panels /\ Right(y.messages, ss) /\ Apart(y.messages, ss)
  BY DEF PanelFits
<1>2. y.messages \in Lists
  BY <1>1 DEF Panels
<1>3. PICK g : IsMerged(t, l, y.messages, g)
  BY <1>2, Merges
<1> HIDE DEF t
<1>4. t \in Lists
  BY <1>3 DEF IsMerged
<1>5. Right(t, ss)
  BY <1>1, <1>2, <1>3, RightMerged
<1>6. Apart(t, ss)
  BY <1>1, <1>2, <1>3, ApartMerged
<1>7. Reshown(y, q, t, y.ref)
  BY <1>1, <1>4, WithMessages DEF t, ShownBefore
<1>8. InPlace(l, t)
  <2>1. /\ DOMAIN l = 1..Len(l) /\ DOMAIN t = 1..Len(t) /\ Len(l) \in Nat /\ Len(t) \in Nat
        /\ Len(l) <= Len(t) /\ \A i \in 1..Len(l) : t[i] = l[i]
    BY <1>3, <1>4, ListTyped DEF IsMerged
  <2>2. DOMAIN l \subseteq DOMAIN t /\ \A i \in DOMAIN l : t[i] = l[i]
    BY <2>1
  <2> QED BY <2>2 DEF InPlace, Follows
<1>9. InPlace(k, t)
  BY <1>8, InPlaceTransitive
<1>10. /\ q \in Panels /\ q.messages = t /\ q.ref = y.ref /\ q.skip = y.skip
       /\ q.streaming = y.streaming /\ q.abort = y.abort /\ q.session = y.session
  BY <1>7 DEF Reshown, SameBut
<1>11. PanelFits(q, ss, hist2)
  BY <1>5, <1>6, <1>10 DEF PanelFits, Waiting, Live
<1> QED BY <1>9, <1>10, <1>11

LEMMA ReadChunkKeeps ==
    ASSUME PanelInvariant, NEW n \in Sends, NEW k, ReadChunk(n, k)
    PROVE  PanelInvariant' /\ InPlace(panel.messages, panel'.messages)
<1>1. /\ SendsRight /\ SessionsExist /\ StoreRight(store.conv, sends, runs)
      /\ HistoryRight(history, sends, runs) /\ PanelFits(panel, sends, history)
  BY DEF PanelInvariant
<1>2. /\ sends \in [Sends -> HandledSends] /\ runs \in [Sends -> ServerRuns]
      /\ OneSendAtATime /\ SendRight(sends[n], runs[n])
      /\ panel \in Panels /\ Right(panel.messages, sends) /\ Apart(panel.messages, sends)
  BY <1>1 DEF SendsRight, PanelFits
<1>3. sends[n].at = "reading" /\ k \in 1..Len(runs[n].wire)
  BY DEF ReadChunk
<1>4. sends[n] \in HandledSends /\ runs[n] \in ServerRuns /\ runs[n].wire \in Seq(Events)
  <2>1. runs[n] \in ServerRuns
    BY <1>2
  <2> QED BY <1>2, <2>1 DEF ServerRuns
<1>5. Followable(n)
  <2>1. Followed(n, panel, sends[n]) /\ NumbersFit(n, panel, sends[n], sends, history)
    BY <1>1, <1>3 DEF PanelFits, Live
  <2>2. panel.messages \in Lists
    BY <1>2 DEF Panels
  <2>3. Sound(panel.messages, n, sends)
    BY <1>2, <2>1, <2>2 DEF Sound, NumbersFit
  <2> QED BY <1>3, <1>4, <2>1, <2>3 DEF Followable
<1>6. Heeds(n, 0, panel, sends[n])
  <2>1. Followed(n, panel, sends[n])
    BY <1>5 DEF Followable
  <2>2. 1..0 = {}
    OBVIOUS
  <2>3. /\ panel.aiId = IF sends[n].named THEN n ELSE 0
        /\ panel.streaming => panel.content \o panel.buffer = sends[n].read
    BY <2>1 DEF Followed
  <2> QED BY <1>2, <1>3, <1>4, <2>2, <2>3 DEF Heeds
<1>7. PICK p, f : Chunk(n, k) = <<p, f>> /\ Heeds(n, k, p, f)
  BY <1>3, <1>4, <1>6, ChunkKeeps
<1> DEFINE v == SubSeq(runs[n].wire, k + 1, Len(runs[n].wire))
           r == [runs[n] EXCEPT !.wire = v]
           q == Concluded(n, p, f)
           shown == Rendered(panel, history, q, history)
           cached == [history EXCEPT ![f.session].data = {q.messages}]
<1>8. /\ sends' = [sends EXCEPT ![n] = f] /\ runs' = [runs EXCEPT ![n] = r]
      /\ history' = IF HasAnswer(f) THEN cached ELSE history
      /\ panel' = Rendered(shown, history, shown, history')
      /\ UNCHANGED store
  BY <1>2, <1>7 DEF ReadChunk
<1>9. HeardSome(n, p, f) /\ (~f.named => IdsComeFirst(v))
  BY <1>2, <1>3, <1>4, <1>7, NamedFirst DEF SendRight
<1>10. /\ f \in HandledSends /\ f.at \in {"reading", "over"} /\ f.text = sends[n].text
       /\ f.session = sends[n].session
  BY <1>7 DEF Heeds
<1>11. r \in ServerRuns /\ r.at = runs[n].at /\ r.wire = v
  <2>1. v \in Seq(Events)
    BY <1>3, <1>4
  <2> HIDE DEF v
  <2> QED BY <1>4, <2>1 DEF ServerRuns
<1> HIDE DEF r, v
<1>12. ReadsOn(n, f, r)
  BY <1>3, <1>8, <1>9, <1>10, <1>11 DEF ReadsOn
<1>13. /\ SendsRight' /\ Moves(sends, sends') /\ RunsOnward(runs, runs')
       /\ sends'[n] = f /\ \A j \in Sends : j # n => sends'[j].at \notin Waiting
       /\ \A j \in Sends : sends'[j].at \notin Fresh /\ runs'[j].at # "lost" =>
                              sends'[j].session \in store.created
  BY <1>12, ReadsOnIs
<1>14. StoreRight(store.conv, sends', runs') /\ HistoryRight(history, sends', runs')
  BY <1>1, <1>13, StoreOnward, HistoryOnward
<1>15. Onward(sends, sends')
  BY <1>13 DEF Moves
<1>16. EndedAs(n, q, p, f)
  BY <1>5, <1>7, <1>9, ConcludedIs DEF Followable
<1> HIDE DEF q
<1>17. ChunkShown(n, q, f, shown, q.userId)
  BY <1>5, <1>7, <1>16, ChunkRendered
<1> HIDE DEF shown
<1>18. PanelFits(shown, sends', history) /\ shown.session = panel.session
  BY <1>1, <1>5, <1>7, <1>9, <1>13, <1>15, <1>16, <1>17, ChunkFits
<1>19. InPlace(panel.messages, shown.messages)
  BY <1>17 DEF ChunkShown, Reshown
<1>20. /\ q.messages \in Lists /\ InPlace(panel.messages, q.messages)
       /\ Right(q.messages, sends') /\ Apart(q.messages, sends')
  <2>1. Sound(q.messages, n, sends) /\ InPlace(panel.messages, q.messages)
    BY <1>16 DEF EndedAs, Carries
  <2>2. Sound(q.messages, n, sends')
    BY <1>15, <2>1, SoundOnward
  <2> QED BY <2>1, <2>2 DEF Sound
<1>21. f.session \in store.created /\ f.session \in ChatSessions
  <2>1. runs[n].at # "lost"
    BY <1>2, <1>3 DEF SendRight
  <2> QED BY <1>1, <1>3, <1>10, <2>1 DEF SessionsExist, Fresh
<1>22. HasAnswer(f) => \A j \in Sends : sends'[j].at \notin Waiting
  BY <1>13 DEF HasAnswer, Waiting
<1>23. /\ HistoryRight(history', sends', runs')
       /\ \A s \in ChatSessions : s # f.session => history'[s] = history[s]
       /\ HasAnswer(f) => history'[f.session].data = {q.messages}
  <2>1. CASE ~HasAnswer(f)
    BY <1>8, <1>14, <2>1
  <2>2. CASE HasAnswer(f)
    <3>1. history \in [ChatSessions -> [data : SUBSET Lists, fetch : SUBSET Lists]]
      BY <1>14 DEF HistoryRight
    <3>2. /\ history' \in [ChatSessions -> [data : SUBSET Lists, fetch : SUBSET Lists]]
          /\ history'[f.session].data = {q.messages}
          /\ history'[f.session].fetch = history[f.session].fetch
          /\ \A s \in ChatSessions : s # f.session => history'[s] = history[s]
      BY <1>8, <1>20, <1>21, <2>2, <3>1
    <3>3. CachedRight(q.messages, sends')
      BY <1>20, <1>22, <2>2 DEF CachedRight, Waiting, Live
    <3>4. HistoryRight(history', sends', runs')
      BY <1>14, <3>2, <3>3 DEF HistoryRight
    <3> QED BY <3>2, <3>4
  <2> QED BY <2>1, <2>2
<1>24. /\ PanelFits(panel', sends', history') /\ InPlace(panel.messages, panel'.messages)
       /\ panel'.session = panel.session
  <2>2. CASE Data(history', shown.session) = Data(history, shown.session)
    <3>1. panel' = shown
      BY <1>8, <2>2, HistoryRender
    <3>2. NoMoreFetched(shown, history, history')
      <4>1. shown.session # NoSession => shown.session \in ChatSessions
        BY <1>2, <1>18 DEF Panels
      <4>2. history'[f.session].fetch = history[f.session].fetch
        BY <1>8, <1>14, <1>21 DEF HistoryRight
      <4> QED BY <1>23, <4>1, <4>2 DEF NoMoreFetched
    <3>3. PanelFits(shown, sends', history')
      BY <1>18, <3>2, SameSelf, FitsOnward
    <3> QED BY <1>18, <1>19, <3>1, <3>3
  <2>3. CASE Data(history', shown.session) # Data(history, shown.session)
    <3>1. HasAnswer(f) /\ shown.session = f.session /\ shown.session # NoSession
      BY <1>2, <1>8, <1>18, <1>23, <2>3 DEF Data, Panels
    <3>2. Data(history', shown.session) = {q.messages} /\ {q.messages} # NotLoaded
      BY <1>23, <3>1 DEF Data, NotLoaded
    <3>3. The({q.messages}) = q.messages
      BY DEF The
    <3>4. ShownBefore(q.messages, shown, panel')
      <4>1. Rendered(shown, history, shown, history') =
               IF Data(history', shown.session) = Data(history, shown.session) THEN shown
               ELSE HistoryEffect(shown, Data(history', shown.session))
        BY HistoryRender
      <4>2. panel' = HistoryEffect(shown, Data(history', shown.session))
        BY <1>8, <2>3, <4>1
      <4>3. panel' = HistoryEffect(shown, {q.messages})
        BY <3>2, <4>2
      <4> QED BY <3>1, <3>2, <3>3, <4>3 DEF HistoryEffect, ShownBefore
    <3>5. PanelFits(shown, sends', history) /\ \A j \in Sends : sends'[j].at \notin Waiting
      BY <1>18, <1>22, <3>1
    <3>6. /\ PanelFits(panel', sends', history') /\ panel'.session = shown.session
          /\ InPlace(panel.messages, panel'.messages)
      BY <1>20, <3>4, <3>5, CachedShown
    <3> QED BY <1>18, <3>6
  <2> QED BY <2>2, <2>3
<1>25. SessionsExist'
  BY <1>1, <1>8, <1>13, <1>21, <1>23, <1>24 DEF SessionsExist
<1> QED BY <1>8, <1>13, <1>14, <1>23, <1>24, <1>25 DEF PanelInvariant

-----------------------------------------------------------------------------
(* Nothing vanishes, and the steps together.                               *)

LEMMA InPlaceVanishes ==
    ASSUME panel.messages \in Lists, InPlace(panel.messages, panel'.messages)
    PROVE  NothingVanishes
<1>1. \A i \in DOMAIN panel.messages : panel.messages[i].role \in {"user", "assistant"}
  BY ListTyped DEF Messages
<1>2. \A i \in DOMAIN panel.messages :
         i \in DOMAIN panel'.messages /\ StandsFor(panel'.messages[i], panel.messages[i])
  BY <1>1 DEF InPlace, Follows, StandsFor
<1> QED BY <1>2 DEF NothingVanishes

LEMMA RedrawnInPlace ==
    ASSUME NEW p, NEW q, NEW ss, NEW ss2, NEW hist, PanelFits(p, ss, hist), Redrawn(p, q, ss2)
    PROVE  InPlace(p.messages, q.messages)
<1>1. p \in Panels /\ Right(p.messages, ss) /\ Rewritten(p.messages, q.messages)
  BY DEF PanelFits, Redrawn
<1>2. p.messages \in Lists
  BY <1>1 DEF Panels
<1>3. CASE Sends = {}
  <2>1. Messages = {}
    BY <1>3 DEF Messages, MessageIds
  <2>2. DOMAIN p.messages = {}
    BY <1>2, <2>1, ListTyped
  <2> QED BY <2>2 DEF InPlace
<1>4. CASE Sends # {}
  <2>1. PICK n \in Sends : TRUE
    BY <1>4
  <2>2. Redone(p.messages, q.messages, n, "a")
    BY <1>1 DEF Rewritten
  <2> QED BY <1>1, <2>2, InPlaceRedone
<1> QED BY <1>3, <1>4

\* A message that a history takes the place of has its text, or its number.
LEMMA StoredStandsFor ==
    ASSUME NEW ss, NEW rr, NEW stored, StoredRight(stored, ss, rr), NEW l, Right(l, ss),
           NEW i \in DOMAIN l, ~MisnamedIn(l[i], ss), ~IsNotAmong(l[i], stored),
           l[i].role \in {"user", "assistant"}
    PROVE  \E j \in DOMAIN stored : StandsFor(stored[j], l[i])
<1>1. Right(stored, ss) /\ Stored(stored, ss, rr)
  BY DEF StoredRight
<1>2. CASE l[i].id \in Ids(stored)
  <2>1. PICK j \in DOMAIN stored : stored[j].id = l[i].id
    BY <1>2 DEF Ids
  <2>2. stored[j].role = l[i].role
    BY <1>1, <2>1 DEF Right
  <2>3. CASE l[i].role = "user"
    <3>1. l[i].id[1] \in {"u", "msg"}
      BY <2>3 DEF Right
    <3>2. stored[j].id[1] = "msg" /\ stored[j].text = Typed(ss[stored[j].id[2]].text)
      BY <1>1, <2>1, <3>1 DEF Stored
    <3>3. stored[j].text = l[i].text
      BY <2>1, <3>2 DEF MisnamedIn
    <3> QED BY <2>2, <3>3 DEF StandsFor
  <2>4. CASE l[i].role = "assistant"
    BY <2>1, <2>2, <2>4 DEF StandsFor
  <2> QED BY <2>3, <2>4
<1>3. CASE l[i].id \notin Ids(stored)
  <2>1. PICK j \in DOMAIN stored : stored[j].role = l[i].role /\ stored[j].text = l[i].text
    BY <1>3 DEF IsNotAmong
  <2> QED BY <2>1 DEF StandsFor
<1> QED BY <1>2, <1>3

LEMMA FetchVanishes ==
    ASSUME PanelInvariant, FetchShown(panel, panel', sends, runs)
    PROVE  NothingVanishes
<1> DEFINE l == panel.messages
<1>1. panel \in Panels /\ Right(l, sends)
  BY DEF PanelInvariant, PanelFits
<1>2. l \in Lists
  BY <1>1 DEF Panels
<1>3. CASE panel' = panel
  <2>1. InPlace(l, panel'.messages)
    BY <1>3, InPlaceSelf
  <2> QED BY <1>2, <2>1, InPlaceVanishes
<1>4. CASE panel' # panel
  <2>1. PICK stored : /\ StoredRight(stored, sends, runs)
                      /\ panel' = [panel EXCEPT !.messages = Merged(stored, l)]
    BY <1>4 DEF FetchShown
  <2> DEFINE t == Merged(stored, l)
  <2>2. stored \in Lists
    BY <2>1 DEF StoredRight
  <2>3. PICK g : IsMerged(t, stored, l, g)
    BY <1>2, <2>2, Merges
  <2>4. panel'.messages = t
    BY <1>1, <2>1 DEF Panels
  <2> HIDE DEF t
  <2>5. /\ t \in Lists /\ Len(stored) <= Len(t)
        /\ \A i \in 1..Len(stored) : t[i] = stored[i]
        /\ \A i \in 1..Len(l) :
              IsNotAmong(l[i], stored) => \E j \in 1..Len(t) : t[j] = l[i]
    BY <2>3 DEF IsMerged
  <2>6. /\ DOMAIN stored = 1..Len(stored) /\ DOMAIN l = 1..Len(l) /\ DOMAIN t = 1..Len(t)
        /\ Len(stored) \in Nat /\ Len(t) \in Nat
    BY <1>2, <2>2, <2>5, ListTyped
  <2>7. \A j \in DOMAIN stored : j \in DOMAIN t /\ t[j] = stored[j]
    BY <2>5, <2>6
  <2>8. ASSUME NEW i \in DOMAIN l, ~Misnamed(l[i])
        PROVE  \E j \in DOMAIN t : StandsFor(t[j], l[i])
    <3>1. CASE IsNotAmong(l[i], stored)
      <4>1. PICK j \in DOMAIN t : t[j] = l[i]
        BY <2>5, <2>6, <3>1
      <4> QED BY <4>1 DEF StandsFor
    <3>2. CASE ~IsNotAmong(l[i], stored)
      <4>1. ~MisnamedIn(l[i], sends)
        BY <2>8 DEF Misnamed, MisnamedIn
      <4>2. l[i].role \in {"user", "assistant"}
        BY <1>2, ListTyped DEF Messages
      <4>3. PICK j \in DOMAIN stored : StandsFor(stored[j], l[i])
        BY <1>1, <2>1, <3>2, <4>1, <4>2, StoredStandsFor
      <4> QED BY <2>7, <4>3
    <3> QED BY <3>1, <3>2
  <2> QED BY <2>4, <2>8 DEF NothingVanishes
<1> QED BY <1>3, <1>4

LEMMA PanelStarts == ASSUME ChatPanelInit PROVE PanelInvariant
<1>1. <<>> \in Texts
  BY DEF Texts
<1>2. <<>> \in Lists
  BY DEF Lists
<1>3. <<>> \in Seq(Events)
  OBVIOUS
<1>4. MaxSends \in Nat /\ FirstSessions \subseteq ChatSessions
  BY ChatPanelAssumption
<1>5. SendsRight
  <2>1. /\ sends \in [Sends -> HandledSends]
        /\ \A n \in Sends : /\ sends[n].at = "unsent" /\ sends[n].read = <<>>
                            /\ sends[n].final = NoAnswer /\ ~sends[n].named
    BY <1>1 DEF ChatPanelInit, HandledSends, NoAnswer
  <2>2. /\ runs \in [Sends -> ServerRuns] /\ \A n \in Sends : runs[n].at = "none"
    BY <1>1, <1>3 DEF ChatPanelInit, ServerRuns
  <2> QED BY <2>1, <2>2 DEF SendsRight, OneSendAtATime, SendRight
<1>6. \A n \in Sends : sends[n].at = "unsent"
  BY DEF ChatPanelInit
<1>7. /\ store.created = FirstSessions /\ \A s \in ChatSessions : store.conv[s] = <<>>
      /\ store \in [created : SUBSET ChatSessions, conv : [ChatSessions -> Lists]]
  BY <1>2, <1>4 DEF ChatPanelInit
<1>8. /\ history \in [ChatSessions -> [data : SUBSET Lists, fetch : SUBSET Lists]]
      /\ \A s \in ChatSessions :
            /\ history[s].fetch = NoFetch /\ history[s].data \subseteq {<<>>}
            /\ s \notin FirstSessions => history[s].data = NotLoaded
  BY <1>2 DEF ChatPanelInit, NoFetch, NotLoaded
<1>9. /\ panel.session = NoSession /\ panel.messages = <<>> /\ panel.ref = <<>>
      /\ panel.skip = NoSession /\ ~panel.streaming /\ panel \in Panels
  BY <1>1, <1>2, <1>4 DEF ChatPanelInit, Panels
<1>10. Right(<<>>, sends) /\ Apart(<<>>, sends) /\ Stored(<<>>, sends, runs)
  BY DEF Right, Apart, Stored
<1>11. SessionsExist
  BY <1>6, <1>7, <1>8, <1>9 DEF SessionsExist, Fresh
<1>12. PanelFits(panel, sends, history)
  BY <1>6, <1>9, <1>10 DEF PanelFits, Waiting, Live
<1>13. StoreRight(store.conv, sends, runs)
  <2>1. StoredRight(<<>>, sends, runs)
    BY <1>2, <1>10 DEF StoredRight
  <2> QED BY <1>7, <2>1, Zenon DEF StoreRight
<1>14. HistoryRight(history, sends, runs)
  <2>1. CachedRight(<<>>, sends)
    BY <1>2, <1>6, <1>10 DEF CachedRight, Live
  <2> QED BY <1>8, <2>1 DEF HistoryRight, NoFetch
<1> QED BY <1>5, <1>11, <1>12, <1>13, <1>14 DEF PanelInvariant

LEMMA PanelRests ==
    ASSUME PanelInvariant, UNCHANGED panelVars
    PROVE  PanelInvariant' /\ InPlace(panel.messages, panel'.messages)
<1>1. UNCHANGED <<panel, sends, runs, store, history>>
  BY DEF panelVars
<1>2. SendsRight'
  BY <1>1 DEF PanelInvariant, SendsRight, OneSendAtATime
<1>3. SessionsExist'
  BY <1>1 DEF PanelInvariant, SessionsExist
<1>4. InPlace(panel.messages, panel'.messages)
  BY <1>1, InPlaceSelf
<1> QED BY <1>1, <1>2, <1>3, <1>4 DEF PanelInvariant

\* One action after the other.
LEMMA PanelActs ==
    ASSUME PanelInvariant, ChatPanelNext
    PROVE  PanelInvariant' /\ NothingVanishes
<1>1. panel.messages \in Lists /\ PanelFits(panel, sends, history)
  BY DEF PanelInvariant, PanelFits, Panels
<1>2. panel'.session # panel.session => NothingVanishes
  BY DEF NothingVanishes
<1>3. UNCHANGED panel => NothingVanishes
  <2>1. UNCHANGED panel => InPlace(panel.messages, panel'.messages)
    BY InPlaceSelf
  <2> QED BY <1>1, <2>1, InPlaceVanishes
<1>4. \A ss : Redrawn(panel, panel', ss) => NothingVanishes
  BY <1>1, RedrawnInPlace, InPlaceVanishes
<1>5. CASE Poll
  BY <1>3, <1>5, PollKeeps DEF Poll
<1>6. CASE Stop
  BY <1>4, <1>6, StopKeeps
<1>7. CASE Frame
  BY <1>4, <1>7, FrameKeeps
<1>8. ASSUME NEW s \in ChatSessions \cup {NoSession}, OpenSession(s)
      PROVE  PanelInvariant' /\ NothingVanishes
  BY <1>2, <1>8, OpenSessionKeeps
<1>9. ASSUME NEW s \in ChatSessions, FetchLands(s)
      PROVE  PanelInvariant' /\ NothingVanishes
  BY <1>9, FetchLandsKeeps, FetchVanishes
<1>10. ASSUME NEW n \in Sends, NEW text \in SendTexts, ClickSend(n, text)
       PROVE  PanelInvariant' /\ NothingVanishes
  BY <1>1, <1>10, ClickSendKeeps, InPlaceVanishes
<1>11. ASSUME NEW n \in Sends, NEW s \in ChatSessions, CreateSession(n, s)
       PROVE  PanelInvariant' /\ NothingVanishes
  BY <1>2, <1>11, CreateSessionKeeps
<1>12. ASSUME NEW n \in Sends, NEW k, ReadChunk(n, k)
       PROVE  PanelInvariant' /\ NothingVanishes
  BY <1>1, <1>12, ReadChunkKeeps, InPlaceVanishes
<1>13. ASSUME NEW n \in Sends, CreateFails(n) \/ RequestFails(n) \/ AbortLands(n)
       PROVE  PanelInvariant' /\ NothingVanishes
  <2>1. PanelInvariant' /\ Redrawn(panel, panel', sends')
    BY <1>13, CreateFailsKeeps, RequestFailsKeeps, AbortLandsKeeps
  <2> QED BY <1>4, <2>1
<1>14. ASSUME NEW n \in Sends, RequestArrives(n)
       PROVE  PanelInvariant' /\ NothingVanishes
  BY <1>3, <1>14, RequestArrivesKeeps DEF RequestArrives
<1>15. ASSUME NEW n \in Sends, EmitToken(n) \/ RollBack(n) \/ CompleteRun(n) \/ CloseRun(n)
       PROVE  PanelInvariant' /\ NothingVanishes
  <2>1. PanelInvariant'
    BY <1>15, EmitTokenKeeps, RollBackKeeps, CompleteRunKeeps, CloseRunKeeps
  <2>2. UNCHANGED panel
    BY <1>15 DEF EmitToken, RollBack, CompleteRun, CloseRun
  <2> QED BY <1>3, <2>1, <2>2
<1>16. ASSUME NEW n \in Sends, SaveAnswer(n) \/ RunFails(n) \/ StopArrives(n)
       PROVE  PanelInvariant' /\ NothingVanishes
  <2>1. PanelInvariant'
    BY <1>16, SaveAnswerKeeps, RunFailsKeeps, StopArrivesKeeps
  <2>2. UNCHANGED panel
    BY <1>16 DEF SaveAnswer, RunFails, StopArrives
  <2> QED BY <1>3, <2>1, <2>2
<1>17. CASE \E n \in Sends :
              \/ \E text \in SendTexts : ClickSend(n, text)
              \/ \E s \in ChatSessions : CreateSession(n, s)
              \/ CreateFails(n) \/ RequestFails(n) \/ AbortLands(n)
              \/ \E k \in 1..(MaxTokens + 5) : ReadChunk(n, k)
              \/ RequestArrives(n) \/ EmitToken(n) \/ RollBack(n) \/ CompleteRun(n)
              \/ SaveAnswer(n) \/ CloseRun(n) \/ RunFails(n) \/ StopArrives(n)
  BY <1>10, <1>11, <1>12, <1>13, <1>14, <1>15, <1>16, <1>17
<1> QED BY <1>5, <1>6, <1>7, <1>8, <1>9, <1>17 DEF ChatPanelNext

LEMMA PanelSteps ==
    PanelInvariant /\ [ChatPanelNext]_panelVars => PanelInvariant' /\ NothingVanishes
<1>1. ASSUME PanelInvariant, ChatPanelNext PROVE PanelInvariant' /\ NothingVanishes
  BY <1>1, PanelActs
<1>2. ASSUME PanelInvariant, UNCHANGED panelVars PROVE PanelInvariant' /\ NothingVanishes
  <2>1. panel.messages \in Lists
    BY <1>2 DEF PanelInvariant, PanelFits, Panels
  <2> QED BY <1>2, <2>1, PanelRests, InPlaceVanishes
<1> QED BY <1>1, <1>2

\* What the invariant says of the panel in the words of its properties.
LEMMA PanelInvariantSays ==
    PanelInvariant => PanelTypeOK /\ OneSendAtATime /\ StreamIsTheSends /\ ShownOnce
<1> SUFFICES ASSUME PanelInvariant
             PROVE  PanelTypeOK /\ OneSendAtATime /\ StreamIsTheSends /\ ShownOnce
  OBVIOUS
<1>1. /\ SendsRight /\ SessionsExist /\ PanelFits(panel, sends, history)
      /\ StoreRight(store.conv, sends, runs) /\ HistoryRight(history, sends, runs)
  BY DEF PanelInvariant
<1>2. PanelTypeOK
  <2>1. \A s \in ChatSessions : \A i, j \in DOMAIN store.conv[s] :
           store.conv[s][i].id = store.conv[s][j].id => i = j
    BY <1>1 DEF StoreRight, StoredRight, Stored
  <2> QED BY <1>1, <2>1 DEF PanelTypeOK, SendsRight, SessionsExist, PanelFits, HistoryRight
<1>3. OneSendAtATime
  BY <1>1 DEF SendsRight
<1>4. StreamIsTheSends
  <2> SUFFICES ASSUME NEW n \in Sends, sends[n].at = "reading", panel.streaming
               PROVE  /\ panel.content \o panel.buffer = sends[n].read
                      /\ panel.ref \in {<<"a", n>>, <<"ai", n>>}
    BY DEF StreamIsTheSends
  <2>1. Followed(n, panel, sends[n])
    BY <1>1 DEF PanelFits, Live
  <2> QED BY <2>1 DEF Followed
<1>5. ShownOnce
  BY <1>1 DEF PanelFits, Apart, ShownOnce, Misnamed, MisnamedIn
<1> QED BY <1>2, <1>3, <1>4, <1>5

\* Whatever the user, the server and the network do, the panel, the sends, their
\* runs, the stored conversations and the query cache keep their types, and no
\* stored message bears the number of another.
THEOREM PanelTyped == ChatPanelSpec => []PanelTypeOK
<1>1. PanelInvariant => PanelTypeOK
  BY PanelInvariantSays
<1>2. ChatPanelInit => PanelInvariant
  BY PanelStarts
<1>3. PanelInvariant /\ [ChatPanelNext]_panelVars => PanelInvariant'
  BY PanelSteps
<1> QED
  BY <1>1, <1>2, <1>3, PTL DEF ChatPanelSpec

\* However clicks, moves between sessions, stops, failures, polls and the events
\* of the streams interleave: there is one send at a time; what is streamed is
\* what that send has read and goes to its own message; no message is shown twice
\* and, while the session stays open, none disappears, save for questions that
\* were given the number of another.
THEOREM PanelKeepsFaith == ChatPanelSpec => PanelIsFaithful
<1>1. PanelInvariant => OneSendAtATime /\ StreamIsTheSends /\ ShownOnce
  BY PanelInvariantSays
<1>2. ChatPanelInit => PanelInvariant
  BY PanelStarts
<1>3. PanelInvariant /\ [ChatPanelNext]_panelVars =>
         PanelInvariant' /\ [NothingVanishes]_panelVars
  BY PanelSteps
<1> QED
  BY <1>1, <1>2, <1>3, PTL DEF ChatPanelSpec, PanelIsFaithful

-----------------------------------------------------------------------------
(* The sign-in.  A token is one of the n that were granted.                *)

Signed == Accounts \cup {NoAccount}
GrantRecords == [sub : Accounts, age : Nat, refresh : BOOLEAN, from : Nat]
SavedRecords(n) == [token : 0..n, refreshToken : 0..n, user : Signed]
StoreRecords(n) ==
    [token : 0..n, refreshToken : 0..n, user : Signed, isAuthenticated : BOOLEAN]
CallRecords(n) ==
    [at : Underway \cup {"idle", "over"}, kind : Kinds, token : 0..n, sent : Nat, applied : Nat]

SessionShape ==
    /\ grants \in Seq(GrantRecords) /\ Len(grants) <= MaxGrants
    /\ authStore \in StoreRecords(Len(grants))
    /\ saved \in SavedRecords(Len(grants))
    /\ calls \in [Calls -> CallRecords(Len(grants))]
    /\ refreshes \in [Refreshers -> 0..Len(grants)]
    /\ signIn \in Signed
    /\ sessionBounds \in [reloads : Nat, faults : Nat]

\* Tokens stay known as more are granted.
LEMMA TokensStayKnown ==
    ASSUME NEW m \in Nat, NEW n \in Nat, m <= n
    PROVE  /\ 0..m \subseteq 0..n
           /\ StoreRecords(m) \subseteq StoreRecords(n)
           /\ SavedRecords(m) \subseteq SavedRecords(n)
           /\ CallRecords(m) \subseteq CallRecords(n)
<1>1. 0..m \subseteq 0..n
  OBVIOUS
<1> QED
  BY <1>1 DEF StoreRecords, SavedRecords, CallRecords

\* What a state with a token more keeps of the shape it had.
LEMMA GrantKeeps ==
    ASSUME SessionShape, MayGrant, NEW g \in GrantRecords, grants' = Append(grants, g)
    PROVE  /\ grants' \in Seq(GrantRecords) /\ Len(grants') <= MaxGrants
           /\ Len(grants') = Len(grants) + 1 /\ Len(grants) \in Nat
           /\ NewToken \in 0..Len(grants') /\ NewToken # NoToken
           /\ authStore \in StoreRecords(Len(grants'))
           /\ saved \in SavedRecords(Len(grants'))
           /\ calls \in [Calls -> CallRecords(Len(grants'))]
           /\ refreshes \in [Refreshers -> 0..Len(grants')]
<1> USE BrowserSessionAssumption
<1>1. /\ grants' \in Seq(GrantRecords)
      /\ Len(grants') = Len(grants) + 1
      /\ Len(grants) \in Nat
  BY DEF SessionShape
<1>2. Len(grants') <= MaxGrants /\ NewToken \in 0..Len(grants') /\ NewToken # NoToken
  BY <1>1 DEF SessionShape, MayGrant, NewToken, NoToken
<1>3. /\ 0..Len(grants) \subseteq 0..Len(grants')
      /\ StoreRecords(Len(grants)) \subseteq StoreRecords(Len(grants'))
      /\ SavedRecords(Len(grants)) \subseteq SavedRecords(Len(grants'))
      /\ CallRecords(Len(grants)) \subseteq CallRecords(Len(grants'))
  BY <1>1, TokensStayKnown
<1>4. /\ authStore \in StoreRecords(Len(grants'))
      /\ saved \in SavedRecords(Len(grants'))
      /\ calls \in [Calls -> CallRecords(Len(grants'))]
      /\ refreshes \in [Refreshers -> 0..Len(grants')]
  BY <1>3 DEF SessionShape
<1> QED
  BY <1>1, <1>2, <1>4

\* A request that ends, and one that is sent with a known token.
LEMMA CallsStayCalls ==
    ASSUME NEW n \in Nat, NEW r \in CallRecords(n), NEW token \in 0..n
    PROVE  /\ Over(r) \in CallRecords(n)
           /\ SentWith(r, token) \in CallRecords(n)
           /\ Over(r).sent = r.sent /\ Over(r).applied = r.applied /\ Over(r).at = "over"
           /\ SentWith(r, token).sent = r.sent + 1
           /\ SentWith(r, token).applied = r.applied /\ SentWith(r, token).at = "sent"
<1>0. /\ r = [at |-> r.at, kind |-> r.kind, token |-> r.token, sent |-> r.sent,
              applied |-> r.applied]
      /\ r.kind \in Kinds /\ r.sent \in Nat /\ r.applied \in Nat
  BY DEF CallRecords
<1>1. Over(r) \in CallRecords(n)
  <2> DEFINE a == [r EXCEPT !.at = "over"]
             b == [a EXCEPT !.token = NoToken]
  <2>1. a = [at |-> "over", kind |-> r.kind, token |-> r.token, sent |-> r.sent, applied |-> r.applied]
    BY DEF CallRecords
  <2> HIDE DEF a
  <2>2. b = [at |-> "over", kind |-> r.kind, token |-> NoToken, sent |-> r.sent, applied |-> r.applied]
    BY <2>1
  <2> HIDE DEF b
  <2>3. Over(r) = [b EXCEPT !.kind = "load"]
    BY DEF Over, a, b
  <2>4. Over(r) = [at |-> "over", kind |-> "load", token |-> NoToken, sent |-> r.sent, applied |-> r.applied]
    BY <2>2, <2>3
  <2> QED
    BY <1>0, <2>4 DEF CallRecords, Kinds, NoToken
<1>2. SentWith(r, token) \in CallRecords(n)
  <2> DEFINE a == [r EXCEPT !.at = "sent"]
             b == [a EXCEPT !.token = token]
  <2>1. a = [at |-> "sent", kind |-> r.kind, token |-> r.token, sent |-> r.sent, applied |-> r.applied]
    BY DEF CallRecords
  <2> HIDE DEF a
  <2>2. b = [at |-> "sent", kind |-> r.kind, token |-> token, sent |-> r.sent, applied |-> r.applied]
    BY <2>1
  <2> HIDE DEF b
  <2>3. SentWith(r, token) = [b EXCEPT !.sent = r.sent + 1]
    BY DEF SentWith, a, b
  <2>4. SentWith(r, token) = [at |-> "sent", kind |-> r.kind, token |-> token, sent |-> r.sent + 1, applied |-> r.applied]
    BY <2>2, <2>3
  <2> QED
    BY <1>0, <2>4 DEF CallRecords, Underway
<1>3. Over(r).sent = r.sent /\ Over(r).applied = r.applied /\ Over(r).at = "over"
  BY DEF CallRecords, Over
<1>4. /\ SentWith(r, token).sent = r.sent + 1
      /\ SentWith(r, token).applied = r.applied /\ SentWith(r, token).at = "sent"
  BY DEF CallRecords, SentWith
<1> QED
  BY <1>1, <1>2, <1>3, <1>4

LEMMA EmptiedStore ==
    ASSUME NEW n \in Nat
    PROVE  /\ SignedOut \in SavedRecords(n)
           /\ Loaded(SignedOut) \in StoreRecords(n)
           /\ Loaded(SignedOut).isAuthenticated = FALSE
<1>1. SignedOut \in SavedRecords(n)
  BY DEF SignedOut, SavedRecords, NoToken, Signed
<1>2. Authenticated(SignedOut) = FALSE
  BY DEF SignedOut, Authenticated
<1>3. Loaded(SignedOut) = [token |-> NoToken, refreshToken |-> NoToken, user |-> NoAccount,
                           isAuthenticated |-> FALSE]
  BY <1>2 DEF SignedOut, Loaded
<1> QED
  BY <1>1, <1>3 DEF StoreRecords, NoToken, Signed

LEMMA LoadedStore ==
    ASSUME NEW n \in Nat, NEW s \in SavedRecords(n)
    PROVE  /\ Loaded(s) \in StoreRecords(n)
           /\ Loaded(s).isAuthenticated => Authenticated(Loaded(s))
  BY DEF SavedRecords, StoreRecords, Loaded, Authenticated

\* A fault is counted and nothing else of the bounds changes.
LEMMA FaultCounted ==
    ASSUME SessionShape, SessionFault
    PROVE  sessionBounds' \in [reloads : Nat, faults : Nat] /\ sessionBounds' # sessionBounds
  BY DEF SessionShape, SessionFault

-----------------------------------------------------------------------------
(* The sign-in: the invariant.                                             *)

\* How far a request has come bounds how often it was sent and carried out.
InOrder(call) ==
    /\ call.at = "idle" => call.sent = 0
    /\ call.at = "refreshing" => call.sent = 1
    /\ call.at \in {"idle", "sent", "denied", "refreshing"} => call.applied = 0
    /\ call.at = "served" => call.token # NoToken
    /\ call.sent <= 2 /\ call.applied <= 1

CallsInOrder == \A c \in Calls : InOrder(calls[c])

\* Only a request that waits for it has a refresh of its own under way.
RefreshesInOrder ==
    \A c \in Calls : c # Timer /\ refreshes[c] # NoToken => calls[c].at = "refreshing"

SessionInvariant == SessionShape /\ CallsInOrder /\ RefreshesInOrder /\ StoreIsComplete

LEMMA OverInOrder ==
    ASSUME NEW n \in Nat, NEW r \in CallRecords(n), InOrder(r)
    PROVE  InOrder(Over(r))
<1>1. Over(r).sent = r.sent /\ Over(r).applied = r.applied /\ Over(r).at = "over"
  BY CallsStayCalls, 0 \in 0..n
<1> QED
  BY <1>1 DEF InOrder

LEMMA SentInOrder ==
    ASSUME NEW n \in Nat, NEW r \in CallRecords(n), InOrder(r), NEW token \in 0..n,
           r.at \in {"idle", "refreshing"}
    PROVE  InOrder(SentWith(r, token))
<1>1. /\ SentWith(r, token).sent = r.sent + 1
      /\ SentWith(r, token).applied = r.applied /\ SentWith(r, token).at = "sent"
  BY CallsStayCalls
<1>2. r.sent \in Nat
  BY DEF CallRecords
<1> QED
  BY <1>1, <1>2 DEF InOrder

\* What a step that changes one request keeps.
LEMMA CallStep ==
    ASSUME SessionInvariant, NEW c \in Calls, NEW r \in CallRecords(Len(grants)), InOrder(r),
           calls' = [calls EXCEPT ![c] = r], UNCHANGED <<grants, refreshes>>,
           calls[c].at # "refreshing" \/ r.at = "refreshing"
    PROVE  /\ calls' \in [Calls -> CallRecords(Len(grants'))]
           /\ refreshes' \in [Refreshers -> 0..Len(grants')]
           /\ CallsInOrder' /\ RefreshesInOrder'
<1> USE DEF SessionInvariant
<1>1. calls' \in [Calls -> CallRecords(Len(grants'))]
  BY DEF SessionShape
<1>2. \A d \in Calls : calls'[d] = IF d = c THEN r ELSE calls[d]
  BY DEF SessionShape
<1>3. CallsInOrder'
  BY <1>2 DEF CallsInOrder
<1>4. RefreshesInOrder'
  BY <1>2 DEF RefreshesInOrder
<1> QED
  BY <1>1, <1>3, <1>4 DEF SessionShape

\* A step that leaves requests, refreshes and grants alone.
LEMMA CallsRest ==
    ASSUME SessionInvariant, UNCHANGED <<grants, calls, refreshes>>
    PROVE  /\ calls' \in [Calls -> CallRecords(Len(grants'))]
           /\ refreshes' \in [Refreshers -> 0..Len(grants')]
           /\ CallsInOrder' /\ RefreshesInOrder'
           /\ grants' \in Seq(GrantRecords) /\ Len(grants') <= MaxGrants
  BY DEF SessionInvariant, SessionShape, CallsInOrder, RefreshesInOrder

\* A step that leaves the store alone.
LEMMA StoreRests ==
    ASSUME SessionInvariant, UNCHANGED authStore
    PROVE  StoreIsComplete'
  BY DEF SessionInvariant, StoreIsComplete, Authenticated

LEMMA SessionStarts == BrowserSessionInit => SessionInvariant
<1> SUFFICES ASSUME BrowserSessionInit
             PROVE  SessionInvariant
  OBVIOUS
<1> USE BrowserSessionAssumption DEF BrowserSessionInit
<1>1. grants \in Seq(GrantRecords) /\ Len(grants) = 0
  OBVIOUS
<1>2. authStore \in StoreRecords(0) /\ saved \in SavedRecords(0) /\ authStore.isAuthenticated = FALSE
  BY EmptiedStore, 0 \in Nat
<1>3. calls \in [Calls -> CallRecords(0)]
  BY DEF CallRecords, Kinds, NoToken
<1>4. refreshes \in [Refreshers -> 0..0]
  BY DEF NoToken
<1>5. sessionBounds \in [reloads : Nat, faults : Nat]
  OBVIOUS
<1>6. SessionShape
  BY <1>1, <1>2, <1>3, <1>4, <1>5 DEF SessionShape, Signed
<1>7. CallsInOrder
  BY DEF CallsInOrder, InOrder
<1>8. RefreshesInOrder
  <2>1. \A c \in Calls : refreshes[c] = NoToken
    BY DEF Refreshers
  <2> QED
    BY <2>1 DEF RefreshesInOrder
<1> QED
  BY <1>2, <1>6, <1>7, <1>8 DEF SessionInvariant, StoreIsComplete

\* The server's own steps, and the login page's.
LEMMA ServerStep ==
    ASSUME SessionInvariant,
           \/ \E i \in 1..MaxGrants : TokenAges(i) \/ RefreshTokenExpires(i)
           \/ \E account \in Accounts : SubmitLogin(account) \/ Deactivate(account)
           \/ AskForCode
    PROVE  SessionInvariant'
<1> USE BrowserSessionAssumption
<1>1. SessionShape
  BY DEF SessionInvariant
<1>2. ASSUME NEW i \in 1..MaxGrants, TokenAges(i) \/ RefreshTokenExpires(i)
      PROVE  SessionInvariant'
  <2>1. i \in DOMAIN grants /\ Len(grants) \in Nat /\ grants[i] \in GrantRecords
    BY <1>1, <1>2 DEF TokenAges, RefreshTokenExpires, SessionShape, Held, StoreRecords, CallRecords, NoToken
  <2>2. grants' \in Seq(GrantRecords) /\ Len(grants') = Len(grants)
    <3>1. CASE TokenAges(i)
      <4>1. [grants[i] EXCEPT !.age = @ + 1] \in GrantRecords
        BY <2>1 DEF GrantRecords
      <4>2. grants' = [grants EXCEPT ![i] = [grants[i] EXCEPT !.age = @ + 1]]
        BY <3>1 DEF TokenAges
      <4> QED
        BY <1>1, <2>1, <4>1, <4>2 DEF SessionShape
    <3>2. CASE RefreshTokenExpires(i)
      <4>1. [grants[i] EXCEPT !.refresh = FALSE] \in GrantRecords
        BY <2>1 DEF GrantRecords
      <4>2. grants' = [grants EXCEPT ![i] = [grants[i] EXCEPT !.refresh = FALSE]]
        BY <3>2 DEF RefreshTokenExpires
      <4> QED
        BY <1>1, <2>1, <4>1, <4>2 DEF SessionShape
    <3> QED
      BY <1>2, <3>1, <3>2
  <2>3. UNCHANGED <<authStore, saved, calls, refreshes, signIn, sessionBounds>>
    BY <1>2 DEF TokenAges, RefreshTokenExpires
  <2>4. SessionShape'
    BY <1>1, <2>2, <2>3 DEF SessionShape
  <2>5. CallsInOrder' /\ RefreshesInOrder' /\ StoreIsComplete'
    BY <2>3 DEF SessionInvariant, CallsInOrder, RefreshesInOrder, StoreIsComplete, Authenticated
  <2> QED
    BY <2>4, <2>5 DEF SessionInvariant
<1>3. ASSUME \/ \E account \in Accounts : SubmitLogin(account) \/ Deactivate(account)
             \/ AskForCode
      PROVE  SessionInvariant'
  <2>1. UNCHANGED <<authStore, saved, grants, calls, refreshes>>
    BY <1>3 DEF SubmitLogin, Deactivate, AskForCode
  <2>2. signIn' \in Signed
    BY <1>1, <1>3 DEF SubmitLogin, Deactivate, AskForCode, Signed, SessionShape
  <2>3. sessionBounds' \in [reloads : Nat, faults : Nat]
    BY <1>1, <1>3, FaultCounted DEF SubmitLogin, Deactivate, AskForCode, SessionShape
  <2>4. SessionShape'
    BY <1>1, <2>1, <2>2, <2>3 DEF SessionShape
  <2> QED
    BY <2>1, <2>4, CallsRest, StoreRests DEF SessionInvariant
<1> QED
  BY <1>2, <1>3

\* Signing in, signing out, loading the page anew.
LEMMA SignInStep ==
    ASSUME SessionInvariant, LoginAnswered \/ ClickLogout \/ Reload
    PROVE  SessionInvariant'
<1> USE BrowserSessionAssumption
<1>1. SessionShape /\ Len(grants) \in Nat
  BY DEF SessionInvariant, SessionShape
<1>2. CASE LoginAnswered /\ signIn \in inactive
  <2>1. UNCHANGED <<authStore, saved, grants, calls, refreshes, sessionBounds>> /\ signIn' = NoAccount
    BY <1>2 DEF LoginAnswered
  <2>2. SessionShape'
    BY <1>1, <2>1 DEF SessionShape, Signed
  <2> QED
    BY <2>1, <2>2, CallsRest, StoreRests DEF SessionInvariant
<1>3. CASE LoginAnswered /\ signIn \notin inactive
  <2>1. /\ MayGrant /\ grants' = Grant(signIn, TRUE, NoToken)
        /\ saved' = [token |-> NewToken, refreshToken |-> NewToken, user |-> signIn]
        /\ authStore' = Loaded(saved')
        /\ signIn' = NoAccount /\ signIn # NoAccount
        /\ UNCHANGED <<calls, refreshes, sessionBounds>>
    BY <1>3 DEF LoginAnswered
  <2> DEFINE g == [sub |-> signIn, age |-> 0, refresh |-> TRUE, from |-> NoToken]
  <2>2. g \in GrantRecords
    BY <1>1, <2>1 DEF SessionShape, Signed, GrantRecords, NoToken
  <2>3. grants' = Append(grants, g)
    BY <2>1 DEF Grant
  <2> HIDE DEF g
  <2>4. /\ grants' \in Seq(GrantRecords) /\ Len(grants') <= MaxGrants
        /\ Len(grants') = Len(grants) + 1
        /\ NewToken \in 0..Len(grants') /\ NewToken # NoToken
        /\ calls \in [Calls -> CallRecords(Len(grants'))]
        /\ refreshes \in [Refreshers -> 0..Len(grants')]
    BY <1>1, <2>1, <2>2, <2>3, GrantKeeps
  <2>5. saved' \in SavedRecords(Len(grants'))
    BY <1>1, <2>1, <2>4 DEF SavedRecords, SessionShape
  <2>6. Len(grants') \in Nat
    BY <1>1, <2>4
  <2>7. authStore' \in StoreRecords(Len(grants')) /\ StoreIsComplete'
    BY <2>1, <2>5, <2>6, LoadedStore DEF StoreIsComplete
  <2>8. SessionShape'
    BY <1>1, <2>1, <2>4, <2>5, <2>7 DEF SessionShape, Signed
  <2>9. CallsInOrder' /\ RefreshesInOrder'
    BY <2>1 DEF SessionInvariant, CallsInOrder, RefreshesInOrder
  <2> QED
    BY <2>7, <2>8, <2>9 DEF SessionInvariant
<1>4. CASE ClickLogout
  <2>1. UNCHANGED <<grants, calls, refreshes, signIn, sessionBounds>> /\ Emptied
    BY <1>4 DEF ClickLogout
  <2>2. /\ authStore' \in StoreRecords(Len(grants')) /\ saved' \in SavedRecords(Len(grants'))
        /\ authStore'.isAuthenticated = FALSE
    BY <1>1, <2>1, EmptiedStore DEF Emptied
  <2>3. SessionShape'
    BY <1>1, <2>1, <2>2 DEF SessionShape
  <2> QED
    BY <2>1, <2>2, <2>3, CallsRest DEF SessionInvariant, StoreIsComplete
<1>5. CASE Reload
  <2>1. /\ authStore' = Loaded(saved) /\ UNCHANGED <<saved, grants>> /\ signIn' = NoAccount
        /\ calls' = [c \in Calls |-> IF calls[c].at \in Underway THEN Over(calls[c]) ELSE calls[c]]
        /\ refreshes' = [x \in Refreshers |-> NoToken]
        /\ sessionBounds' = [sessionBounds EXCEPT !.reloads = @ + 1]
    BY <1>5 DEF Reload
  <2>2. authStore' \in StoreRecords(Len(grants')) /\ StoreIsComplete'
    BY <1>1, <2>1, LoadedStore DEF SessionShape, StoreIsComplete
  <2>3. \A c \in Calls : calls[c] \in CallRecords(Len(grants)) /\ InOrder(calls[c])
    BY <1>1 DEF SessionInvariant, SessionShape, CallsInOrder
  <2>4. \A c \in Calls : /\ Over(calls[c]) \in CallRecords(Len(grants))
                         /\ InOrder(Over(calls[c]))
    BY <1>1, <2>3, CallsStayCalls, OverInOrder, 0 \in 0..Len(grants)
  <2>5. calls' \in [Calls -> CallRecords(Len(grants'))]
    BY <2>1, <2>3, <2>4
  <2>6. CallsInOrder'
    BY <2>1, <2>3, <2>4 DEF CallsInOrder
  <2>7. refreshes' \in [Refreshers -> 0..Len(grants')] /\ RefreshesInOrder'
    BY <1>1, <2>1 DEF NoToken, RefreshesInOrder, Refreshers
  <2>8. sessionBounds' \in [reloads : Nat, faults : Nat]
    BY <1>1, <2>1 DEF SessionShape
  <2>9. SessionShape'
    BY <1>1, <2>1, <2>2, <2>5, <2>7, <2>8 DEF SessionShape, Signed
  <2> QED
    BY <2>2, <2>6, <2>7, <2>9 DEF SessionInvariant
<1> QED
  BY <1>2, <1>3, <1>4, <1>5

\* Refreshes: one that starts, one that is answered, one that fails.
LEMMA RefreshStep ==
    ASSUME SessionInvariant,
           \/ TimerTicks
           \/ \E x \in Refreshers : Refreshed(x) \/ RefreshFails(x)
           \/ \E c \in Calls : RefreshFor(c)
    PROVE  SessionInvariant'
<1> USE BrowserSessionAssumption
<1>1. SessionShape /\ Len(grants) \in Nat /\ CallsInOrder /\ RefreshesInOrder
  BY DEF SessionInvariant, SessionShape
<1>2. CASE TimerTicks
  <2>1. /\ refreshes' = [refreshes EXCEPT ![Timer] = authStore.refreshToken]
        /\ UNCHANGED <<authStore, saved, grants, calls, signIn, sessionBounds>>
    BY <1>2 DEF TimerTicks
  <2>2. refreshes' \in [Refreshers -> 0..Len(grants)]
    BY <1>1, <2>1 DEF SessionShape, StoreRecords
  <2>3. RefreshesInOrder'
    BY <1>1, <2>1 DEF RefreshesInOrder, Refreshers, SessionShape
  <2>4. SessionShape'
    BY <1>1, <2>1, <2>2 DEF SessionShape
  <2>5. CallsInOrder'
    BY <1>1, <2>1 DEF CallsInOrder
  <2> QED
    BY <2>1, <2>3, <2>4, <2>5, StoreRests DEF SessionInvariant
<1>3. ASSUME NEW c \in Calls, RefreshFor(c)
      PROVE  SessionInvariant'
  <2> DEFINE r == [calls[c] EXCEPT !.at = "refreshing"]
  <2>1. /\ calls' = [calls EXCEPT ![c] = r]
        /\ refreshes' = [refreshes EXCEPT ![c] = authStore.refreshToken]
        /\ UNCHANGED <<authStore, saved, grants, signIn, sessionBounds>>
        /\ calls[c].at = "denied" /\ calls[c].sent = 1
    BY <1>3 DEF RefreshFor, Retries
  <2>2. calls[c] \in CallRecords(Len(grants)) /\ InOrder(calls[c])
    BY <1>1 DEF SessionShape, CallsInOrder
  <2>3. /\ r \in CallRecords(Len(grants)) /\ r.at = "refreshing"
        /\ r.sent = calls[c].sent /\ r.applied = calls[c].applied /\ r.token = calls[c].token
    BY <2>2 DEF CallRecords, Underway
  <2> HIDE DEF r
  <2>4. InOrder(r)
    BY <2>1, <2>2, <2>3 DEF InOrder
  <2>5. \A d \in Calls : calls'[d] = IF d = c THEN r ELSE calls[d]
    BY <1>1, <2>1 DEF SessionShape
  <2>6. calls' \in [Calls -> CallRecords(Len(grants'))]
    BY <1>1, <2>1, <2>3 DEF SessionShape
  <2>7. CallsInOrder'
    BY <1>1, <2>4, <2>5 DEF CallsInOrder
  <2>8. RefreshesInOrder'
    BY <1>1, <2>1, <2>3, <2>5 DEF RefreshesInOrder, Refreshers, SessionShape
  <2>9. refreshes' \in [Refreshers -> 0..Len(grants')]
    BY <1>1, <2>1 DEF SessionShape, StoreRecords
  <2>10. SessionShape'
    BY <1>1, <2>1, <2>6, <2>9 DEF SessionShape
  <2> QED
    BY <2>1, <2>7, <2>8, <2>10, StoreRests DEF SessionInvariant
<1>4. ASSUME NEW x \in Refreshers, Refreshed(x)
      PROVE  SessionInvariant'
  <2>1. /\ refreshes[x] # NoToken /\ Refreshable(refreshes[x]) /\ MayGrant
        /\ grants' = Grant(grants[refreshes[x]].sub, FALSE, refreshes[x])
        /\ authStore' = [authStore EXCEPT !.token = NewToken]
        /\ saved' = [saved EXCEPT !.token = NewToken]
        /\ calls' = IF x = Timer THEN calls
                    ELSE [calls EXCEPT ![x] = SentWith(calls[x], NewToken)]
        /\ refreshes' = [refreshes EXCEPT ![x] = NoToken]
        /\ UNCHANGED <<signIn, sessionBounds>>
    BY <1>4 DEF Refreshed
  <2>2. refreshes[x] \in 1..Len(grants) /\ grants[refreshes[x]] \in GrantRecords
    BY <1>1, <2>1 DEF SessionShape, NoToken
  <2> DEFINE g == [sub |-> grants[refreshes[x]].sub, age |-> 0, refresh |-> FALSE,
                   from |-> refreshes[x]]
  <2>3. g \in GrantRecords
    BY <2>2 DEF GrantRecords
  <2>4. grants' = Append(grants, g)
    BY <2>1 DEF Grant
  <2> HIDE DEF g
  <2>5. /\ grants' \in Seq(GrantRecords) /\ Len(grants') <= MaxGrants
        /\ Len(grants') = Len(grants) + 1
        /\ NewToken \in 0..Len(grants') /\ NewToken # NoToken
        /\ authStore \in StoreRecords(Len(grants'))
        /\ saved \in SavedRecords(Len(grants'))
        /\ calls \in [Calls -> CallRecords(Len(grants'))]
        /\ refreshes \in [Refreshers -> 0..Len(grants')]
    BY <1>1, <2>1, <2>3, <2>4, GrantKeeps
  <2>6. Len(grants') \in Nat
    BY <1>1, <2>5
  <2>7. /\ authStore' \in StoreRecords(Len(grants')) /\ saved' \in SavedRecords(Len(grants'))
        /\ authStore'.token = NewToken /\ authStore'.user = authStore.user
        /\ authStore'.isAuthenticated = authStore.isAuthenticated
    BY <2>1, <2>5 DEF StoreRecords, SavedRecords
  <2>8. StoreIsComplete'
    BY <2>5, <2>7 DEF SessionInvariant, StoreIsComplete, Authenticated
  <2>9. refreshes' \in [Refreshers -> 0..Len(grants')]
    <3>1. NoToken \in 0..Len(grants')
      BY <2>6 DEF NoToken
    <3> QED
      BY <2>1, <2>5, <3>1
  <2>10. calls' \in [Calls -> CallRecords(Len(grants'))] /\ CallsInOrder' /\ RefreshesInOrder'
    <3>1. CASE x = Timer
      BY <1>1, <2>1, <2>5, <3>1 DEF CallsInOrder, RefreshesInOrder, SessionShape, Refreshers
    <3>2. CASE x # Timer
      <4>1. x \in Calls /\ calls[x].at = "refreshing"
        BY <1>1, <2>1, <3>2 DEF Refreshers, RefreshesInOrder
      <4>2. calls[x] \in CallRecords(Len(grants')) /\ InOrder(calls[x])
        BY <1>1, <2>5, <4>1 DEF CallsInOrder
      <4> DEFINE r == SentWith(calls[x], NewToken)
      <4>3. r \in CallRecords(Len(grants'))
        BY <2>5, <2>6, <4>2, CallsStayCalls
      <4>4. InOrder(r)
        BY <2>5, <2>6, <4>1, <4>2, SentInOrder
      <4>5. calls' = [calls EXCEPT ![x] = r]
        BY <2>1, <3>2
      <4> HIDE DEF r
      <4>6. \A d \in Calls : calls'[d] = IF d = x THEN r ELSE calls[d]
        BY <2>5, <4>5
      <4>7. \A d \in Calls : refreshes'[d] = IF d = x THEN NoToken ELSE refreshes[d]
        BY <1>1, <2>1 DEF SessionShape, Refreshers
      <4> QED
        BY <1>1, <2>5, <4>3, <4>4, <4>5, <4>6, <4>7 DEF CallsInOrder, RefreshesInOrder
    <3> QED
      BY <3>1, <3>2
  <2>11. SessionShape'
    BY <1>1, <2>1, <2>5, <2>7, <2>9, <2>10 DEF SessionShape
  <2> QED
    BY <2>8, <2>10, <2>11 DEF SessionInvariant
<1>5. ASSUME NEW x \in Refreshers, RefreshFails(x)
      PROVE  SessionInvariant'
  <2>1. /\ refreshes[x] # NoToken /\ Emptied
        /\ calls' = IF x = Timer THEN calls ELSE [calls EXCEPT ![x] = Over(calls[x])]
        /\ refreshes' = [refreshes EXCEPT ![x] = NoToken]
        /\ UNCHANGED <<grants, signIn>>
    BY <1>5 DEF RefreshFails
  <2>2. sessionBounds' \in [reloads : Nat, faults : Nat]
    BY <1>1, <1>5, FaultCounted DEF RefreshFails, SessionShape
  <2>3. /\ authStore' \in StoreRecords(Len(grants')) /\ saved' \in SavedRecords(Len(grants'))
        /\ authStore'.isAuthenticated = FALSE
    BY <1>1, <2>1, EmptiedStore DEF Emptied
  <2>4. refreshes' \in [Refreshers -> 0..Len(grants')]
    BY <1>1, <2>1 DEF SessionShape, NoToken
  <2>5. calls' \in [Calls -> CallRecords(Len(grants'))] /\ CallsInOrder' /\ RefreshesInOrder'
    <3>1. CASE x = Timer
      BY <1>1, <2>1, <3>1 DEF CallsInOrder, RefreshesInOrder, SessionShape, Refreshers
    <3>2. CASE x # Timer
      <4>1. x \in Calls
        BY <3>2 DEF Refreshers
      <4>2. calls[x] \in CallRecords(Len(grants)) /\ InOrder(calls[x])
        BY <1>1, <4>1 DEF SessionShape, CallsInOrder
      <4> DEFINE r == Over(calls[x])
      <4>3. r \in CallRecords(Len(grants)) /\ InOrder(r)
        BY <1>1, <4>2, CallsStayCalls, OverInOrder, 0 \in 0..Len(grants)
      <4>4. calls' = [calls EXCEPT ![x] = r]
        BY <2>1, <3>2
      <4> HIDE DEF r
      <4>5. \A d \in Calls : calls'[d] = IF d = x THEN r ELSE calls[d]
        BY <1>1, <4>4 DEF SessionShape
      <4>6. \A d \in Calls : refreshes'[d] = IF d = x THEN NoToken ELSE refreshes[d]
        BY <1>1, <2>1 DEF SessionShape, Refreshers
      <4>7. calls' \in [Calls -> CallRecords(Len(grants'))]
        BY <1>1, <2>1, <4>3, <4>4 DEF SessionShape
      <4> QED
        BY <1>1, <4>3, <4>5, <4>6, <4>7 DEF CallsInOrder, RefreshesInOrder
    <3> QED
      BY <3>1, <3>2
  <2>6. SessionShape'
    BY <1>1, <2>1, <2>2, <2>3, <2>4, <2>5 DEF SessionShape
  <2> QED
    BY <2>3, <2>5, <2>6 DEF SessionInvariant, StoreIsComplete
<1> QED
  BY <1>2, <1>3, <1>4, <1>5

\* Requests.
LEMMA RequestStep ==
    ASSUME SessionInvariant, NEW c \in Calls,
           \/ \E kind \in Kinds : Call(c, kind)
           \/ Serve(c) \/ GiveUp(c) \/ Answered(c) \/ AnswerLost(c)
    PROVE  SessionInvariant'
<1> USE BrowserSessionAssumption
<1>1. SessionShape /\ Len(grants) \in Nat /\ 0 \in 0..Len(grants)
  BY DEF SessionInvariant, SessionShape
<1>2. calls[c] \in CallRecords(Len(grants)) /\ InOrder(calls[c])
  BY <1>1 DEF SessionInvariant, SessionShape, CallsInOrder
<1>3. Over(calls[c]) \in CallRecords(Len(grants)) /\ InOrder(Over(calls[c]))
  BY <1>1, <1>2, CallsStayCalls, OverInOrder
<1>4. ASSUME NEW kind \in Kinds, Call(c, kind)
      PROVE  SessionInvariant'
  <2> DEFINE k == [calls[c] EXCEPT !.kind = kind]
             r == SentWith(k, authStore.token)
  <2>1. /\ calls' = [calls EXCEPT ![c] = r] /\ calls[c].at = "idle"
        /\ UNCHANGED <<authStore, saved, grants, refreshes, signIn, sessionBounds>>
    BY <1>4 DEF Call
  <2>2. /\ k \in CallRecords(Len(grants)) /\ k.at = "idle"
        /\ k.sent = calls[c].sent /\ k.applied = calls[c].applied
    BY <1>2, <2>1 DEF CallRecords
  <2>3. authStore.token \in 0..Len(grants)
    BY <1>1 DEF SessionShape, StoreRecords
  <2> HIDE DEF k
  <2>4. InOrder(k)
    BY <1>2, <2>1, <2>2 DEF InOrder
  <2>5. r \in CallRecords(Len(grants)) /\ InOrder(r)
    BY <1>1, <2>2, <2>3, <2>4, CallsStayCalls, SentInOrder
  <2> HIDE DEF r
  <2>6. calls' \in [Calls -> CallRecords(Len(grants'))] /\ CallsInOrder' /\ RefreshesInOrder'
    BY <2>1, <2>5, CallStep
  <2>7. SessionShape'
    BY <1>1, <2>1, <2>6 DEF SessionShape
  <2> QED
    BY <2>1, <2>6, <2>7, StoreRests DEF SessionInvariant
<1>5. CASE Serve(c)
  <2> DEFINE denied == [calls[c] EXCEPT !.at = "denied"]
             served == CarriedOut(calls[c])
             r == CASE Unauthorized(calls[c].token) -> denied
                    [] Forbidden(calls[c].token) -> Over(calls[c])
                    [] OTHER -> served
  <2>1. /\ calls' = [calls EXCEPT ![c] = r] /\ calls[c].at = "sent"
        /\ UNCHANGED <<authStore, saved, grants, refreshes, signIn, sessionBounds>>
    <3>1. calls' = [calls EXCEPT ![c] = r]
      BY <1>5 DEF Serve
    <3>2. calls[c].at = "sent" /\ UNCHANGED <<authStore, saved, grants, refreshes, signIn, sessionBounds>>
      BY <1>5 DEF Serve
    <3> QED
      BY <3>1, <3>2
  <2>2. /\ denied \in CallRecords(Len(grants)) /\ denied.at = "denied"
        /\ denied.sent = calls[c].sent /\ denied.applied = calls[c].applied
    BY <1>2 DEF CallRecords, Underway
  <2>3. InOrder(denied)
    BY <1>2, <2>1, <2>2 DEF InOrder
  <2>4. calls[c].applied = 0
    BY <1>2, <2>1 DEF InOrder
  <2>5. /\ served \in CallRecords(Len(grants)) /\ served.at = "served" /\ served.applied = 1
        /\ served.sent = calls[c].sent /\ served.token = calls[c].token
    <3> DEFINE s == [calls[c] EXCEPT !.at = "served"]
    <3>1. /\ s \in CallRecords(Len(grants)) /\ s.at = "served" /\ s.applied = 0
          /\ s.sent = calls[c].sent /\ s.token = calls[c].token
      BY <1>2, <2>4 DEF CallRecords, Underway
    <3>2. served = [s EXCEPT !.applied = 1]
      BY <2>4 DEF CarriedOut
    <3> HIDE DEF s, served
    <3> QED
      BY <3>1, <3>2 DEF CallRecords
  <2>6. ~Unauthorized(calls[c].token) => InOrder(served)
    BY <1>2, <2>1, <2>5 DEF InOrder, Unauthorized
  <2> HIDE DEF denied, served
  <2>7. r \in CallRecords(Len(grants)) /\ InOrder(r)
    BY <1>3, <2>2, <2>3, <2>5, <2>6
  <2> HIDE DEF r
  <2>8. calls' \in [Calls -> CallRecords(Len(grants'))] /\ CallsInOrder' /\ RefreshesInOrder'
    BY <2>1, <2>7, CallStep
  <2>9. SessionShape'
    BY <1>1, <2>1, <2>8 DEF SessionShape
  <2> QED
    BY <2>1, <2>8, <2>9, StoreRests DEF SessionInvariant
<1>6. CASE GiveUp(c) \/ AnswerLost(c)
  <2>1. /\ calls' = [calls EXCEPT ![c] = Over(calls[c])] /\ calls[c].at # "refreshing"
        /\ UNCHANGED <<authStore, saved, grants, refreshes, signIn>>
    BY <1>6 DEF GiveUp, AnswerLost
  <2>2. sessionBounds' \in [reloads : Nat, faults : Nat]
    BY <1>1, <1>6, FaultCounted DEF GiveUp, AnswerLost, SessionShape
  <2>3. calls' \in [Calls -> CallRecords(Len(grants'))] /\ CallsInOrder' /\ RefreshesInOrder'
    BY <1>3, <2>1, CallStep
  <2>4. SessionShape'
    BY <1>1, <2>1, <2>2, <2>3 DEF SessionShape
  <2> QED
    BY <2>1, <2>3, <2>4, StoreRests DEF SessionInvariant
<1>7. CASE Answered(c)
  <2>1. /\ calls' = [calls EXCEPT ![c] = Over(calls[c])] /\ calls[c].at = "served"
        /\ UNCHANGED <<grants, refreshes, signIn, sessionBounds>>
    BY <1>7 DEF Answered
  <2>2. calls' \in [Calls -> CallRecords(Len(grants'))] /\ CallsInOrder' /\ RefreshesInOrder'
    BY <1>3, <2>1, CallStep
  <2>3. CASE calls[c].kind # "rename"
    <3>1. UNCHANGED <<authStore, saved>>
      BY <1>7, <2>3 DEF Answered
    <3>2. SessionShape'
      BY <1>1, <2>1, <2>2, <3>1 DEF SessionShape
    <3> QED
      BY <2>2, <3>1, <3>2, StoreRests DEF SessionInvariant
  <2>4. CASE calls[c].kind = "rename"
    <3> DEFINE user == grants[calls[c].token].sub
    <3>1. /\ authStore' = [authStore EXCEPT !.user = user]
          /\ saved' = [token |-> authStore.token, refreshToken |-> authStore.refreshToken,
                       user |-> authStore'.user]
      BY <1>7, <2>4 DEF Answered
    <3>2. calls[c].token \in 0..Len(grants) /\ calls[c].token # NoToken
      BY <1>2, <2>1 DEF CallRecords, InOrder
    <3>3. user \in Accounts
      <4>1. calls[c].token \in 1..Len(grants)
        BY <1>1, <3>2 DEF NoToken
      <4>2. grants[calls[c].token] \in GrantRecords
        BY <1>1, <4>1 DEF SessionShape
      <4> QED
        BY <4>2 DEF GrantRecords
    <3> HIDE DEF user
    <3>4. user \in Signed /\ user # NoAccount
      BY <3>3 DEF Signed
    <3>5. /\ authStore' \in StoreRecords(Len(grants))
          /\ authStore'.token = authStore.token /\ authStore'.user = user
          /\ authStore'.isAuthenticated = authStore.isAuthenticated
      BY <1>1, <3>1, <3>4 DEF SessionShape, StoreRecords
    <3>6. saved' \in SavedRecords(Len(grants))
      BY <1>1, <3>1, <3>4, <3>5 DEF SessionShape, StoreRecords, SavedRecords
    <3>7. StoreIsComplete'
      BY <3>4, <3>5 DEF SessionInvariant, StoreIsComplete, Authenticated
    <3>8. SessionShape'
      BY <1>1, <2>1, <2>2, <3>5, <3>6 DEF SessionShape
    <3> QED
      BY <2>2, <3>7, <3>8 DEF SessionInvariant
  <2> QED
    BY <2>3, <2>4
<1> QED
  BY <1>4, <1>5, <1>6, <1>7

LEMMA SessionSteps ==
    ASSUME SessionInvariant, [BrowserSessionNext]_browserVars
    PROVE  SessionInvariant'
<1>1. CASE UNCHANGED browserVars
  <2>1. SessionShape'
    BY <1>1 DEF browserVars, SessionInvariant, SessionShape
  <2> QED
    BY <1>1, <2>1, CallsRest, StoreRests DEF browserVars, SessionInvariant
<1> QED
  BY <1>1, ServerStep, SignInStep, RefreshStep, RequestStep DEF BrowserSessionNext

LEMMA SessionInvariantHolds == BrowserSessionSpec => []SessionInvariant
BY SessionSteps, SessionStarts, PTL DEF BrowserSessionSpec

LEMMA SessionIsTyped ==
    ASSUME SessionInvariant
    PROVE  BrowserSessionTypeOK
<1> USE DEF SessionInvariant, SessionShape
<1>1. \A s \in {authStore, saved} :
        {s.token, s.refreshToken} \subseteq 0..Len(grants) /\ s.user \in Accounts \cup {NoAccount}
  BY DEF StoreRecords, SavedRecords, Signed
<1>2. authStore.isAuthenticated \in BOOLEAN
  BY DEF StoreRecords
<1>3. \A c \in Calls : calls[c].at \in Underway \cup {"idle", "over"}
  BY DEF CallRecords
<1>4. \A x \in Refreshers : refreshes[x] \in 0..Len(grants)
  OBVIOUS
<1> QED
  BY <1>1, <1>2, <1>3, <1>4 DEF BrowserSessionTypeOK

\* Every reachable state is well typed: no token is known that was not granted.
THEOREM BrowserSessionTyped == BrowserSessionSpec => []BrowserSessionTypeOK
<1>1. SessionInvariant => BrowserSessionTypeOK
  BY SessionIsTyped
<1> QED
  BY <1>1, SessionInvariantHolds, PTL

\* Only the user, a refresh that could not succeed, a lost answer or a page that
\* is loaded anew ends a session.
LEMMA SignedOutOnlyForCause ==
    ASSUME SessionInvariant, [BrowserSessionNext]_browserVars
    PROVE  [SignedOutForCause]_browserVars
<1>1. SessionShape
  BY DEF SessionInvariant
<1>2. CASE UNCHANGED browserVars
  BY <1>2
<1>3. ASSUME NEW i \in 1..MaxGrants, TokenAges(i) \/ RefreshTokenExpires(i)
      PROVE  SignedOutForCause
  BY <1>3 DEF TokenAges, RefreshTokenExpires, SignedOutForCause
<1>4. ASSUME NEW account \in Accounts, SubmitLogin(account) \/ Deactivate(account)
      PROVE  SignedOutForCause
  BY <1>4 DEF SubmitLogin, Deactivate, SignedOutForCause
<1>5. CASE AskForCode \/ LoginAnswered \/ ClickLogout
  BY <1>5 DEF AskForCode, LoginAnswered, ClickLogout, SignedOutForCause
<1>6. CASE TimerTicks
  BY <1>6 DEF TimerTicks, SignedOutForCause
<1>7. CASE Reload
  <2>1. sessionBounds' = [sessionBounds EXCEPT !.reloads = @ + 1]
    BY <1>7 DEF Reload
  <2>2. sessionBounds' # sessionBounds
    BY <1>1, <2>1 DEF SessionShape
  <2> QED
    BY <2>2 DEF SignedOutForCause
<1>8. ASSUME NEW x \in Refreshers, Refreshed(x)
      PROVE  SignedOutForCause
  <2>1. authStore' = [authStore EXCEPT !.token = NewToken]
    BY <1>8 DEF Refreshed
  <2>2. authStore'.isAuthenticated = authStore.isAuthenticated
    BY <1>1, <2>1 DEF SessionShape, StoreRecords
  <2> QED
    BY <2>2 DEF SignedOutForCause
<1>9. ASSUME NEW x \in Refreshers, RefreshFails(x)
      PROVE  SignedOutForCause
  <2>1. CASE SessionFault
    BY <1>1, <2>1, FaultCounted DEF SignedOutForCause
  <2>2. CASE ~SessionFault
    <3>1. refreshes[x] # NoToken /\ ~Refreshable(refreshes[x])
      BY <1>9, <2>2 DEF RefreshFails
    <3>2. refreshes'[x] = NoToken
      BY <1>1, <1>9 DEF RefreshFails, SessionShape
    <3> QED
      BY <3>1, <3>2 DEF SignedOutForCause, Refreshable
  <2> QED
    BY <2>1, <2>2
<1>10. ASSUME NEW c \in Calls, NEW kind \in Kinds, Call(c, kind)
       PROVE  SignedOutForCause
  BY <1>10 DEF Call, SignedOutForCause
<1>11. ASSUME NEW c \in Calls,
              Serve(c) \/ RefreshFor(c) \/ GiveUp(c) \/ Answered(c) \/ AnswerLost(c)
       PROVE  SignedOutForCause
  <2>1. CASE RefreshFor(c)
    BY <2>1 DEF RefreshFor, SignedOutForCause
  <2>2. CASE Serve(c) \/ GiveUp(c) \/ Answered(c) \/ AnswerLost(c)
    BY <2>2 DEF Serve, GiveUp, Answered, AnswerLost, SignedOutForCause
  <2> QED
    BY <1>11, <2>1, <2>2
<1> QED
  BY <1>2, <1>3, <1>4, <1>5, <1>6, <1>7, <1>8, <1>9, <1>10, <1>11 DEF BrowserSessionNext

\* However many requests are denied at once, each is carried out once at most,
\* the store is never half signed in, and a session ends for a cause.
THEOREM SessionsAreKept == BrowserSessionSpec => SessionIsKept
<1>1. SessionInvariant => CarriedOutOnce /\ StoreIsComplete
  BY DEF SessionInvariant, CallsInOrder, InOrder, CarriedOutOnce
<1>2. SessionInvariant /\ [BrowserSessionNext]_browserVars => [SignedOutForCause]_browserVars
  BY SignedOutOnlyForCause
<1> QED
  BY <1>1, <1>2, SessionInvariantHolds, PTL DEF BrowserSessionSpec, SessionIsKept

-----------------------------------------------------------------------------
(* Side by side.                                                           *)

LEMMA BrowserPartsStep ==
    [BrowserNext]_browserAppVars =>
        [ChatPanelNext]_panelVars /\ [BrowserSessionNext]_browserVars
BY DEF BrowserNext, Step, browserAppVars

LEMMA BrowserKeepsInv == BrowserSpec => [](PanelInvariant /\ SessionInvariant)
<1>1. BrowserInit => PanelInvariant /\ SessionInvariant
  BY PanelStarts, SessionStarts DEF BrowserInit
<1>2. PanelInvariant /\ SessionInvariant /\ [BrowserNext]_browserAppVars =>
         PanelInvariant' /\ SessionInvariant'
  BY BrowserPartsStep, PanelSteps, SessionSteps
<1> QED
  BY <1>1, <1>2, PTL DEF BrowserSpec

\* The chat panel and the sign-in are well typed in every reachable state.
THEOREM BrowserTyped == BrowserSpec => []BrowserTypeOK
<1>1. PanelInvariant /\ SessionInvariant => BrowserTypeOK
  BY PanelInvariantSays, SessionIsTyped DEF BrowserTypeOK
<1> QED
  BY <1>1, BrowserKeepsInv, PTL

\* What the panel and the sign-in promise alone they promise side by side.
THEOREM BrowserKeepsItsPromises == BrowserSpec => PanelIsFaithful /\ SessionIsKept
<1>1. PanelInvariant => OneSendAtATime /\ StreamIsTheSends /\ ShownOnce
  BY PanelInvariantSays
<1>2. SessionInvariant => CarriedOutOnce /\ StoreIsComplete
  BY DEF SessionInvariant, CallsInOrder, InOrder, CarriedOutOnce
<1>3. PanelInvariant /\ SessionInvariant /\ [BrowserNext]_browserAppVars =>
         [NothingVanishes]_panelVars /\ [SignedOutForCause]_browserVars
  BY BrowserPartsStep, PanelSteps, SignedOutOnlyForCause
<1> QED
  BY <1>1, <1>2, <1>3, BrowserKeepsInv, PTL DEF BrowserSpec, PanelIsFaithful, SessionIsKept
=============================================================================
