-------------------------- MODULE GroupSyncProofs ---------------------------
(***************************************************************************)
(* The exchange of GroupSync implements GroupLog, for every set of peers,  *)
(* and before that what the chains and the statements it carries obey.     *)
(*                                                                         *)
(* The invariant SInv says what makes it so.  Every chain begins the       *)
(* admin's, which passed the rules; and every answer on its way is a piece *)
(* of the admin's chain that ends where its receiver may still know of the *)
(* group, however old it is and however stale the server's table was.      *)
(* Then the entries put takes from an answer bring a chain to a later      *)
(* beginning of the log, and every other step leaves the chains alone,     *)
(* forgets an invitation withdrawn or writes the log at the admin.         *)
(***************************************************************************)
EXTENDS GroupSync, FiniteSetTheorems, WellFoundedInduction, TLAPS

-----------------------------------------------------------------------------
(***************************************************************************)
(* What the operators of GroupChain and GroupStandings guarantee, for      *)
(* every set of peers, every chain and every statement: the loops of the   *)
(* code compute what the definitions say, the admin cannot be removed, a   *)
(* peer is served up to where its membership ends, and nodes that heard    *)
(* the same statements hold the same one.                                  *)
(***************************************************************************)

(***************************************************************************)
(* The three steps of the loop in chain.rs, fold: it starts from the       *)
(* genesis, an Add inserts its peer, a Remove takes its peer out.          *)
(***************************************************************************)
THEOREM MembersCreate == Members(<<Create>>) = {Admin}
  BY AdminAssumption DEF Members, Create

(***************************************************************************)
(* An Add makes the peer it names a member and nobody else (fold).         *)
(***************************************************************************)
THEOREM MembersAdd ==
  ASSUME NEW c \in Seq(Entry), NEW p \in Peers
  PROVE  Members(Append(c, Add(p))) = Members(c) \cup {p}
<1> DEFINE d == Append(c, Add(p))
<1>1. /\ Len(d) = Len(c) + 1 /\ DOMAIN d = 1 .. Len(c) + 1 /\ DOMAIN c = 1 .. Len(c)
      /\ d[Len(c) + 1] = Add(p)
      /\ \A i \in 1 .. Len(c) : d[i] = c[i]
  OBVIOUS
<1>2. ASSUME NEW q \in Members(d) PROVE q \in Members(c) \cup {p}
  BY <1>1, <1>2 DEF Members, Add
<1>3. p \in Members(d)
  BY <1>1 DEF Members, Add
<1>4. ASSUME NEW q \in Members(c) PROVE q \in Members(d)
  <2>1. PICK i \in DOMAIN c :
           /\ c[i].peer = q /\ c[i].op # "remove"
           /\ \A j \in DOMAIN c : j > i /\ c[j].peer = q => c[j].op # "remove"
    BY DEF Members
  <2>2. /\ i \in DOMAIN d /\ d[i] = c[i]
        /\ \A j \in DOMAIN d : j > i /\ d[j].peer = q => d[j].op # "remove"
    BY <1>1, <2>1 DEF Add
  <2> QED BY <2>1, <2>2 DEF Members
<1> QED BY <1>2, <1>3, <1>4

(***************************************************************************)
(* A Remove ends the membership of the peer it names and of nobody else    *)
(* (fold).                                                                 *)
(***************************************************************************)
THEOREM MembersRemove ==
  ASSUME NEW c \in Seq(Entry), NEW p \in Peers
  PROVE  Members(Append(c, Remove(p))) = Members(c) \ {p}
<1> DEFINE d == Append(c, Remove(p))
<1>1. /\ Len(d) = Len(c) + 1 /\ DOMAIN d = 1 .. Len(c) + 1 /\ DOMAIN c = 1 .. Len(c)
      /\ d[Len(c) + 1] = Remove(p)
      /\ \A i \in 1 .. Len(c) : d[i] = c[i]
  OBVIOUS
<1>2. ASSUME NEW q \in Members(d) PROVE q \in Members(c) /\ q # p
  BY <1>1, <1>2 DEF Members, Remove
<1>3. ASSUME NEW q \in Members(c), q # p PROVE q \in Members(d)
  <2>1. PICK i \in DOMAIN c :
           /\ c[i].peer = q /\ c[i].op # "remove"
           /\ \A j \in DOMAIN c : j > i /\ c[j].peer = q => c[j].op # "remove"
    BY DEF Members
  <2>2. /\ i \in DOMAIN d /\ d[i] = c[i]
        /\ \A j \in DOMAIN d : j > i /\ d[j].peer = q => d[j].op # "remove"
    BY <1>1, <2>1, <1>3 DEF Remove
  <2> QED BY <2>1, <2>2 DEF Members
<1> QED BY <1>2, <1>3

(***************************************************************************)
(* The admin is a member of every chain that passed the rules (check_next  *)
(* refuses a Remove of the admin), so "the admin left" is never in the     *)
(* chain and is read from its standing.                                    *)
(***************************************************************************)
THEOREM AdminStays ==
  ASSUME NEW c \in Seq(Entry), ValidChain(c)
  PROVE  Admin \in Members(c)
<1>1. 1 \in DOMAIN c /\ c[1].peer = Admin /\ c[1].op # "remove"
  BY DEF ValidChain, Create
<1>2. ASSUME NEW j \in DOMAIN c, j > 1, c[j].peer = Admin PROVE c[j].op # "remove"
  BY <1>2 DEF ValidChain, CanAppend
<1> QED BY <1>1, <1>2, AdminAssumption DEF Members

(***************************************************************************)
(* Nobody removed is a member until an entry names them again, and a peer  *)
(* named and not a member has exactly one last departure: serve's answer   *)
(* to a former member is well defined.                                     *)
(***************************************************************************)
THEOREM DepartureUnique ==
  ASSUME NEW c \in Seq(Entry), NEW p \in Peers,
         NEW i \in Departures(c, p), NEW j \in Departures(c, p)
  PROVE  i = j /\ p \notin Members(c)
<1>1. i \in DOMAIN c /\ j \in DOMAIN c /\ c[i].peer = p /\ c[j].peer = p
  BY DEF Departures, Remove
<1>2. i = j
  BY <1>1 DEF Departures, Remove
<1>3. c[i].op = "remove" /\ \A k \in DOMAIN c : k > i => c[k].peer # p
  BY DEF Departures, Remove
<1>4. p \notin Members(c)
  BY <1>1, <1>3 DEF Members
<1> QED BY <1>2, <1>4

(***************************************************************************)
(* What a peer that is no member is served of a chain ends with a Remove   *)
(* of it (serve and departure_seq).                                        *)
(***************************************************************************)
LEMMA ServedRemoval ==
  ASSUME NEW c \in Seq(Entry), NEW p \in Peers, p \notin Members(c),
         ServedLength(c, Members(c), p) > 0
  PROVE  LET n == ServedLength(c, Members(c), p)
         IN  n \in DOMAIN c /\ n \in Departures(c, p) /\ c[n] = Remove(p)
<1>1. Departures(c, p) # {}
  BY DEF ServedLength
<1>2. ServedLength(c, Members(c), p) \in Departures(c, p)
  BY <1>1 DEF ServedLength
<1> QED BY <1>2 DEF Departures

-----------------------------------------------------------------------------
(***************************************************************************)
(* Induction on the length of a chain, from the library's theorem that <   *)
(* is well founded on Nat.                                                 *)
(***************************************************************************)
LEMMA LeastNumber ==
  ASSUME NEW T \in SUBSET Nat, T # {}
  PROVE  \E x \in T : \A y \in T : x <= y
<1> DEFINE R == {ss \in Nat \X Nat : ss[1] < ss[2]}
<1>1. IsWellFoundedOn(R, Nat)
  BY NatLessThanWellFounded DEF OpToRel
<1>2. \A x, y \in Nat : x < y => <<x, y>> \in R
  OBVIOUS
<1> HIDE DEF R
<1>3. PICK x \in T : \A y \in T : ~(<<y, x>> \in R)
  BY <1>1, WFMin
<1>4. ASSUME NEW y \in T PROVE x <= y
  <2>1. x \in Nat /\ y \in Nat
    OBVIOUS
  <2>2. ~(y < x)
    BY <1>2, <1>3, <2>1
  <2> QED BY <2>1, <2>2
<1> QED BY <1>4

LEMMA UpTo ==
  ASSUME NEW n \in Nat, NEW S, 0 \in S,
         \A i \in 1 .. n : i - 1 \in S => i \in S
  PROVE  0 .. n \subseteq S
<1> DEFINE T == (0 .. n) \ S
<1>1. SUFFICES ASSUME T # {} PROVE FALSE
  OBVIOUS
<1>2. T \in SUBSET Nat
  OBVIOUS
<1>3. PICK x \in T : \A y \in T : x <= y
  <2> HIDE DEF T
  <2> QED BY <1>1, <1>2, LeastNumber
<1>4. x \in 1 .. n
  OBVIOUS
<1>5. x - 1 \in 0 .. n /\ x - 1 \notin T
  BY <1>3, <1>4
<1> QED BY <1>4, <1>5

LEMMA SameLoop ==
  ASSUME NEW n \in Nat, NEW l, NEW g, l[0] = g[0],
         \A i \in 1 .. n : l[i - 1] = g[i - 1] => l[i] = g[i]
  PROVE  l[n] = g[n]
<1> DEFINE S == {i \in 0 .. n : l[i] = g[i]}
<1>1. 0 \in S /\ \A i \in 1 .. n : i - 1 \in S => i \in S
  OBVIOUS
<1> HIDE DEF S
<1>2. 0 .. n \subseteq S
  BY <1>1, UpTo
<1> QED BY <1>2 DEF S

LEMMA OneMore ==
  ASSUME NEW c \in Seq(Entry), NEW i \in 1 .. Len(c)
  PROVE  /\ SubSeq(c, 1, i - 1) \in Seq(Entry) /\ Len(SubSeq(c, 1, i - 1)) = i - 1
         /\ c[i] \in Entry
         /\ SubSeq(c, 1, i) = Append(SubSeq(c, 1, i - 1), c[i])
<1>1. SubSeq(c, 1, i - 1) \in Seq(Entry) /\ Len(SubSeq(c, 1, i - 1)) = i - 1 /\ c[i] \in Entry
  OBVIOUS
<1>2. SubSeq(c, 1, i) \in Seq(Entry) /\ Len(SubSeq(c, 1, i)) = i
  OBVIOUS
<1>3. ASSUME NEW j \in 1 .. i PROVE SubSeq(c, 1, i)[j] = Append(SubSeq(c, 1, i - 1), c[i])[j]
  BY <1>1, <1>2
<1> QED BY <1>1, <1>2, <1>3

LEMMA MembersNext ==
  ASSUME NEW c \in Seq(Entry), NEW e \in Entry
  PROVE  Members(Append(c, e)) = IF e.op = "remove" THEN Members(c) \ {e.peer}
                                 ELSE Members(c) \cup {e.peer}
<1> DEFINE d == Append(c, e)
<1>1. /\ DOMAIN d = 1 .. Len(c) + 1 /\ DOMAIN c = 1 .. Len(c)
      /\ d[Len(c) + 1] = e /\ e.peer \in Peers
      /\ \A i \in 1 .. Len(c) : d[i] = c[i]
  BY DEF Entry
<1>2. ASSUME NEW q \in Members(d), q # e.peer PROVE q \in Members(c)
  BY <1>1, <1>2 DEF Members
<1>3. e.peer \in Members(d) <=> e.op # "remove"
  BY <1>1 DEF Members
<1>4. ASSUME NEW q \in Members(c), q # e.peer PROVE q \in Members(d)
  BY <1>1, <1>4 DEF Members
<1> QED BY <1>2, <1>3, <1>4

LEMMA MembersSoFar ==
  ASSUME NEW c \in Seq(Entry)
  PROVE  /\ Members(SubSeq(c, 1, 0)) = {} /\ SubSeq(c, 1, Len(c)) = c
         /\ \A i \in 1 .. Len(c) :
              Members(SubSeq(c, 1, i)) =
                IF c[i].op = "remove" THEN Members(SubSeq(c, 1, i - 1)) \ {c[i].peer}
                ELSE Members(SubSeq(c, 1, i - 1)) \cup {c[i].peer}
<1>1. Members(SubSeq(c, 1, 0)) = {} /\ SubSeq(c, 1, Len(c)) = c
  BY DEF Members
<1>2. ASSUME NEW i \in 1 .. Len(c)
      PROVE  Members(SubSeq(c, 1, i)) =
               IF c[i].op = "remove" THEN Members(SubSeq(c, 1, i - 1)) \ {c[i].peer}
               ELSE Members(SubSeq(c, 1, i - 1)) \cup {c[i].peer}
  BY OneMore, MembersNext
<1> QED BY <1>1, <1>2

(***************************************************************************)
(* Who was a member once and is none now was removed, and not named since: *)
(* the last entry that names it cannot be an Add.                          *)
(***************************************************************************)
LEMMA OnceMember ==
  ASSUME NEW c \in Seq(Entry), NEW p \in Peers, p \notin Members(c),
         NEW k \in 1 .. Len(c), p \in Members(SubSeq(c, 1, k))
  PROVE  Departures(c, p) # {}
<1> DEFINE T == {i \in 1 .. Len(c) : c[i].peer = p}
           B == {Len(c) - i : i \in T}
<1>1. T # {}
  <2>1. \A i \in 1 .. k : SubSeq(c, 1, k)[i] = c[i]
    OBVIOUS
  <2>2. DOMAIN SubSeq(c, 1, k) = 1 .. k
    OBVIOUS
  <2>3. PICK i \in 1 .. k : SubSeq(c, 1, k)[i].peer = p
    BY <2>2 DEF Members
  <2>4. i \in 1 .. Len(c) /\ c[i].peer = p
    BY <2>1, <2>3
  <2> QED BY <2>4
<1>2. B \in SUBSET Nat /\ B # {}
  BY <1>1
<1>3. PICK x \in B : \A y \in B : x <= y
  <2> HIDE DEF B
  <2> QED BY <1>2, LeastNumber
<1>4. PICK m \in T : x = Len(c) - m
  OBVIOUS
<1>5. ASSUME NEW j \in T PROVE j <= m
  <2>1. Len(c) - m <= Len(c) - j
    BY <1>3, <1>4
  <2>2. Len(c) \in Nat /\ m \in Nat /\ j \in Nat
    OBVIOUS
  <2> QED BY <2>1, <2>2
<1>6. m \in DOMAIN c /\ c[m] \in Entry /\ c[m].peer = p
  OBVIOUS
<1>7. \A j \in DOMAIN c : j > m => c[j].peer # p
  BY <1>5
<1>8. c[m].op = "remove"
  BY <1>6, <1>7 DEF Members
<1>9. c[m] = Remove(p)
  BY <1>6, <1>8 DEF Entry, Remove
<1> QED BY <1>6, <1>7, <1>9 DEF Departures

(***************************************************************************)
(* Who is not a member by a valid chain is served something exactly when   *)
(* some beginning of the chain had it as a member; and then all up to the  *)
(* entry that made it none for the last time: it was one right before that *)
(* entry and by no beginning from there on, however often it was removed   *)
(* and added again (serve, departure_seq and fold).                        *)
(***************************************************************************)
THEOREM FormerServedUpToRemoval ==
  ASSUME NEW c \in Seq(Entry), ValidChain(c), NEW p \in Peers, p \notin Members(c),
         NEW n, n = ServedLength(c, Members(c), p)
  PROVE  /\ n > 0 <=> \E k \in 1 .. Len(c) : p \in Members(SubSeq(c, 1, k))
         /\ n > 0 => /\ n \in 2 .. Len(c) /\ c[n] = Remove(p)
                     /\ p \in Members(SubSeq(c, 1, n - 1))
                     /\ \A k \in n .. Len(c) : p \notin Members(SubSeq(c, 1, k))
<1>1. ASSUME n > 0
      PROVE  /\ n \in 2 .. Len(c) /\ c[n] = Remove(p)
             /\ p \in Members(SubSeq(c, 1, n - 1))
             /\ \A k \in n .. Len(c) : p \notin Members(SubSeq(c, 1, k))
  <2>1. n \in DOMAIN c /\ n \in Departures(c, p) /\ c[n] = Remove(p)
    BY <1>1, ServedRemoval
  <2>2. n \in 2 .. Len(c)
    <3>1. c[1].op # "remove"
      BY DEF ValidChain, Create
    <3>2. n # 1
      BY <2>1, <3>1 DEF Remove
    <3> QED BY <2>1, <3>2
  <2>3. p \in Members(SubSeq(c, 1, n - 1))
    BY <2>1, <2>2 DEF ValidChain, CanAppend, Remove
  <2>4. ASSUME NEW k \in n .. Len(c) PROVE p \notin Members(SubSeq(c, 1, k))
    <3> DEFINE b == SubSeq(c, 1, k)
    <3>1. /\ b \in Seq(Entry) /\ DOMAIN b = 1 .. k /\ n \in 1 .. k
          /\ \A i \in 1 .. k : i \in DOMAIN c /\ b[i] = c[i]
      BY <2>1, <2>2
    <3> HIDE DEF b
    <3>2. n \in Departures(b, p)
      BY <2>1, <3>1 DEF Departures
    <3> QED BY <3>1, <3>2, DepartureUnique DEF b
  <2> QED BY <2>1, <2>2, <2>3, <2>4
<1>2. ASSUME NEW k \in 1 .. Len(c), p \in Members(SubSeq(c, 1, k)) PROVE n > 0
  <2>1. Departures(c, p) # {}
    BY <1>2, OnceMember
  <2>2. n \in Departures(c, p)
    BY <2>1 DEF ServedLength
  <2> QED BY <2>2 DEF Departures
<1>3. n > 0 => n - 1 \in 1 .. Len(c)
  BY <1>1
<1> QED BY <1>1, <1>2, <1>3

(***************************************************************************)
(* The loop over a chain that inserts whom an entry names and takes out    *)
(* whom a Remove names computes its members (fold of chain.rs).            *)
(***************************************************************************)
THEOREM FoldIsMembers ==
  ASSUME NEW c \in Seq(Entry)
  PROVE  MembersIsFold(c)
<1> DEFINE After(i, last) == IF i = 0 THEN {}
                            ELSE IF c[i].op = "remove" THEN last \ {c[i].peer}
                            ELSE last \cup {c[i].peer}
           Loop(f) == f = [i \in 0 .. Len(c) |-> After(i, f[i - 1])]
           M(i) == Members(SubSeq(c, 1, i))
           g == [i \in 0 .. Len(c) |-> M(i)]
           l == CHOOSE f : Loop(f)
<1>1. FoldMembers(c) = l[Len(c)]
  BY DEF FoldMembers
<1>2. /\ M(0) = {} /\ SubSeq(c, 1, Len(c)) = c /\ Len(c) \in Nat
      /\ \A i \in 1 .. Len(c) : M(i) = After(i, M(i - 1))
  <2>1. Len(c) \in Nat /\ \A i \in 1 .. Len(c) : i # 0
    OBVIOUS
  <2> QED BY <2>1, MembersSoFar
<1> HIDE DEF M, After
<1>3. \A i \in 0 .. Len(c) : M(i) = After(i, g[i - 1])
  <2>1. M(0) = After(0, g[0 - 1])
    BY <1>2 DEF After
  <2>2. ASSUME NEW i \in 1 .. Len(c) PROVE M(i) = After(i, g[i - 1])
    <3>1. i - 1 \in 0 .. Len(c) /\ g[i - 1] = M(i - 1)
      OBVIOUS
    <3> QED BY <3>1, <1>2
  <2> QED BY <2>1, <2>2
<1>4. Loop(g)
  BY <1>3
<1>5. Loop(l)
  BY <1>4
<1>6. /\ l[0] = {}
      /\ \A i \in 1 .. Len(c) : l[i] = After(i, l[i - 1])
  <2> HIDE DEF l
  <2>1. \A i \in 0 .. Len(c) : l[i] = After(i, l[i - 1])
    BY <1>5
  <2>2. l[0] = After(0, l[0 - 1])
    BY <2>1, <1>2
  <2>3. l[0] = {}
    BY <2>2 DEF After
  <2> QED BY <2>1, <2>3, <1>2
<1> HIDE DEF l
<1>7. l[Len(c)] = M(Len(c))
  <2>1. \A i \in 0 .. Len(c) : g[i] = M(i)
    OBVIOUS
  <2>2. l[0] = g[0] /\ \A i \in 1 .. Len(c) : l[i - 1] = g[i - 1] => l[i] = g[i]
    BY <1>2, <1>6, <2>1
  <2> HIDE DEF g
  <2>3. l[Len(c)] = g[Len(c)]
    BY <1>2, <2>2, SameLoop
  <2> QED BY <1>2, <2>1, <2>3
<1> QED BY <1>1, <1>2, <1>7 DEF M, MembersIsFold

(***************************************************************************)
(* The last entry that names a peer says whether it is out.                *)
(***************************************************************************)
OnlyOne(S) == IF S = {} THEN 0 ELSE CHOOSE j \in S : TRUE
OutAt(c, p) == OnlyOne(Departures(c, p))

LEMMA OnlyOneIs == OnlyOne({}) = 0 /\ \A i : OnlyOne({i}) = i
  BY DEF OnlyOne


LEMMA DeparturesNext ==
  ASSUME NEW c \in Seq(Entry), NEW e \in Entry, NEW p \in Peers
  PROVE  Departures(Append(c, e), p) = IF e.peer # p THEN Departures(c, p)
                                       ELSE IF e.op = "remove" THEN {Len(c) + 1} ELSE {}
<1> DEFINE d == Append(c, e)
<1>1. /\ DOMAIN d = 1 .. Len(c) + 1 /\ DOMAIN c = 1 .. Len(c)
      /\ d[Len(c) + 1] = e /\ (e = Remove(p) <=> e.peer = p /\ e.op = "remove")
      /\ \A i \in 1 .. Len(c) : d[i] = c[i]
  BY DEF Entry, Remove
<1>2. CASE e.peer # p
  <2>1. ASSUME NEW i \in Departures(d, p) PROVE i \in Departures(c, p)
    BY <1>1, <1>2 DEF Departures
  <2>2. ASSUME NEW i \in Departures(c, p) PROVE i \in Departures(d, p)
    BY <1>1, <1>2 DEF Departures
  <2> QED BY <1>2, <2>1, <2>2
<1>3. CASE e.peer = p
  <2>1. ASSUME NEW i \in Departures(d, p) PROVE i = Len(c) + 1 /\ e.op = "remove"
    BY <1>1, <1>3 DEF Departures
  <2>2. e.op = "remove" => Len(c) + 1 \in Departures(d, p)
    BY <1>1, <1>3 DEF Departures
  <2> QED BY <1>3, <2>1, <2>2
<1> QED BY <1>2, <1>3

LEMMA OutSoFar ==
  ASSUME NEW c \in Seq(Entry), NEW p \in Peers
  PROVE  /\ OutAt(SubSeq(c, 1, 0), p) = 0 /\ SubSeq(c, 1, Len(c)) = c
         /\ \A i \in 1 .. Len(c) :
              OutAt(SubSeq(c, 1, i), p) =
                IF c[i].peer # p THEN OutAt(SubSeq(c, 1, i - 1), p)
                ELSE IF c[i].op = "remove" THEN i ELSE 0
<1>1. OutAt(SubSeq(c, 1, 0), p) = 0 /\ SubSeq(c, 1, Len(c)) = c
  BY OnlyOneIs DEF OutAt, Departures
<1>2. ASSUME NEW i \in 1 .. Len(c)
      PROVE  OutAt(SubSeq(c, 1, i), p) =
               IF c[i].peer # p THEN OutAt(SubSeq(c, 1, i - 1), p)
               ELSE IF c[i].op = "remove" THEN i ELSE 0
  <2>1. Departures(SubSeq(c, 1, i), p) =
          IF c[i].peer # p THEN Departures(SubSeq(c, 1, i - 1), p)
          ELSE IF c[i].op = "remove" THEN {i} ELSE {}
    <3>1. /\ SubSeq(c, 1, i - 1) \in Seq(Entry) /\ Len(SubSeq(c, 1, i - 1)) = i - 1
          /\ c[i] \in Entry /\ SubSeq(c, 1, i) = Append(SubSeq(c, 1, i - 1), c[i])
      BY OneMore
    <3>2. PICK b \in Seq(Entry), e \in Entry : b = SubSeq(c, 1, i - 1) /\ e = c[i]
      BY <3>1
    <3>3. Departures(Append(b, e), p) =
            IF e.peer # p THEN Departures(b, p)
            ELSE IF e.op = "remove" THEN {Len(b) + 1} ELSE {}
      BY DeparturesNext
    <3>4. Len(b) + 1 = i
      BY <3>1, <3>2
    <3> QED BY <3>1, <3>2, <3>3, <3>4
  <2>2. CASE c[i].peer # p
    BY <2>1, <2>2 DEF OutAt
  <2>3. CASE c[i].peer = p
    BY <2>1, <2>3, OnlyOneIs DEF OutAt
  <2> QED BY <2>2, <2>3
<1> QED BY <1>1, <1>2

(***************************************************************************)
(* The loop that remembers where a peer was last removed, and forgets it   *)
(* when an entry names the peer again, finds the departure that the whole  *)
(* chain has (departure_seq of chain.rs).                                  *)
(***************************************************************************)
THEOREM LoopIsDeparture ==
  ASSUME NEW c \in Seq(Entry)
  PROVE  DepartureIsLoop(c)
<1> SUFFICES ASSUME NEW p \in Peers
             PROVE  Departures(c, p) = IF DepartureAt(c, p) = 0 THEN {} ELSE {DepartureAt(c, p)}
  BY DEF DepartureIsLoop
<1> DEFINE After(i, last) == IF i = 0 THEN 0
                            ELSE IF c[i].peer # p THEN last
                            ELSE IF c[i].op = "remove" THEN i ELSE 0
           Loop(f) == f = [i \in 0 .. Len(c) |-> After(i, f[i - 1])]
           M(i) == OutAt(SubSeq(c, 1, i), p)
           g == [i \in 0 .. Len(c) |-> M(i)]
           l == CHOOSE f : Loop(f)
<1>1. DepartureAt(c, p) = l[Len(c)]
  BY DEF DepartureAt
<1>2. /\ M(0) = 0 /\ SubSeq(c, 1, Len(c)) = c /\ Len(c) \in Nat
      /\ \A i \in 1 .. Len(c) : M(i) = After(i, M(i - 1))
  <2>1. Len(c) \in Nat /\ \A i \in 1 .. Len(c) : i # 0
    OBVIOUS
  <2> QED BY <2>1, OutSoFar
<1> HIDE DEF M, After
<1>3. \A i \in 0 .. Len(c) : M(i) = After(i, g[i - 1])
  <2>1. M(0) = After(0, g[0 - 1])
    BY <1>2 DEF After
  <2>2. ASSUME NEW i \in 1 .. Len(c) PROVE M(i) = After(i, g[i - 1])
    <3>1. i - 1 \in 0 .. Len(c) /\ g[i - 1] = M(i - 1)
      OBVIOUS
    <3> QED BY <3>1, <1>2
  <2> QED BY <2>1, <2>2
<1>4. Loop(g)
  BY <1>3
<1>5. Loop(l)
  BY <1>4
<1>6. /\ l[0] = 0
      /\ \A i \in 1 .. Len(c) : l[i] = After(i, l[i - 1])
  <2> HIDE DEF l
  <2>1. \A i \in 0 .. Len(c) : l[i] = After(i, l[i - 1])
    BY <1>5
  <2>2. l[0] = After(0, l[0 - 1])
    BY <2>1, <1>2
  <2>3. l[0] = 0
    BY <2>2 DEF After
  <2> QED BY <2>1, <2>3, <1>2
<1> HIDE DEF l
<1>7. l[Len(c)] = M(Len(c))
  <2>1. \A i \in 0 .. Len(c) : g[i] = M(i)
    OBVIOUS
  <2>2. l[0] = g[0] /\ \A i \in 1 .. Len(c) : l[i - 1] = g[i - 1] => l[i] = g[i]
    BY <1>2, <1>6, <2>1
  <2> HIDE DEF g
  <2>3. l[Len(c)] = g[Len(c)]
    BY <1>2, <2>2, SameLoop
  <2> QED BY <1>2, <2>1, <2>3
<1>8. DepartureAt(c, p) = OutAt(c, p)
  <2>1. M(Len(c)) = OutAt(c, p)
    BY <1>2 DEF M
  <2> QED BY <1>1, <1>7, <2>1
<1>9. ASSUME NEW i \in Departures(c, p) PROVE i # 0 /\ Departures(c, p) = {i}
  <2>1. \A j \in Departures(c, p) : j = i
    BY DepartureUnique
  <2> QED BY <2>1 DEF Departures
<1> QED BY <1>8, <1>9, OnlyOneIs DEF OutAt

-----------------------------------------------------------------------------
(***************************************************************************)
(* Of two different statements of a peer exactly one wins, and winning is  *)
(* transitive (standing.rs, wins).                                         *)
(***************************************************************************)
THEOREM WinsTotal ==
  ASSUME NEW a \in Standing, NEW b \in Standing, a # b
  PROVE  Wins(a, b) <=> ~Wins(b, a)
BY DEF Standing, Position, Wins, BodyRank

(***************************************************************************)
(* Winning is transitive, so the winner of many statements does not depend *)
(* on which two were compared first (standing.rs, wins).                   *)
(***************************************************************************)
THEOREM WinsTransitive ==
  ASSUME NEW a \in Standing, NEW b \in Standing, NEW c \in Standing,
         Wins(a, b), Wins(b, c)
  PROVE  Wins(a, c)
<1>1. \A x \in Standing : BodyRank(x.pos) \in Nat
  BY DEF Standing, Position, BodyRank
<1> QED BY <1>1 DEF Standing, Wins

(***************************************************************************)
(* What is held after a statement arrives is one of the two                *)
(* (StandingSet::insert).                                                  *)
(***************************************************************************)
LEMMA LaterType ==
  ASSUME NEW a \in Word, NEW b \in Word
  PROVE  Later(a, b) \in {a, b}
BY DEF Later

(***************************************************************************)
(* Hearing a statement again changes nothing; two statements leave the     *)
(* same one in either order; so do three (StandingSet::insert).            *)
(***************************************************************************)
THEOREM LaterIdempotent ==
  ASSUME NEW a \in Word, NEW b \in Word
  PROVE  Later(Later(a, b), b) = Later(a, b)
<1>1. \A x \in Standing : ~Wins(x, x)
  BY DEF Standing, Wins, Position, BodyRank
<1> QED BY <1>1 DEF Later, Word

(***************************************************************************)
(* Two statements leave the same one in either order                       *)
(* (StandingSet::insert).                                                  *)
(***************************************************************************)
THEOREM LaterCommutes ==
  ASSUME NEW a \in Word, NEW b \in Word
  PROVE  Later(a, b) = Later(b, a)
<1>1. CASE a = Silent \/ b = Silent
  BY <1>1 DEF Later
<1>2. CASE a \in Standing /\ b \in Standing /\ a # Silent /\ b # Silent
  BY <1>2, WinsTotal DEF Later
<1> QED BY <1>1, <1>2 DEF Word

(***************************************************************************)
(* Three statements leave the same one however they are grouped            *)
(* (StandingSet::insert).                                                  *)
(***************************************************************************)
THEOREM LaterAssociates ==
  ASSUME NEW a \in Word, NEW b \in Word, NEW c \in Word
  PROVE  Later(Later(a, b), c) = Later(a, Later(b, c))
<1>1. CASE a = Silent \/ b = Silent \/ c = Silent
  BY <1>1 DEF Later
<1>2. CASE a \in Standing /\ b \in Standing /\ c \in Standing
           /\ a # Silent /\ b # Silent /\ c # Silent
  BY <1>2, WinsTotal, WinsTransitive DEF Later
<1> QED BY <1>1, <1>2 DEF Word

-----------------------------------------------------------------------------
(***************************************************************************)
(* Chains and their beginnings.                                            *)
(***************************************************************************)
LEMMA BeginsTransitive ==
  ASSUME NEW a \in Seq(Entry), NEW b \in Seq(Entry), NEW c \in Seq(Entry),
         Begins(a, b), Begins(b, c)
  PROVE  Begins(a, c)
  BY DEF Begins

LEMMA SameEntries ==
  ASSUME NEW a \in Seq(Entry), NEW b \in Seq(Entry), Len(a) = Len(b),
         \A i \in 1 .. Len(a) : a[i] = b[i]
  PROVE  a = b
  OBVIOUS

LEMMA PieceType ==
  ASSUME NEW c \in Seq(Entry), NEW from \in Nat, NEW k \in 0 .. Len(c)
  PROVE  /\ SubSeq(c, from + 1, k) \in Seq(Entry)
         /\ Len(SubSeq(c, from + 1, k)) = IF from < k THEN k - from ELSE 0
         /\ \A i \in 1 .. Len(SubSeq(c, from + 1, k)) : SubSeq(c, from + 1, k)[i] = c[from + i]
<1>1. SubSeq(c, from + 1, k) \in Seq(Entry)
  OBVIOUS
<1>2. Len(SubSeq(c, from + 1, k)) = IF from < k THEN k - from ELSE 0
  OBVIOUS
<1>3. ASSUME NEW i \in 1 .. Len(SubSeq(c, from + 1, k))
      PROVE  SubSeq(c, from + 1, k)[i] = c[from + i]
  BY <1>2
<1> QED BY <1>1, <1>2, <1>3

(***************************************************************************)
(* The same piece of a chain and of a beginning of it.                     *)
(***************************************************************************)
LEMMA SamePiece ==
  ASSUME NEW a \in Seq(Entry), NEW c \in Seq(Entry), Begins(a, c),
         NEW from \in Nat, NEW k \in 0 .. Len(a)
  PROVE  SubSeq(a, from + 1, k) = SubSeq(c, from + 1, k)
<1>1. k \in 0 .. Len(c) BY DEF Begins
<1>2. \A i \in 1 .. Len(SubSeq(a, from + 1, k)) :
        SubSeq(a, from + 1, k)[i] = SubSeq(c, from + 1, k)[i]
  BY <1>1, PieceType DEF Begins
<1>3. Len(SubSeq(a, from + 1, k)) = Len(SubSeq(c, from + 1, k))
  BY <1>1, PieceType
<1>4. SubSeq(a, from + 1, k) \in Seq(Entry) /\ SubSeq(c, from + 1, k) \in Seq(Entry)
  BY <1>1, PieceType
<1> QED BY <1>2, <1>3, <1>4, SameEntries

LEMMA WholePiece ==
  ASSUME NEW a \in Seq(Entry), NEW c \in Seq(Entry), Begins(a, c)
  PROVE  SubSeq(c, 1, Len(a)) = a
<1>1. Len(a) \in 0 .. Len(c) /\ 0 + 1 = 1 BY DEF Begins
<1>2. SubSeq(c, 1, Len(a)) = SubSeq(a, 1, Len(a)) BY <1>1, SamePiece
<1> QED BY <1>2

-----------------------------------------------------------------------------
(***************************************************************************)
(* GroupLog says the same of chains as GroupChain.                         *)
(***************************************************************************)
MayKnow(n, c) == c # <<>> => n \in Members(c) \/ c[Len(c)] = Remove(n)

LEMMA SameChains ==
  /\ GL!Entry = Entry /\ GL!Create = Create
  /\ \A c : GL!Members(c) = Members(c)
  /\ \A c, d : GL!Begins(c, d) <=> Begins(c, d)
  /\ \A c : GL!ValidChain(c) <=> ValidChain(c)
  /\ \A n, c : GL!EndsWithin(n, c) <=> MayKnow(n, c)
<1>1. GL!Entry = Entry /\ GL!Create = Create
  BY DEF GL!Entry, GL!Op, Entry, Op, GL!Create, Create
<1>2. \A c : GL!Members(c) = Members(c)
  BY DEF GL!Members, Members
<1>3. \A c, d : GL!Begins(c, d) <=> Begins(c, d)
  BY DEF GL!Begins, Begins
<1>4. \A c, e : GL!CanAppend(c, e) <=> CanAppend(c, e)
  BY <1>2 DEF GL!CanAppend, CanAppend
<1>5. \A c : GL!ValidChain(c) <=> ValidChain(c)
  BY <1>1, <1>4 DEF GL!ValidChain, ValidChain
<1>6. \A n, c : GL!EndsWithin(n, c) <=> MayKnow(n, c)
  BY <1>2 DEF GL!EndsWithin, GL!Remove, MayKnow, Remove
<1> QED BY <1>1, <1>2, <1>3, <1>5, <1>6

-----------------------------------------------------------------------------
(***************************************************************************)
(* The store's operations keep a row a row, and only those that should     *)
(* touch its chain.                                                        *)
(***************************************************************************)
LEMMA SilentWord == Silent \in Word
  BY DEF Word

LEMMA RebuiltType ==
  ASSUME NEW c, NEW table \in [Peers -> Word]
  PROVE  Rebuilt(c, table) \in [Peers -> Word]
  BY SilentWord DEF Rebuilt

LEMMA HeardType ==
  ASSUME NEW c, NEW table \in [Peers -> Word], NEW heard \in [Peers -> Word]
  PROVE  Heard(c, table, heard) \in [Peers -> Word]
  BY LaterType DEF Heard

LEMMA AppendedRow ==
  ASSUME NEW s \in Rows, NEW more \in Seq(Entry)
  PROVE  Appended(s, more) \in Rows /\ Appended(s, more).chain = s.chain \o more
<1>1. Rebuilt(s.chain \o more, s.standings) \in [Peers -> Word]
  BY RebuiltType DEF Rows
<1>2. s.chain \o more \in Seq(Entry)
  <2>1. s.chain \in Seq(Entry) BY DEF Rows
  <2> QED BY <2>1
<1> QED BY <1>1, <1>2 DEF Appended, Rows

LEMMA SpokenRow ==
  ASSUME NEW s \in Rows, NEW n \in Peers, NEW pos \in Position
  PROVE  Spoken(n, s, pos) \in Rows /\ Spoken(n, s, pos).chain = s.chain
<1> DEFINE said == [seq |-> NextSeq(s.standings[n]), pos |-> pos]
           table == [s.standings EXCEPT ![n] = said]
<1>1. said \in Word
  BY DEF Rows, Word, Standing, Silent, NextSeq
<1>2. table \in [Peers -> Word]
  BY <1>1 DEF Rows
<1>3. Rebuilt(s.chain, table) \in [Peers -> Word]
  BY <1>2, RebuiltType
<1>4. StateOf(pos) \in {"absent", "pending", "active", "left"}
  BY DEF StateOf, Position
<1> QED BY <1>3, <1>4 DEF Spoken, Rows

LEMMA AnsweredRow ==
  ASSUME NEW s \in Rows, NEW n \in Peers
  PROVE  Answered(n, s) \in Rows /\ Answered(n, s).chain = s.chain
  BY SpokenRow DEF Answered, Position

LEMMA PutRow ==
  ASSUME NEW s \in Rows, NEW a, Extended(s, a) \in Seq(Entry), a.standings \in [Peers -> Word]
  PROVE  Put(s, a) \in Rows /\ Put(s, a).chain = Extended(s, a)
<1> DEFINE c == Extended(s, a)
           table == Rebuilt(c, Heard(c, s.standings, a.standings))
<1>1. table \in [Peers -> Word]
  BY RebuiltType, HeardType DEF Rows
<1> QED BY <1>1 DEF Put, Rows

(***************************************************************************)
(* What put makes of a chain that begins the log and of an answer that is  *)
(* a piece of the log: the chain itself, or a later beginning of the log.  *)
(***************************************************************************)
LEMMA AnswerJoins ==
  ASSUME NEW c \in Seq(Entry), NEW l \in Seq(Entry), Begins(c, l),
         NEW from \in 0 .. Len(c), NEW k \in 0 .. Len(l),
         NEW e, e = SubSeq(l, from + 1, k), from + Len(e) > Len(c)
  PROVE  /\ k >= Len(c)
         /\ c \o SubSeq(e, Len(c) - from + 1, Len(e)) = SubSeq(l, 1, k)
<1>1. e \in Seq(Entry) /\ k > from /\ Len(e) = k - from
      /\ \A i \in 1 .. Len(e) : e[i] = l[from + i]
  BY PieceType
<1>2. k > Len(c) BY <1>1
<1> DEFINE skip == Len(c) - from
           rest == SubSeq(e, skip + 1, Len(e))
<1>3. skip \in Nat /\ Len(e) \in 0 .. Len(e) BY <1>1
<1>4. /\ rest \in Seq(Entry) /\ Len(rest) = k - Len(c)
      /\ \A i \in 1 .. Len(rest) : rest[i] = e[skip + i]
  <2> HIDE DEF skip
  <2>1. Len(rest) = IF skip < Len(e) THEN Len(e) - skip ELSE 0 BY <1>1, <1>3, PieceType
  <2>2. rest \in Seq(Entry) /\ \A i \in 1 .. Len(rest) : rest[i] = e[skip + i]
    BY <1>1, <1>3, PieceType
  <2> QED BY <1>1, <1>2, <2>1, <2>2 DEF skip
<1>5. \A i \in 1 .. Len(rest) : rest[i] = l[Len(c) + i]
  BY <1>1, <1>2, <1>4
<1> HIDE DEF rest
<1>6. /\ c \o rest \in Seq(Entry) /\ Len(c \o rest) = k
      /\ \A i \in 1 .. k : (c \o rest)[i] = l[i]
  BY <1>2, <1>4, <1>5 DEF Begins
<1>7. SubSeq(l, 1, k) \in Seq(Entry) /\ Len(SubSeq(l, 1, k)) = k
      /\ \A i \in 1 .. k : SubSeq(l, 1, k)[i] = l[i]
  BY PieceType
<1>8. c \o rest = SubSeq(l, 1, k)
  BY <1>6, <1>7, SameEntries
<1> QED BY <1>2, <1>8 DEF rest

-----------------------------------------------------------------------------
(***************************************************************************)
(* What the admin writes.                                                  *)
(***************************************************************************)
LEMMA OneAppended ==
  ASSUME NEW c \in Seq(Entry), ValidChain(c), NEW e \in Entry, CanAppend(c, e)
  PROVE  /\ c \o <<e>> \in Seq(Entry) /\ Begins(c, c \o <<e>>)
         /\ ValidChain(c \o <<e>>)
<1> DEFINE d == c \o <<e>>
<1>1. /\ d \in Seq(Entry) /\ Len(d) = Len(c) + 1 /\ d[Len(c) + 1] = e
      /\ \A i \in 1 .. Len(c) : d[i] = c[i]
  OBVIOUS
<1>2. Begins(c, d)
  BY <1>1 DEF Begins
<1>3. ASSUME NEW n \in 2 .. Len(d) PROVE CanAppend(SubSeq(d, 1, n - 1), d[n])
  <2>1. n - 1 \in 0 .. Len(c) BY <1>1
  <2>2. SubSeq(c, 1, n - 1) = SubSeq(d, 1, n - 1)
    <3>1. SubSeq(c, 0 + 1, n - 1) = SubSeq(d, 0 + 1, n - 1)
      BY <1>1, <1>2, <2>1, SamePiece
    <3> QED BY <3>1
  <2> HIDE DEF d
  <2>3. CASE n \in 2 .. Len(c)
    <3>1. CanAppend(SubSeq(c, 1, n - 1), c[n]) BY <2>3 DEF ValidChain
    <3>2. c[n] = d[n] BY <1>1, <2>3
    <3> QED BY <2>2, <3>1, <3>2
  <2>4. CASE n = Len(c) + 1
    <3>1. SubSeq(c, 1, Len(c)) = c OBVIOUS
    <3>2. SubSeq(d, 1, n - 1) = c BY <2>2, <2>4, <3>1
    <3>3. d[n] = e BY <1>1, <2>4
    <3> QED BY <3>2, <3>3
  <2> QED BY <1>1, <2>3, <2>4
<1>4. ValidChain(d)
  <2>1. c # <<>> /\ c[1] = Create /\ Len(c) >= 1 BY DEF ValidChain
  <2> HIDE DEF d
  <2> QED BY <1>1, <1>3, <2>1 DEF ValidChain
<1> QED BY <1>1, <1>2, <1>4

(***************************************************************************)
(* The Removes of some peers, each once (SetToSeq).                        *)
(***************************************************************************)
LEMMA RemovesListed ==
  ASSUME NEW D \in SUBSET Peers, NEW R, R = {Remove(q) : q \in D}
  PROVE  /\ SX!SetToSeq(R) \in Seq(R)
         /\ \A i, j \in DOMAIN SX!SetToSeq(R) :
              SX!SetToSeq(R)[i] = SX!SetToSeq(R)[j] => i = j
<1>1. IsFiniteSet(R)
  <2> DEFINE f == [q \in D |-> Remove(q)]
  <2>1. f \in Surjection(D, R)
    BY DEF Surjection
  <2>2. IsFiniteSet(D)
    BY PeerAssumption, FS_Subset
  <2> QED BY <2>1, <2>2, FS_Surjection
<1>2. Cardinality(R) \in Nat /\ ExistsBijection(1 .. Cardinality(R), R)
  BY <1>1, FS_CardinalityType
<1>3. \E f \in [1 .. Cardinality(R) -> R] : SX!IsInjective(f)
  BY <1>2 DEF ExistsBijection, Bijection, Injection, IsInjective, SX!IsInjective
<1>4. /\ SX!SetToSeq(R) \in [1 .. Cardinality(R) -> R]
      /\ SX!IsInjective(SX!SetToSeq(R))
  BY <1>3 DEF SX!SetToSeq, SX!Cardinality, Cardinality
<1> DEFINE t == SX!SetToSeq(R)
<1> HIDE DEF t
<1>5. t \in [1 .. Cardinality(R) -> R] /\ \A i, j \in DOMAIN t : t[i] = t[j] => i = j
  BY <1>4 DEF SX!IsInjective, t
<1>6. t \in Seq(R)
  BY <1>2, <1>5
<1> QED BY <1>5, <1>6 DEF t

(***************************************************************************)
(* A chain stays valid when members other than the admin are removed, each *)
(* once.                                                                   *)
(***************************************************************************)
LEMMA RemovesAppended ==
  ASSUME NEW c \in Seq(Entry), ValidChain(c), NEW D \in SUBSET (Members(c) \ {Admin}),
         NEW t \in Seq({Remove(q) : q \in D}),
         \A i, j \in DOMAIN t : t[i] = t[j] => i = j
  PROVE  /\ t \in Seq(Entry) /\ c \o t \in Seq(Entry) /\ Begins(c, c \o t)
         /\ ValidChain(c \o t)
<1>1. t \in Seq(Entry)
  <2>1. D \subseteq Peers BY DEF Members
  <2>2. {Remove(q) : q \in D} \subseteq Entry BY <2>1 DEF Remove, Entry, Op
  <2> QED BY <2>2
<1> DEFINE d == c \o t
<1>2. /\ Len(c) \in Nat /\ DOMAIN c = 1 .. Len(c)
      /\ Len(t) \in Nat /\ DOMAIN t = 1 .. Len(t)
      /\ d \in Seq(Entry) /\ Len(d) = Len(c) + Len(t)
      /\ \A i \in 1 .. Len(c) : d[i] = c[i]
      /\ \A i \in 1 .. Len(t) : d[Len(c) + i] = t[i]
  BY <1>1
<1> HIDE DEF d
<1>3. Begins(c, d)
  BY <1>2 DEF Begins
<1>4. ASSUME NEW n \in 2 .. Len(c) PROVE CanAppend(SubSeq(d, 1, n - 1), d[n])
  <2>1. n - 1 \in 0 .. Len(c) /\ 0 + 1 = 1 BY <1>2
  <2>2. SubSeq(c, 1, n - 1) = SubSeq(d, 1, n - 1)
    BY <1>2, <1>3, <2>1, SamePiece
  <2>3. CanAppend(SubSeq(c, 1, n - 1), c[n]) BY DEF ValidChain
  <2>4. c[n] = d[n] BY <1>2
  <2> QED BY <2>2, <2>3, <2>4
<1>5. ASSUME NEW i \in 1 .. Len(t) PROVE CanAppend(SubSeq(d, 1, Len(c) + i - 1), d[Len(c) + i])
  <2>1. PICK q \in D : t[i] = Remove(q)
    OBVIOUS
  <2> DEFINE p == SubSeq(d, 1, Len(c) + i - 1)
  <2>2. /\ p \in Seq(Entry) /\ Len(p) = Len(c) + i - 1 /\ DOMAIN p = 1 .. Len(p)
        /\ \A j \in 1 .. Len(p) : p[j] = d[j]
    <3>1. Len(c) + i - 1 \in 0 .. Len(d) /\ 0 + 1 = 1 /\ 0 \in Nat BY <1>2
    <3> QED BY <1>2, <3>1, PieceType
  <2> HIDE DEF p
  <2>3. PICK a \in DOMAIN c :
          /\ c[a].peer = q /\ c[a].op # "remove"
          /\ \A j \in DOMAIN c : j > a /\ c[j].peer = q => c[j].op # "remove"
    BY DEF Members
  <2>4. a \in DOMAIN p /\ p[a] = c[a]
    BY <1>2, <2>2
  <2>5. ASSUME NEW j \in DOMAIN p, j > a, p[j].peer = q PROVE p[j].op # "remove"
    <3>1. CASE j <= Len(c)
      <4>1. j \in DOMAIN c /\ c[j] = p[j]
        BY <1>2, <2>2, <3>1
      <4> QED BY <2>3, <2>5, <4>1
    <3>2. CASE j > Len(c)
      <4>1. j - Len(c) \in 1 .. Len(t) /\ j - Len(c) # i
        BY <1>2, <2>2, <3>2
      <4>2. t[j - Len(c)] # Remove(q)
        BY <1>2, <2>1, <4>1
      <4>4. p[j] = t[j - Len(c)]
        <5>1. p[j] = d[j] BY <2>2
        <5>2. d[Len(c) + (j - Len(c))] = t[j - Len(c)] BY <1>2, <4>1
        <5>3. Len(c) + (j - Len(c)) = j BY <1>2, <2>2
        <5> QED BY <5>1, <5>2, <5>3
      <4>3. PICK r \in D : t[j - Len(c)] = Remove(r)
        BY <4>1
      <4> QED BY <2>5, <4>2, <4>3, <4>4 DEF Remove
    <3> QED BY <2>2, <3>1, <3>2
  <2>6. q \in Members(p) /\ q # Admin
    BY <2>3, <2>4, <2>5 DEF Members
  <2>7. CanAppend(p, Remove(q))
    BY <2>6 DEF CanAppend, Remove
  <2> QED BY <1>2, <2>1, <2>7 DEF p
<1>6. ASSUME NEW n \in 2 .. Len(d) PROVE CanAppend(SubSeq(d, 1, n - 1), d[n])
  <2>1. CASE n \in 2 .. Len(c)
    BY <1>4, <2>1
  <2>2. CASE n > Len(c)
    <3>1. n - Len(c) \in 1 .. Len(t) /\ Len(c) + (n - Len(c)) = n
      BY <1>2, <2>2
    <3>2. Len(c) + (n - Len(c)) - 1 = n - 1 BY <1>2
    <3>3. CanAppend(SubSeq(d, 1, Len(c) + (n - Len(c)) - 1), d[Len(c) + (n - Len(c))])
      BY <1>5, <3>1
    <3> QED BY <3>1, <3>2, <3>3
  <2> QED BY <1>2, <2>1, <2>2
<1>7. ValidChain(d)
  <2>1. c # <<>> /\ c[1] = Create /\ Len(c) >= 1 BY DEF ValidChain
  <2>2. d # <<>> /\ d[1] = Create BY <1>2, <2>1
  <2> QED BY <1>6, <2>2 DEF ValidChain
<1> QED BY <1>1, <1>2, <1>3, <1>7 DEF d

-----------------------------------------------------------------------------
(***************************************************************************)
(* The invariant.                                                          *)
(***************************************************************************)
Piece(m, l) ==
  m.type = "entries" =>
    \E k \in 0 .. Len(l) :
      /\ m.entries = SubSeq(l, m.from + 1, k)
      /\ MayKnow(m.to, SubSeq(l, 1, k))

SInv ==
  /\ TypeOK
  /\ ValidChain(Log)
  /\ \A n \in Nodes : Begins(store[n].chain, Log)
  /\ \A m \in msgs : Piece(m, Log)

Follows == GL!Next \/ UNCHANGED GL!logVars

LEMMA MessageFields ==
  ASSUME NEW m \in Messages
  PROVE  /\ m.to \in Nodes /\ m.by \in Nodes
         /\ m.type = "fetch" => m.from \in Nat
         /\ m.type = "entries" => /\ m.from \in Nat /\ m.entries \in Seq(Entry)
                                 /\ m.standings \in [Peers -> Word]
  BY DEF Messages

LEMMA Typed ==
  ASSUME SInv
  PROVE  /\ Log \in Seq(Entry)
         /\ \A n \in Nodes : /\ n \in Peers /\ store[n] \in Rows
                              /\ store[n].chain \in Seq(Entry)
                              /\ store[n].standings \in [Peers -> Word]
         /\ \A m \in msgs : m \in Messages
  BY NodeAssumption DEF SInv, TypeOK, Rows, Log

LEMMA PieceKept ==
  ASSUME NEW m \in Messages, NEW l \in Seq(Entry), NEW longer \in Seq(Entry),
         Begins(l, longer), Piece(m, l)
  PROVE  Piece(m, longer)
<1> SUFFICES ASSUME m.type = "entries" PROVE Piece(m, longer)
  BY DEF Piece
<1>1. PICK k \in 0 .. Len(l) :
        m.entries = SubSeq(l, m.from + 1, k) /\ MayKnow(m.to, SubSeq(l, 1, k))
  BY DEF Piece
<1>2. m.from \in Nat BY MessageFields
<1>3. k \in 0 .. Len(longer) BY DEF Begins
<1>4. SubSeq(l, m.from + 1, k) = SubSeq(longer, m.from + 1, k)
  BY <1>2, SamePiece
<1>5. SubSeq(l, 1, k) = SubSeq(longer, 1, k)
  <2>1. 0 \in Nat /\ 0 + 1 = 1 OBVIOUS
  <2> QED BY <2>1, SamePiece
<1> QED BY <1>1, <1>3, <1>4, <1>5 DEF Piece

(***************************************************************************)
(* A step that leaves the chains alone and sends only pieces of the log.   *)
(***************************************************************************)
LEMMA QuietStep ==
  ASSUME SInv, TypeOK',
         \A n \in Nodes : store'[n].chain = store[n].chain,
         \A m \in msgs' : m \in msgs \/ Piece(m, Log)
  PROVE  SInv' /\ Follows
<1>1. Log' = Log
  BY NodeAssumption DEF Log
<1>2. UNCHANGED GL!logVars
  BY <1>1 DEF GL!logVars, Others
<1> QED BY <1>1, <1>2 DEF SInv, Follows

LEMMA WordsTyped == AllSilent \in [Peers -> Word] /\ Idle \in [peer : Nodes \cup {"nobody"}, from : Nat]
  BY SilentWord DEF AllSilent, Idle

-----------------------------------------------------------------------------
(***************************************************************************)
(* The steps that leave the chains alone.                                  *)
(***************************************************************************)
LEMMA SpeakStep ==
  ASSUME SInv, NEW n \in Nodes, NEW pos \in Position,
         store' = [store EXCEPT ![n] = Spoken(n, store[n], pos)],
         UNCHANGED <<inflight, msgs, mishaps>>
  PROVE  SInv' /\ Follows
<1>1. Spoken(n, store[n], pos) \in Rows /\ Spoken(n, store[n], pos).chain = store[n].chain
  BY Typed, SpokenRow
<1>2. store' \in [Nodes -> Rows] /\ \A m \in Nodes : store'[m].chain = store[m].chain
  BY <1>1 DEF SInv, TypeOK
<1>3. TypeOK'
  BY <1>2 DEF SInv, TypeOK
<1> QED BY <1>2, <1>3, QuietStep

LEMMA AskStep ==
  ASSUME SInv, NEW n \in Nodes, NEW m \in Nodes, Ask(n, m)
  PROVE  SInv' /\ Follows
<1> DEFINE a == [type |-> "heads", to |-> n, by |-> m, named |-> Named(m, n),
                 len |-> IF Named(m, n) THEN Len(store[m].chain) ELSE 0,
                 digest |-> IF Named(m, n) THEN store[m].standings ELSE AllSilent]
<1>1. msgs' = msgs \cup {a} /\ UNCHANGED <<store, inflight, mishaps>>
  BY DEF Ask, Send
<1>2. Named(m, n) \in BOOLEAN
  BY DEF Named
<1>3. a \in Messages
  <2>1. Len(store[m].chain) \in Nat /\ store[m].standings \in [Peers -> Word]
    BY Typed
  <2> QED BY <1>2, <2>1, WordsTyped DEF Messages
<1>4. a.type # "entries"
  OBVIOUS
<1> HIDE DEF a
<1>5. TypeOK'
  BY <1>1, <1>3 DEF SInv, TypeOK
<1>6. \A x \in msgs' : x \in msgs \/ Piece(x, Log)
  BY <1>1, <1>4 DEF Piece
<1> QED BY <1>1, <1>5, <1>6, QuietStep

LEMMA FetchMessage ==
  ASSUME NEW n \in Nodes, NEW peer \in Nodes, NEW from \in Nat
  PROVE  Fetch(n, peer, from) \in Messages /\ Fetch(n, peer, from).type = "fetch"
  BY DEF Fetch, Messages

LEMMA OnHeadsStep ==
  ASSUME SInv, NEW m \in msgs, OnHeads(m)
  PROVE  SInv' /\ Follows
<1> DEFINE from == Len(store[m.to].chain)
           f == Fetch(m.to, m.by, from)
<1>1. m.to \in Nodes /\ m.by \in Nodes
  BY Typed, MessageFields
<1>2. from \in Nat /\ f \in Messages /\ f.type = "fetch"
  BY <1>1, Typed, FetchMessage
<1>3. /\ msgs' \in {msgs \ {m}, (msgs \ {m}) \cup {f}}
      /\ inflight' \in {inflight, [inflight EXCEPT ![m.to] = [peer |-> m.by, from |-> from]]}
      /\ UNCHANGED <<store, mishaps>>
  BY DEF OnHeads, Drop
<1> HIDE DEF from, f
<1>4. inflight' \in [Nodes -> [peer : Nodes \cup {"nobody"}, from : Nat]]
  BY <1>1, <1>2, <1>3 DEF SInv, TypeOK
<1>5. TypeOK'
  BY <1>2, <1>3, <1>4 DEF SInv, TypeOK
<1>6. \A x \in msgs' : x \in msgs \/ Piece(x, Log)
  BY <1>2, <1>3 DEF Piece
<1> QED BY <1>3, <1>5, <1>6, QuietStep

LEMMA DropStep ==
  ASSUME SInv, msgs' \subseteq msgs, UNCHANGED store, mishaps' \in Nat,
         inflight' \in [Nodes -> [peer : Nodes \cup {"nobody"}, from : Nat]]
  PROVE  SInv' /\ Follows
<1>1. TypeOK'
  BY DEF SInv, TypeOK
<1> QED BY <1>1, QuietStep

(***************************************************************************)
(* on_request: what is served to a peer is a piece of the log that ends    *)
(* where that peer may still know of the group.                            *)
(***************************************************************************)
LEMMA ServedPiece ==
  ASSUME NEW c \in Seq(Entry), NEW l \in Seq(Entry), Begins(c, l), NEW p \in Peers,
         NEW upto, upto = ServedLength(c, Members(c), p), upto > 0
  PROVE  /\ upto \in 0 .. Len(c)
         /\ MayKnow(p, SubSeq(l, 1, upto))
<1>1. CASE p \in Members(c)
  <2>1. upto = Len(c) /\ Len(c) \in 0 .. Len(c) BY <1>1 DEF ServedLength
  <2>2. SubSeq(l, 1, upto) = c BY <2>1, WholePiece
  <2>3. MayKnow(p, c) BY <1>1 DEF MayKnow
  <2> QED BY <2>1, <2>2, <2>3
<1>2. CASE p \notin Members(c)
  <2>1. upto \in DOMAIN c /\ c[upto] = Remove(p)
    BY <1>2, ServedRemoval
  <2>2. upto \in 0 .. Len(l) /\ upto \in 1 .. Len(c) /\ 0 \in Nat /\ 0 + 1 = 1
    BY <2>1 DEF Begins
  <2>3. Len(SubSeq(l, 1, upto)) = upto /\ SubSeq(l, 1, upto)[upto] = l[upto]
    BY <2>2, PieceType
  <2>4. l[upto] = c[upto]
    BY <2>1 DEF Begins
  <2> QED BY <2>1, <2>2, <2>3, <2>4 DEF MayKnow
<1> QED BY <1>1, <1>2

LEMMA OnFetchStep ==
  ASSUME SInv, NEW m \in msgs, OnFetch(m)
  PROVE  SInv' /\ Follows
<1> DEFINE c == store[m.to].chain
           upto == ServedLength(c, Members(c), m.by)
           a == [type |-> "entries", to |-> m.by, by |-> m.to, from |-> m.from,
                 entries |-> EntriesBetween(c, m.from, upto),
                 standings |-> IF m.by \in Members(c) THEN store[m.to].standings ELSE AllSilent]
           u == [type |-> "unavailable", to |-> m.by, by |-> m.to]
<1>1. m.to \in Nodes /\ m.by \in Nodes /\ m.by \in Peers /\ m.from \in Nat
  BY Typed, MessageFields DEF OnFetch
<1>2. /\ msgs' = (msgs \ {m}) \cup {IF m.to \in Members(c) /\ upto > 0 THEN a ELSE u}
      /\ UNCHANGED <<store, inflight, mishaps>>
  BY DEF OnFetch
<1>3. c \in Seq(Entry) /\ Log \in Seq(Entry) /\ Begins(c, Log)
  BY <1>1, Typed DEF SInv
<1>4. u \in Messages /\ Piece(u, Log)
  BY <1>1 DEF Messages, Piece
<1>5. ASSUME upto > 0 PROVE a \in Messages /\ Piece(a, Log)
  <2>1. upto \in 0 .. Len(c) /\ MayKnow(m.by, SubSeq(Log, 1, upto))
    BY <1>1, <1>3, <1>5, ServedPiece
  <2>2. upto \in 0 .. Len(Log)
    BY <1>3, <2>1 DEF Begins
  <2> HIDE DEF c, upto
  <2>3. SubSeq(c, m.from + 1, upto) = SubSeq(Log, m.from + 1, upto)
    BY <1>1, <1>3, <2>1, SamePiece
  <2>4. SubSeq(c, m.from + 1, upto) \in Seq(Entry)
    BY <1>1, <1>3, <2>1, PieceType
  <2>5. (IF m.by \in Members(c) THEN store[m.to].standings ELSE AllSilent) \in [Peers -> Word]
    BY <1>1, Typed, WordsTyped
  <2>6. a \in Messages
    BY <1>1, <2>4, <2>5 DEF Messages, EntriesBetween
  <2>7. Piece(a, Log)
    BY <2>1, <2>2, <2>3 DEF Piece, EntriesBetween
  <2> QED BY <2>6, <2>7
<1> HIDE DEF a, u, upto
<1>6. TypeOK'
  BY <1>2, <1>4, <1>5 DEF SInv, TypeOK
<1>7. \A x \in msgs' : x \in msgs \/ Piece(x, Log)
  BY <1>2, <1>4, <1>5
<1> QED BY <1>2, <1>6, <1>7, QuietStep

-----------------------------------------------------------------------------
(***************************************************************************)
(* The steps that write the log, catch up with it or forget it.            *)
(***************************************************************************)
LEMMA WriteStep ==
  ASSUME SInv, NEW row \in Rows, store' = [store EXCEPT ![Admin] = row],
         Begins(Log, row.chain), ValidChain(row.chain),
         msgs' \subseteq msgs, mishaps' = mishaps,
         inflight' \in [Nodes -> [peer : Nodes \cup {"nobody"}, from : Nat]]
  PROVE  SInv' /\ Follows
<1> DEFINE l == row.chain
<1>1. /\ Log' = l /\ l \in Seq(Entry) /\ store' \in [Nodes -> Rows]
      /\ \A n \in Nodes : n # Admin => store'[n].chain = store[n].chain
      /\ store'[Admin].chain = l
  BY NodeAssumption DEF Log, SInv, TypeOK, Rows
<1>2. TypeOK'
  BY <1>1 DEF SInv, TypeOK
<1> HIDE DEF l
<1>3. ASSUME NEW n \in Nodes PROVE Begins(store'[n].chain, l)
  <2>1. CASE n = Admin
    <3>1. Begins(l, l) BY <1>1 DEF Begins
    <3> QED BY <1>1, <2>1, <3>1
  <2>2. CASE n # Admin
    <3>1. /\ store[n].chain \in Seq(Entry) /\ Log \in Seq(Entry)
          /\ Begins(store[n].chain, Log) /\ Begins(Log, l)
      BY Typed DEF SInv, l
    <3>2. Begins(store[n].chain, l) BY <1>1, <3>1, BeginsTransitive
    <3> QED BY <1>1, <2>2, <3>2
  <2> QED BY <2>1, <2>2
<1>4. ASSUME NEW x \in msgs' PROVE Piece(x, l)
  <2>1. x \in Messages /\ Piece(x, Log) /\ Log \in Seq(Entry) /\ Begins(Log, l)
    BY <1>4, Typed DEF SInv, l
  <2> QED BY <1>1, <2>1, PieceKept
<1>5. ValidChain(l) BY DEF l
<1>6. SInv'
  BY <1>1, <1>2, <1>3, <1>4, <1>5 DEF SInv
<1>7. \A n \in Others : store'[n].chain = store[n].chain
  BY <1>1 DEF Others
<1>8. [n \in Others |-> store[n].chain]' = [n \in Others |-> store[n].chain]
  BY <1>7
<1>9. CASE l = Log
  BY <1>1, <1>6, <1>8, <1>9 DEF Follows, GL!logVars
<1>10. CASE l # Log
  <2>1. GL!Begins(Log, l) /\ GL!ValidChain(l) /\ l \in Seq(GL!Entry)
    BY <1>1, <1>5, SameChains DEF l
  <2>2. GL!Write
    BY <1>1, <1>8, <1>10, <2>1 DEF GL!Write
  <2> QED BY <1>6, <2>2 DEF Follows, GL!Next
<1> QED BY <1>6, <1>9, <1>10

(***************************************************************************)
(* A node other than the admin comes to hold a beginning of the log.       *)
(***************************************************************************)
LEMMA CopyStep ==
  ASSUME SInv, NEW n \in Others, NEW row \in Rows, store' = [store EXCEPT ![n] = row],
         NEW k \in 0 .. Len(Log), row.chain = SubSeq(Log, 1, k),
         msgs' \subseteq msgs, mishaps' \in Nat,
         inflight' \in [Nodes -> [peer : Nodes \cup {"nobody"}, from : Nat]]
  PROVE  /\ SInv'
         /\ Log' = Log
         /\ [m \in Others |-> store[m].chain]'
              = [[m \in Others |-> store[m].chain] EXCEPT ![n] = SubSeq(Log, 1, k)]
<1>1. /\ n \in Nodes /\ n # Admin /\ store' \in [Nodes -> Rows]
      /\ \A m \in Nodes : store'[m].chain = IF m = n THEN row.chain ELSE store[m].chain
  BY DEF Others, SInv, TypeOK
<1>2. Log' = Log
  BY <1>1, NodeAssumption DEF Log
<1>3. TypeOK'
  BY <1>1 DEF SInv, TypeOK
<1>4. Begins(SubSeq(Log, 1, k), Log)
  <2>1. 0 \in Nat /\ 0 + 1 = 1 /\ Log \in Seq(Entry) BY Typed
  <2>2. /\ SubSeq(Log, 1, k) \in Seq(Entry) /\ Len(SubSeq(Log, 1, k)) = k
        /\ \A i \in 1 .. k : SubSeq(Log, 1, k)[i] = Log[i]
    BY <2>1, PieceType
  <2> QED BY <2>1, <2>2 DEF Begins
<1>5. \A m \in Nodes : Begins(store'[m].chain, Log)
  BY <1>1, <1>4 DEF SInv
<1>6. SInv'
  BY <1>2, <1>3, <1>5 DEF SInv
<1>7. [m \in Others |-> store[m].chain]'
         = [[m \in Others |-> store[m].chain] EXCEPT ![n] = SubSeq(Log, 1, k)]
  BY <1>1 DEF Others
<1> QED BY <1>2, <1>6, <1>7

LEMMA AddOrRemoveStep ==
  ASSUME SInv, NEW q \in Guests, NEW e \in {Add(q), Remove(q)}, AddOrRemove(e)
  PROVE  SInv' /\ Follows
<1>1. e \in Entry
  BY BoundAssumption, NodeAssumption DEF Entry, Op, Add, Remove
<1>2. Log \in Seq(Entry) /\ ValidChain(Log) /\ CanAppend(Log, e) /\ store[Admin] \in Rows
  BY Typed, NodeAssumption DEF SInv, AddOrRemove
<1>3. /\ Log \o <<e>> \in Seq(Entry) /\ Begins(Log, Log \o <<e>>)
      /\ ValidChain(Log \o <<e>>)
  BY <1>1, <1>2, OneAppended
<1>4. PICK row, more : row = Appended(store[Admin], more) /\ more = <<e>>
  OBVIOUS
<1>5. row \in Rows /\ row.chain = Log \o <<e>>
  <2>1. more \in Seq(Entry) BY <1>1, <1>4
  <2> QED BY <1>2, <1>4, <2>1, AppendedRow DEF Log
<1>6. /\ store' = [store EXCEPT ![Admin] = row]
      /\ UNCHANGED <<inflight, msgs, mishaps>>
  BY <1>4 DEF AddOrRemove
<1>7. inflight' \in [Nodes -> [peer : Nodes \cup {"nobody"}, from : Nat]]
  BY <1>6 DEF SInv, TypeOK
<1> QED BY <1>3, <1>5, <1>6, <1>7, WriteStep

LEMMA ExpireStep ==
  ASSUME SInv, NEW n \in Nodes, Expire(n)
  PROVE  SInv' /\ Follows
<1>1. n \in Others
  <2>1. Admin \in Members(Log) BY Typed, AdminStays DEF SInv
  <2> QED BY <2>1 DEF Expire, Others, Log
<1>2. Unknown \in Rows /\ Unknown.chain = <<>>
  BY WordsTyped DEF Unknown, Rows
<1>3. SubSeq(Log, 1, 0) = <<>> /\ 0 \in 0 .. Len(Log)
  BY Typed
<1>4. /\ store' = [store EXCEPT ![n] = Unknown] /\ UNCHANGED <<inflight, msgs>>
      /\ mishaps' \in Nat
  BY DEF Expire, SInv, TypeOK
<1>5. inflight' \in [Nodes -> [peer : Nodes \cup {"nobody"}, from : Nat]]
  BY <1>4 DEF SInv, TypeOK
<1>6. /\ SInv' /\ Log' = Log
      /\ [m \in Others |-> store[m].chain]'
           = [[m \in Others |-> store[m].chain] EXCEPT ![n] = SubSeq(Log, 1, 0)]
  BY <1>1, <1>2, <1>3, <1>4, <1>5, CopyStep
<1>7. n \notin GL!Members([m \in Others |-> store[m].chain][n])
  BY <1>1, SameChains DEF Expire
<1>8. GL!Forget(n)
  BY <1>3, <1>6, <1>7 DEF GL!Forget
<1> QED BY <1>1, <1>6, <1>8 DEF Follows, GL!Next

(***************************************************************************)
(* put at one node: the chain it makes is the chain held or a later        *)
(* beginning of the log, which its receiver may know.                      *)
(***************************************************************************)
LEMMA PutChain ==
  ASSUME SInv, NEW m \in msgs, m.type = "entries", ~Refused(store[m.to], m)
  PROVE  \/ Extended(store[m.to], m) = store[m.to].chain
         \/ \E k \in Len(store[m.to].chain) .. Len(Log) :
              /\ Extended(store[m.to], m) = SubSeq(Log, 1, k)
              /\ MayKnow(m.to, SubSeq(Log, 1, k))
<1> DEFINE c == store[m.to].chain
<1>1. m.to \in Nodes /\ m.from \in Nat
  BY Typed, MessageFields
<1>2. c \in Seq(Entry) /\ Log \in Seq(Entry) /\ Begins(c, Log) /\ m.from \in 0 .. Len(c)
  BY <1>1, Typed DEF SInv, Refused
<1>3. PICK k \in 0 .. Len(Log) :
        m.entries = SubSeq(Log, m.from + 1, k) /\ MayKnow(m.to, SubSeq(Log, 1, k))
  BY DEF SInv, Piece
<1>4. CASE m.from + Len(m.entries) > Len(c)
  <2> HIDE DEF c
  <2>1. /\ k >= Len(c)
        /\ c \o SubSeq(m.entries, Len(c) - m.from + 1, Len(m.entries)) = SubSeq(Log, 1, k)
    <3>1. PICK h, from, e, l : h = c /\ from = m.from /\ e = m.entries /\ l = Log
      OBVIOUS
    <3>2. /\ h \in Seq(Entry) /\ l \in Seq(Entry) /\ Begins(h, l) /\ from \in 0 .. Len(h)
          /\ k \in 0 .. Len(l) /\ e = SubSeq(l, from + 1, k) /\ from + Len(e) > Len(h)
      BY <1>2, <1>3, <1>4, <3>1
    <3>3. k >= Len(h) /\ h \o SubSeq(e, Len(h) - from + 1, Len(e)) = SubSeq(l, 1, k)
      <4>1. /\ h \in Seq(Entry) /\ l \in Seq(Entry) /\ Begins(h, l)
            /\ from \in 0 .. Len(h) /\ k \in 0 .. Len(l)
        BY <3>2
      <4>2. e = SubSeq(l, from + 1, k) /\ from + Len(e) > Len(h)
        BY <3>2
      <4> QED BY <4>1, <4>2, AnswerJoins, ZenonT(60)
    <3> QED BY <3>1, <3>3
  <2>2. Extended(store[m.to], m) = SubSeq(Log, 1, k)
    BY <1>4, <2>1 DEF Extended, c
  <2>3. k \in Len(c) .. Len(Log)
    BY <1>2, <2>1
  <2> QED BY <1>3, <2>2, <2>3 DEF c
<1>5. CASE ~(m.from + Len(m.entries) > Len(c))
  BY <1>5 DEF Extended
<1> QED BY <1>4, <1>5

LEMMA OnEntriesApplied ==
  ASSUME SInv, NEW m \in msgs, m.type = "entries", ~Refused(store[m.to], m),
         store' = [store EXCEPT ![m.to] =
                     Ratified(m.to, Answered(m.to, Put(store[m.to], m)), Departed(m.to, store[m.to], m))],
         msgs' \subseteq msgs, mishaps' = mishaps,
         inflight' \in [Nodes -> [peer : Nodes \cup {"nobody"}, from : Nat]]
  PROVE  SInv' /\ Follows
<1> DEFINE c == store[m.to].chain
           e == Extended(store[m.to], m)
<1>1. m.to \in Nodes /\ m.to \in Peers /\ store[m.to] \in Rows /\ c \in Seq(Entry)
      /\ Log \in Seq(Entry) /\ Begins(c, Log) /\ m.standings \in [Peers -> Word]
  BY Typed, MessageFields DEF SInv
<1>2. \/ e = c
      \/ \E k \in Len(c) .. Len(Log) : e = SubSeq(Log, 1, k) /\ MayKnow(m.to, SubSeq(Log, 1, k))
  BY PutChain
<1> HIDE DEF c, e
<1>3. e \in Seq(Entry)
  <2>1. ASSUME NEW k \in Len(c) .. Len(Log), e = SubSeq(Log, 1, k) PROVE e \in Seq(Entry)
    <3>1. k \in 0 .. Len(Log) /\ 0 \in Nat /\ 0 + 1 = 1 BY <1>1
    <3> QED BY <1>1, <2>1, <3>1, PieceType
  <2> QED BY <1>1, <1>2, <2>1
<1>4. PICK t : t = Put(store[m.to], m)
  OBVIOUS
<1>5. t \in Rows /\ t.chain = e
  BY <1>1, <1>3, <1>4, PutRow DEF e
<1>6. PICK r : r = Answered(m.to, t)
  OBVIOUS
<1>7. r \in Rows /\ r.chain = e
  BY <1>1, <1>5, <1>6, AnsweredRow
<1>8. mishaps' \in Nat BY DEF SInv, TypeOK
<1>9. CASE m.to # Admin
  <2>1. m.to \in Others /\ store' = [store EXCEPT ![m.to] = r]
    BY <1>1, <1>4, <1>6, <1>9 DEF Others, Ratified
  <2>2. CASE e = c
    <3>1. store' \in [Nodes -> Rows] /\ \A n \in Nodes : store'[n].chain = store[n].chain
      BY <1>1, <1>7, <2>1, <2>2 DEF SInv, TypeOK, c
    <3>2. TypeOK'
      BY <3>1 DEF SInv, TypeOK
    <3> QED BY <3>1, <3>2, QuietStep
  <2>3. ASSUME NEW k \in Len(c) .. Len(Log), e = SubSeq(Log, 1, k), MayKnow(m.to, SubSeq(Log, 1, k))
        PROVE  SInv' /\ Follows
    <3>1. k \in 0 .. Len(Log) BY <1>1
    <3>2. /\ SInv' /\ Log' = Log
          /\ [n \in Others |-> store[n].chain]'
               = [[n \in Others |-> store[n].chain] EXCEPT ![m.to] = SubSeq(Log, 1, k)]
      <4>1. PICK n \in Others : n = m.to
        BY <2>1
      <4>2. store' = [store EXCEPT ![n] = r] /\ r \in Rows /\ r.chain = SubSeq(Log, 1, k)
        BY <1>7, <2>1, <2>3, <4>1
      <4>3. /\ SInv' /\ Log' = Log
            /\ [x \in Others |-> store[x].chain]'
                 = [[x \in Others |-> store[x].chain] EXCEPT ![n] = SubSeq(Log, 1, k)]
        BY <1>8, <3>1, <4>2, CopyStep
      <4> QED BY <4>1, <4>3
    <3>3. k \in Len([n \in Others |-> store[n].chain][m.to]) .. Len(Log)
      BY <2>1 DEF c
    <3>4. GL!EndsWithin(m.to, SubSeq(Log, 1, k))
      BY <2>3, SameChains
    <3>5. GL!CatchUp(m.to)
      BY <3>2, <3>3, <3>4 DEF GL!CatchUp
    <3> QED BY <2>1, <3>2, <3>5 DEF Follows, GL!Next
  <2> QED BY <1>2, <2>2, <2>3
<1>10. CASE m.to = Admin
  <2>1. c = Log BY <1>10 DEF c, Log
  <2>2. e = Log
    <3>1. ASSUME NEW k \in Len(c) .. Len(Log), e = SubSeq(Log, 1, k) PROVE e = Log
      <4>1. k = Len(Log) BY <1>1, <2>1
      <4>2. SubSeq(Log, 1, Len(Log)) = Log BY <1>1
      <4> QED BY <3>1, <4>1, <4>2
    <3> QED BY <1>2, <2>1, <3>1
  <2>3. PICK D : D = Departed(Admin, store[m.to], m)
    OBVIOUS
  <2>4. D \in SUBSET (Members(Log) \ {Admin}) /\ D \in SUBSET Peers
    <3>1. D \subseteq Members(t.chain) \ {Admin}
      BY <1>4, <2>3 DEF Departed
    <3> QED BY <1>5, <2>2, <3>1 DEF Members
  <2>5. PICK R : R = {Remove(q) : q \in D}
    OBVIOUS
  <2>6. PICK more : more = SX!SetToSeq(R)
    OBVIOUS
  <2>7. more \in Seq(R) /\ \A i, j \in DOMAIN more : more[i] = more[j] => i = j
    BY <2>4, <2>5, <2>6, RemovesListed
  <2>8. /\ more \in Seq(Entry) /\ Begins(Log, Log \o more) /\ ValidChain(Log \o more)
    BY <1>1, <2>4, <2>5, <2>7, RemovesAppended DEF SInv
  <2>9. PICK row : row = Appended(r, more)
    OBVIOUS
  <2>10. row \in Rows /\ row.chain = Log \o more
    BY <1>7, <2>2, <2>8, <2>9, AppendedRow
  <2>11. store' = [store EXCEPT ![Admin] = row]
    BY <1>4, <1>6, <1>10, <2>3, <2>5, <2>6, <2>9 DEF Ratified
  <2> QED BY <2>8, <2>10, <2>11, WriteStep
<1> QED BY <1>9, <1>10

LEMMA OnEntriesStep ==
  ASSUME SInv, NEW m \in msgs, OnEntries(m)
  PROVE  SInv' /\ Follows
<1> DEFINE n == m.to
           s == store[n]
           gap == s.state # "absent" /\ m.from > Len(s.chain)
           next == IF gap THEN [peer |-> m.by, from |-> Len(s.chain)] ELSE Idle
           f == Fetch(n, m.by, Len(s.chain))
           expected == inflight[n] = [peer |-> m.by, from |-> m.from]
<1>1. m.to \in Nodes /\ m.by \in Nodes /\ m.type = "entries" /\ Len(s.chain) \in Nat
  BY Typed, MessageFields DEF OnEntries
<1>2. f \in Messages /\ f.type = "fetch"
  BY <1>1, FetchMessage
<1>3. next \in [peer : Nodes \cup {"nobody"}, from : Nat]
  BY <1>1, WordsTyped
<1>4. /\ inflight' = IF expected THEN [inflight EXCEPT ![n] = next] ELSE inflight
      /\ msgs' = (msgs \ {m}) \cup (IF expected /\ gap THEN {f} ELSE {})
      /\ IF ~expected \/ Refused(s, m) THEN UNCHANGED store
         ELSE store' = [store EXCEPT ![n] = Ratified(n, Answered(n, Put(s, m)), Departed(n, s, m))]
      /\ mishaps' = mishaps
  BY DEF OnEntries
<1>5. inflight' \in [Nodes -> [peer : Nodes \cup {"nobody"}, from : Nat]]
  <2> HIDE DEF next, expected
  <2> QED BY <1>1, <1>3, <1>4 DEF SInv, TypeOK
<1>6. CASE ~expected \/ Refused(s, m)
  <2>1. UNCHANGED <<store, mishaps>> /\ \A x \in msgs' : x \in msgs \/ x = f
    BY <1>4, <1>6
  <2> HIDE DEF f
  <2>2. TypeOK'
    BY <1>2, <1>5, <2>1 DEF SInv, TypeOK
  <2>3. \A x \in msgs' : x \in msgs \/ Piece(x, Log)
    BY <1>2, <2>1 DEF Piece
  <2> QED BY <2>1, <2>2, <2>3, QuietStep
<1>7. CASE expected /\ ~Refused(s, m)
  <2>1. ~gap
    BY <1>7 DEF Refused
  <2>2. msgs' \subseteq msgs
    BY <1>4, <2>1
  <2>3. store' = [store EXCEPT ![n] = Ratified(n, Answered(n, Put(s, m)), Departed(n, s, m))]
    BY <1>4, <1>7
  <2> HIDE DEF gap, next, f, expected
  <2> QED BY <1>1, <1>4, <1>5, <1>7, <2>2, <2>3, OnEntriesApplied
<1> QED BY <1>6, <1>7

-----------------------------------------------------------------------------
LEMMA InitInv == Init => SInv /\ GL!Init
<1> SUFFICES ASSUME Init PROVE SInv /\ GL!Init
  OBVIOUS
<1>1. Create \in Entry /\ <<Create>> \in Seq(Entry)
  BY AdminAssumption DEF Create, Entry, Op
<1>2. /\ Log = <<Create>> /\ \A n \in Others : store[n].chain = <<>>
      /\ msgs = {}
  BY NodeAssumption DEF Init, Log, Founded, Unknown, Others
<1>3. Founded \in Rows
  <2>1. [AllSilent EXCEPT ![Admin] = [seq |-> 1, pos |-> "in"]] \in [Peers -> Word]
    BY WordsTyped DEF Word, Standing, Position
  <2> QED BY <1>1, <2>1 DEF Founded, Rows
<1>4. Unknown \in Rows
  BY WordsTyped DEF Unknown, Rows
<1>5. TypeOK
  BY <1>3, <1>4, WordsTyped DEF Init, TypeOK
<1>6. ValidChain(Log)
  BY <1>2 DEF ValidChain
<1>7. \A n \in Nodes : Begins(store[n].chain, Log)
  <2>1. Begins(<<>>, Log) /\ Begins(Log, Log)
    BY <1>2 DEF Begins
  <2> QED BY <1>2, <2>1 DEF Others, Log
<1>8. SInv
  BY <1>2, <1>5, <1>6, <1>7 DEF SInv
<1>9. GL!Init
  BY <1>2, SameChains DEF GL!Init
<1> QED BY <1>8, <1>9

LEMMA NextStep == SInv /\ [Next]_vars => SInv' /\ Follows
<1> SUFFICES ASSUME SInv, [Next]_vars PROVE SInv' /\ Follows
  OBVIOUS
<1>1. ASSUME NEW q \in Guests, AddOrRemove(Add(q)) \/ AddOrRemove(Remove(q))
      PROVE  SInv' /\ Follows
  BY <1>1, AddOrRemoveStep
<1>2. ASSUME NEW n \in Users, Accept(n) \/ Leave(n) PROVE SInv' /\ Follows
  <2>1. n \in Nodes BY BoundAssumption
  <2>2. PICK pos \in Position :
          /\ store' = [store EXCEPT ![n] = Spoken(n, store[n], pos)]
          /\ UNCHANGED <<inflight, msgs, mishaps>>
    BY <1>2 DEF Accept, Leave, Position
  <2> QED BY <2>1, <2>2, SpeakStep
<1>3. ASSUME NEW n \in Nodes, NEW m \in Nodes, Ask(n, m) PROVE SInv' /\ Follows
  BY <1>3, AskStep
<1>4. ASSUME NEW m \in msgs, Deliver(m) \/ Lose(m) PROVE SInv' /\ Follows
  <2>1. CASE OnHeads(m) BY <2>1, OnHeadsStep
  <2>2. CASE OnFetch(m) BY <2>2, OnFetchStep
  <2>3. CASE OnEntries(m) BY <2>3, OnEntriesStep
  <2>4. CASE OnUnavailable(m)
    <3>1. m.to \in Nodes BY Typed, MessageFields
    <3>2. /\ inflight' \in [Nodes -> [peer : Nodes \cup {"nobody"}, from : Nat]]
          /\ UNCHANGED <<store, mishaps>> /\ msgs' \subseteq msgs
      BY <2>4, <3>1, WordsTyped DEF OnUnavailable, Drop, SInv, TypeOK
    <3>3. mishaps' \in Nat BY <3>2 DEF SInv, TypeOK
    <3> QED BY <3>2, <3>3, DropStep
  <2>5. CASE Lose(m)
    <3>1. /\ inflight' \in [Nodes -> [peer : Nodes \cup {"nobody"}, from : Nat]]
          /\ UNCHANGED store /\ mishaps' \in Nat /\ msgs' \subseteq msgs
      BY <2>5 DEF Lose, Drop, SInv, TypeOK
    <3> QED BY <3>1, DropStep
  <2> QED BY <1>4, <2>1, <2>2, <2>3, <2>4, <2>5 DEF Deliver
<1>5. ASSUME NEW n \in Nodes, Timeout(n) PROVE SInv' /\ Follows
  <2>1. /\ inflight' \in [Nodes -> [peer : Nodes \cup {"nobody"}, from : Nat]]
        /\ UNCHANGED store /\ mishaps' \in Nat /\ msgs' \subseteq msgs
    BY <1>5, WordsTyped DEF Timeout, SInv, TypeOK
  <2> QED BY <2>1, DropStep
<1>6. ASSUME NEW n \in Nodes, Expire(n) PROVE SInv' /\ Follows
  BY <1>6, ExpireStep
<1>7. CASE UNCHANGED vars
  <2>1. TypeOK' BY <1>7 DEF vars, SInv, TypeOK
  <2> QED BY <1>7, <2>1, QuietStep DEF vars
<1> QED BY <1>1, <1>2, <1>3, <1>4, <1>5, <1>6, <1>7 DEF Next, UserStep

(***************************************************************************)
(* The exchange keeps its invariant.                                       *)
(***************************************************************************)
THEOREM SyncInvariance == Spec => []SInv
<1>1. SInv /\ [Next]_vars => SInv' BY NextStep
<1>2. Init => SInv BY InitInv
<1> QED BY <1>1, <1>2, PTL DEF Spec

(***************************************************************************)
(* Every variable of the exchange keeps its type.                          *)
(***************************************************************************)
THEOREM SyncTypeCorrect == Spec => []TypeOK
<1>1. SInv => TypeOK BY DEF SInv
<1> QED BY <1>1, SyncInvariance, PTL

(***************************************************************************)
(* The exchange of a group implements its abstract log: whatever is lost,  *)
(* late, repeated or given up, and whoever serves, every node's chain      *)
(* follows the admin's and ends where it may (on_entries, put, serve).     *)
(***************************************************************************)
THEOREM SyncFollowsLog == Spec => FollowsLog
<1>1. Init => SInv /\ GL!Init
  BY InitInv
<1>2. SInv /\ [Next]_vars => SInv' /\ [GL!Next]_(GL!logVars)
  BY NextStep DEF Follows
<1> QED BY <1>1, <1>2, PTL DEF Spec, FollowsLog, GL!Spec

(***************************************************************************)
(* On every chain a node comes to hold, the code's member fold and its     *)
(* departure scan agree with what the whole chain says (chain.rs, fold and *)
(* departure_seq).                                                         *)
(***************************************************************************)
THEOREM ScansAgreeCorrect == Spec => []ScansAgree
<1>1. TypeOK => ScansAgree
  BY FoldIsMembers, LoopIsDeparture DEF TypeOK, Rows, ScansAgree
<1> QED BY <1>1, SyncTypeCorrect, PTL

-----------------------------------------------------------------------------
(***************************************************************************)
(* What GroupLog promises, for the log and the copies of the exchange: the *)
(* copies begin the log, agree with one another, and end where their       *)
(* holder may still know of the group.                                     *)
(***************************************************************************)
Copies == [n \in Others |-> store[n].chain]

LogStep(l, c, k, d) ==
  \/ k \in Seq(Entry) /\ Begins(l, k) /\ d = c
  \/ \E n \in Others : \E i \in Len(c[n]) .. Len(l) :
       MayKnow(n, SubSeq(l, 1, i)) /\ d = [c EXCEPT ![n] = SubSeq(l, 1, i)] /\ k = l
  \/ \E n \in Others : n \notin Members(c[n]) /\ d = [c EXCEPT ![n] = <<>>] /\ k = l
  \/ k = l /\ d = c

LEMMA LogSteps ==
  ASSUME [GL!Next]_(GL!logVars)
  PROVE  LogStep(Log, Copies, Log', Copies')
<1>1. CASE GL!Write
  <2>1. Log' \in Seq(Entry) /\ Begins(Log, Log') /\ Copies' = Copies
    BY <1>1, SameChains DEF GL!Write, Copies
  <2> QED BY <2>1 DEF LogStep
<1>2. ASSUME NEW n \in Others, GL!CatchUp(n) PROVE LogStep(Log, Copies, Log', Copies')
  <2>1. PICK i \in Len(Copies[n]) .. Len(Log) :
          /\ MayKnow(n, SubSeq(Log, 1, i))
          /\ Copies' = [Copies EXCEPT ![n] = SubSeq(Log, 1, i)] /\ Log' = Log
    BY <1>2, SameChains DEF GL!CatchUp, Copies
  <2> QED BY <2>1 DEF LogStep
<1>3. ASSUME NEW n \in Others, GL!Forget(n) PROVE LogStep(Log, Copies, Log', Copies')
  <2>1. n \notin Members(Copies[n]) /\ Copies' = [Copies EXCEPT ![n] = <<>>] /\ Log' = Log
    BY <1>3, SameChains DEF GL!Forget, Copies
  <2> QED BY <2>1 DEF LogStep
<1>4. CASE UNCHANGED GL!logVars
  <2>1. Log' = Log /\ Copies' = Copies
    BY <1>4 DEF GL!logVars, Copies
  <2> QED BY <2>1 DEF LogStep
<1> QED BY <1>1, <1>2, <1>3, <1>4 DEF GL!Next

FollowedBy(l, c) ==
  /\ l \in Seq(Entry) /\ c \in [Others -> Seq(Entry)]
  /\ \A n \in Others : Begins(c[n], l) /\ MayKnow(n, c[n])

LEMMA LogStepFollows ==
  ASSUME NEW l, NEW c, NEW k, NEW d, FollowedBy(l, c), LogStep(l, c, k, d)
  PROVE  /\ FollowedBy(k, d)
         /\ \A n \in Others : n \in Members(c[n]) => Begins(c[n], d[n])
<1>1. /\ l \in Seq(Entry) /\ c \in [Others -> Seq(Entry)]
      /\ \A n \in Others : Begins(c[n], l) /\ MayKnow(n, c[n]) /\ Begins(c[n], c[n])
  BY DEF FollowedBy, Begins
<1>2. CASE k \in Seq(Entry) /\ Begins(l, k) /\ d = c
  BY <1>1, <1>2, BeginsTransitive DEF FollowedBy
<1>3. ASSUME NEW n \in Others, NEW i \in Len(c[n]) .. Len(l),
             MayKnow(n, SubSeq(l, 1, i)), d = [c EXCEPT ![n] = SubSeq(l, 1, i)], k = l
      PROVE  FollowedBy(k, d) /\ \A m \in Others : m \in Members(c[m]) => Begins(c[m], d[m])
  <2>1. PICK part : part = SubSeq(l, 1, i)
    OBVIOUS
  <2>2. i \in 0 .. Len(l) /\ Len(c[n]) <= i
    BY <1>1
  <2>3. part \in Seq(Entry) /\ Len(part) = i /\ \A j \in 1 .. i : part[j] = l[j]
    <3>1. i \in Nat /\ 0 \in Nat /\ 0 + 1 = 1
      BY <2>2
    <3>2. /\ SubSeq(l, 0 + 1, i) \in Seq(Entry) /\ Len(SubSeq(l, 0 + 1, i)) = i
          /\ \A j \in 1 .. i : SubSeq(l, 0 + 1, i)[j] = l[0 + j]
      BY <1>1, <2>2, <3>1, PieceType
    <3> QED BY <2>1, <3>1, <3>2
  <2>4. Begins(part, l) /\ Begins(c[n], part)
    BY <1>1, <2>2, <2>3 DEF Begins
  <2>5. d = [c EXCEPT ![n] = part] /\ MayKnow(n, part)
    BY <1>3, <2>1
  <2>6. d \in [Others -> Seq(Entry)] /\ d[n] = part /\ \A m \in Others \ {n} : d[m] = c[m]
    BY <1>1, <2>3, <2>5
  <2>7. FollowedBy(k, d)
    BY <1>1, <1>3, <2>4, <2>5, <2>6 DEF FollowedBy
  <2> QED BY <1>1, <2>4, <2>6, <2>7
<1>4. ASSUME NEW n \in Others, n \notin Members(c[n]), d = [c EXCEPT ![n] = <<>>], k = l
      PROVE  FollowedBy(k, d) /\ \A m \in Others : m \in Members(c[m]) => Begins(c[m], d[m])
  <2>1. Begins(<<>>, l) /\ MayKnow(n, <<>>)
    BY <1>1 DEF Begins, MayKnow
  <2> QED BY <1>1, <1>4, <2>1 DEF FollowedBy
<1>5. CASE k = l /\ d = c
  BY <1>1, <1>5 DEF FollowedBy
<1> QED BY <1>2, <1>3, <1>4, <1>5 DEF LogStep

LEMMA InitFollowed == GL!Init => FollowedBy(Log, Copies)
<1> SUFFICES ASSUME GL!Init PROVE FollowedBy(Log, Copies)
  OBVIOUS
<1>1. Log = <<Create>> /\ Copies = [n \in Others |-> <<>>]
  BY SameChains DEF GL!Init, Copies
<1>2. Create \in Entry
  BY AdminAssumption DEF Create, Entry, Op
<1>3. \A n \in Others : Copies[n] = <<>> /\ Begins(<<>>, Log) /\ MayKnow(n, <<>>)
  BY <1>1, <1>2 DEF Begins, MayKnow
<1> QED BY <1>1, <1>2, <1>3 DEF FollowedBy

LEMMA LogInvariance == GL!Spec => []FollowedBy(Log, Copies)
<1>1. FollowedBy(Log, Copies) /\ [GL!Next]_(GL!logVars) => FollowedBy(Log, Copies)'
  <2> SUFFICES ASSUME FollowedBy(Log, Copies), [GL!Next]_(GL!logVars)
               PROVE  FollowedBy(Log', Copies')
    BY DEF FollowedBy, Others
  <2>1. LogStep(Log, Copies, Log', Copies')
    BY LogSteps
  <2> QED BY <2>1, LogStepFollows
<1> QED BY <1>1, InitFollowed, PTL DEF GL!Spec

(***************************************************************************)
(* Whatever the admin writes and in whatever portions its peers catch up,  *)
(* every copy begins the log and ends within its holder's membership       *)
(* (serve, put).                                                           *)
(***************************************************************************)
THEOREM LogFollowed == GL!Spec => []GL!Followed
<1>1. FollowedBy(Log, Copies) => GL!Followed
  BY SameChains DEF FollowedBy, Copies, GL!Followed
<1> QED BY <1>1, LogInvariance, PTL

(***************************************************************************)
(* No two peers of a group hold histories that contradict each other.      *)
(***************************************************************************)
THEOREM CopiesNeverFork == Spec => []GL!CopiesAgree
<1>1. FollowedBy(Log, Copies) => GL!CopiesAgree
  <2> SUFFICES ASSUME FollowedBy(Log, Copies), NEW n \in Others, NEW m \in Others
               PROVE  Begins(Copies[n], Copies[m]) \/ Begins(Copies[m], Copies[n])
    BY SameChains DEF Copies, GL!CopiesAgree
  <2>1. PICK a \in Seq(Entry), b \in Seq(Entry), c \in Seq(Entry) :
          a = Copies[n] /\ b = Copies[m] /\ c = Log
    BY DEF FollowedBy
  <2>2. Begins(a, c) /\ Begins(b, c)
    BY <2>1 DEF FollowedBy
  <2>3. CASE Len(a) <= Len(b) BY <2>1, <2>2, <2>3 DEF Begins
  <2>4. CASE Len(b) <= Len(a) BY <2>1, <2>2, <2>4 DEF Begins
  <2> QED BY <2>3, <2>4
<1> QED BY <1>1, LogInvariance, SyncFollowsLog, PTL DEF FollowsLog

(***************************************************************************)
(* No step takes an entry from a peer that is a member by its own copy     *)
(* (MembersKeepTheirs of GroupLog).                                        *)
(***************************************************************************)
KeepTheirs == \A n \in Others : n \in Members(Copies[n]) => Begins(Copies[n], Copies'[n])

THEOREM MembersKeep == Spec => [][KeepTheirs]_Copies
<1>1. FollowedBy(Log, Copies) /\ [GL!Next]_(GL!logVars) => [KeepTheirs]_Copies
  <2> SUFFICES ASSUME FollowedBy(Log, Copies), [GL!Next]_(GL!logVars)
               PROVE  KeepTheirs
    OBVIOUS
  <2>1. LogStep(Log, Copies, Log', Copies')
    BY LogSteps
  <2> QED BY <2>1, LogStepFollows DEF KeepTheirs
<1> QED BY <1>1, LogInvariance, SyncFollowsLog, PTL DEF FollowsLog, GL!Spec

=============================================================================
