---------------------- MODULE VusbWindowsClientProofs ----------------------
(***************************************************************************)
(* Proofs about the Windows client, for every number of devices, slots,    *)
(* interfaces and URBs and for every configuration a device may have: what *)
(* the loops over descriptors compute, the table of captured devices and   *)
(* what an attach request carries (VusbDescriptors), and the session whose *)
(* two threads share a stream (VusbClient).                                *)
(***************************************************************************)
EXTENDS VusbDescriptors, VusbClient, FiniteSetTheorems, SequenceTheorems, TLAPS

----------------------------------------------------------------------------
(* The loops are recursive functions of the number of rounds.  That such a *)
(* function exists, and what it computes, is shown by looking at the       *)
(* smallest number of rounds for which it fails.                           *)

\* A set of natural numbers has a smallest element.
LEMMA SmallestNumber ==
    ASSUME NEW T, T \subseteq Nat, T # {}
    PROVE  \E n \in T : \A m \in T : n <= m
<1>1. PICK R : R = OpToRel(<, Nat)
  OBVIOUS
<1>2. IsWellFoundedOn(R, Nat)
  BY <1>1, NatLessThanWellFounded
<1>3. PICK x \in T : \A y \in T : ~ (<<y, x>> \in R)
  BY <1>2, WFMin
<1>4. \A y \in T : <<y, x>> \in R <=> y < x
  BY <1>1 DEF OpToRel
<1>5. \A y \in T : ~(y < x) /\ y \in Nat /\ x \in Nat
  BY <1>3, <1>4
<1>6. \A y \in T : x <= y
  BY <1>5
<1>. QED
  BY <1>6

\* Positions of one type, counted.
TypeCount(n, ds, type) == Cardinality({q \in 1..n : ds[q].type = type})

\* One more position adds one to the count when it is of that type.
LEMMA TypeCountStep ==
    ASSUME NEW ds, NEW type, NEW n \in Nat
    PROVE  /\ TypeCount(0, ds, type) = 0
           /\ TypeCount(n, ds, type) \in Nat
           /\ ds[n + 1].type = type => TypeCount(n + 1, ds, type) = TypeCount(n, ds, type) + 1
           /\ ds[n + 1].type # type => TypeCount(n + 1, ds, type) = TypeCount(n, ds, type)
<1>1. PICK A : A = {q \in 1..n : ds[q].type = type}
  OBVIOUS
<1>2. PICK B : B = {q \in 1..(n + 1) : ds[q].type = type}
  OBVIOUS
<1>3. IsFiniteSet(A) /\ Cardinality(A) \in Nat
  <2>1. 1 \in Int /\ n \in Int
    OBVIOUS
  <2>2. IsFiniteSet(1..n)
    BY <2>1, FS_Interval
  <2>3. A \in SUBSET (1..n)
    BY <1>1
  <2>4. IsFiniteSet(A)
    BY <2>2, <2>3, FS_Subset
  <2>. QED
    BY <2>4, FS_CardinalityType
<1>4. 1..(n + 1) = (1..n) \cup {n + 1} /\ n + 1 \notin 1..n
  OBVIOUS
<1>5. ds[n + 1].type = type => B = A \cup {n + 1} /\ n + 1 \notin A
  BY <1>1, <1>2, <1>4
<1>6. ds[n + 1].type # type => B = A
  BY <1>1, <1>2, <1>4
<1>7. ds[n + 1].type = type => Cardinality(B) = Cardinality(A) + 1
  BY <1>3, <1>5, FS_AddElement
<1>8. {q \in 1..0 : ds[q].type = type} = {}
  OBVIOUS
<1>9. TypeCount(0, ds, type) = 0
  BY <1>8, FS_EmptySet DEF TypeCount
<1>. QED
  BY <1>1, <1>2, <1>3, <1>6, <1>7, <1>9 DEF TypeCount

----------------------------------------------------------------------------
(* The search for a descriptor.                                            *)

\* The search is the loop that its equation describes.
LEMMA SearchLoopDef ==
    ASSUME NEW ds \in Seq(Descriptor), NEW setup
    PROVE  SearchLoop(ds, setup) =
             [n \in 0..Len(ds) |->
                IF n = 0 THEN [descIndex |-> setup.index, found |-> <<>>]
                ELSE SearchDescriptor(setup, SearchLoop(ds, setup)[n - 1], ds[n])]
<1> DEFINE Loop(f, k) == f = [n \in 0..k |->
                                IF n = 0 THEN [descIndex |-> setup.index, found |-> <<>>]
                                ELSE SearchDescriptor(setup, f[n - 1], ds[n])]
           T == {k \in Nat : ~ \E f : Loop(f, k)}
<1>1. ASSUME NEW k \in Nat PROVE \E f : Loop(f, k)
  <2>1. SUFFICES ASSUME T # {} PROVE FALSE
    OBVIOUS
  <2>2. PICK m \in T : \A j \in T : m <= j
    BY <2>1, SmallestNumber
  <2>3. m \in Nat /\ ~ \E f : Loop(f, m)
    BY <2>2
  <2>4. PICK first : first = [descIndex |-> setup.index, found |-> <<>>]
    OBVIOUS
  <2>5. m # 0
    <3>1. SUFFICES ASSUME m = 0 PROVE Loop([n \in 0..0 |-> first], 0)
      BY <2>3
    <3>. QED
      BY <2>4
  <2>6. m - 1 \in Nat /\ m - 1 \notin T
    <3>1. m - 1 \in Nat /\ ~(m <= m - 1)
      BY <2>3, <2>5
    <3>. QED
      BY <2>2, <3>1
  <2>7. PICK g : Loop(g, m - 1)
    BY <2>6
  <2>8. PICK h : h = [n \in 0..m |-> IF n < m THEN g[n] ELSE SearchDescriptor(setup, g[m - 1], ds[m])]
    OBVIOUS
  <2>9. ASSUME NEW n \in 0..m
        PROVE  h[n] = IF n = 0 THEN first ELSE SearchDescriptor(setup, h[n - 1], ds[n])
    <3>1. CASE n = m
      BY <2>3, <2>5, <2>8, <3>1
    <3>2. CASE n # m
      BY <2>3, <2>4, <2>7, <2>8, <3>2
    <3>. QED
      BY <3>1, <3>2
  <2>10. Loop(h, m)
    BY <2>4, <2>8, <2>9
  <2>. QED
    BY <2>3, <2>10
<1>2. PICK f : Loop(f, Len(ds))
  BY <1>1
<1>3. SearchLoop(ds, setup) = CHOOSE g : Loop(g, Len(ds))
  BY DEF SearchLoop
<1>4. Loop(CHOOSE g : Loop(g, Len(ds)), Len(ds))
  <2> HIDE DEF Loop
  <2>. QED
    BY <1>2
<1>. QED
  BY <1>3, <1>4

\* What the request for the descriptor at position p is answered with.
AnswerAt(p, ds, setup) ==
    <<[descriptor |-> ds[p],
       length |-> IF Size(ds[p]) <= setup.wLength THEN Size(ds[p]) ELSE setup.wLength]>>

\* The state of the search after n rounds: it has found the descriptor asked
\* for, or that one is not among the first n and descIndex has been lowered by
\* the descriptors of the type that are.
SearchState(acc, n, ds, setup) ==
    \/ \E p \in 1..n : IsAsked(p, ds, setup) /\ acc.found = AnswerAt(p, ds, setup)
    \/ /\ \A p \in 1..n : ~IsAsked(p, ds, setup)
       /\ \E k \in Nat : /\ acc = [descIndex |-> k, found |-> <<>>]
                         /\ k + TypeCount(n, ds, setup.type) = setup.index

\* One round of the search.
LEMMA SearchRound ==
    ASSUME NEW ds \in Seq(Descriptor), NEW setup, setup.wLength \in Nat, setup.index \in Nat,
           NEW n \in Nat, n + 1 \in 1..Len(ds), NEW acc, SearchState(acc, n, ds, setup)
    PROVE  SearchState(SearchDescriptor(setup, acc, ds[n + 1]), n + 1, ds, setup)
<1>1. PICK d \in Descriptor : d = ds[n + 1]
  OBVIOUS
<1>2. 1..(n + 1) = (1..n) \cup {n + 1}
  OBVIOUS
<1>3. CASE \E p \in 1..n : IsAsked(p, ds, setup) /\ acc.found = AnswerAt(p, ds, setup)
  <2>1. PICK p \in 1..n : IsAsked(p, ds, setup) /\ acc.found = AnswerAt(p, ds, setup)
    BY <1>3
  <2>2. acc.found # <<>>
    <3>1. PICK x : acc.found = <<x>>
      BY <2>1 DEF AnswerAt
    <3>2. <<x>> # <<>>
      OBVIOUS
    <3>. QED
      BY <3>1, <3>2
  <2>3. SearchDescriptor(setup, acc, d) = acc
    BY <2>2 DEF SearchDescriptor
  <2>. QED
    BY <1>1, <1>2, <2>1, <2>3 DEF SearchState
<1>4. ASSUME \A p \in 1..n : ~IsAsked(p, ds, setup), NEW k \in Nat,
             acc = [descIndex |-> k, found |-> <<>>],
             k + TypeCount(n, ds, setup.type) = setup.index
      PROVE  SearchState(SearchDescriptor(setup, acc, d), n + 1, ds, setup)
  <2>1. TypeCount(n, ds, setup.type) \in Nat
    BY TypeCountStep
  <2>2. IsAsked(n + 1, ds, setup) <=> d.type = setup.type /\ k = 0
    <3>1. (n + 1) - 1 = n
      OBVIOUS
    <3>2. IsAsked(n + 1, ds, setup) <=> d.type = setup.type /\ TypeCount(n, ds, setup.type) = setup.index
      BY <1>1, <3>1 DEF IsAsked, TypeCount
    <3>. QED
      BY <1>4, <2>1, <3>2
  <2>3. CASE d.type # setup.type
    <3>1. SearchDescriptor(setup, acc, d) = acc
      BY <2>3 DEF SearchDescriptor
    <3>2. TypeCount(n + 1, ds, setup.type) = TypeCount(n, ds, setup.type)
      BY <1>1, <2>3, TypeCountStep
    <3>. QED
      BY <1>2, <1>4, <2>2, <2>3, <3>1, <3>2 DEF SearchState
  <2>4. CASE d.type = setup.type /\ k = 0
    <3>1. Size(d) \in Nat
      BY DEF Size
    <3>2. (IF Size(d) > setup.wLength THEN setup.wLength ELSE Size(d))
             = IF Size(d) <= setup.wLength THEN Size(d) ELSE setup.wLength
      BY <3>1
    <3>3. SearchDescriptor(setup, acc, d).found = AnswerAt(n + 1, ds, setup)
      BY <1>1, <1>4, <2>4, <3>2 DEF SearchDescriptor, AnswerAt
    <3>. QED
      BY <1>2, <2>2, <2>4, <3>3 DEF SearchState
  <2>5. CASE d.type = setup.type /\ k # 0
    <3>1. SearchDescriptor(setup, acc, d) = [descIndex |-> k - 1, found |-> <<>>]
      BY <1>4, <2>5 DEF SearchDescriptor
    <3>2. TypeCount(n + 1, ds, setup.type) = TypeCount(n, ds, setup.type) + 1
      BY <1>1, <2>5, TypeCountStep
    <3>3. k - 1 \in Nat /\ (k - 1) + TypeCount(n + 1, ds, setup.type) = setup.index
      BY <1>4, <2>1, <2>5, <3>2
    <3>4. \A p \in 1..(n + 1) : ~IsAsked(p, ds, setup)
      BY <1>2, <1>4, <2>2, <2>5
    <3>. QED
      BY <3>1, <3>3, <3>4 DEF SearchState
  <2>. QED
    BY <2>3, <2>4, <2>5
<1>. QED
  BY <1>1, <1>3, <1>4 DEF SearchState

(***************************************************************************)
(* Whatever descriptors are stored, in whatever order, HandleStandard-     *)
(* Request returns descriptor number index of the type asked for, cut to   *)
(* wLength, or nothing when there are not as many.                         *)
(***************************************************************************)
THEOREM SearchFindsDescriptor ==
    ASSUME NEW ds \in Seq(Descriptor), NEW setup, setup.wLength \in Nat, setup.index \in Nat
    PROVE  AnswersRequest(HandleGetDescriptor(ds, setup), ds, setup)
<1>1. PICK f : f = SearchLoop(ds, setup)
  OBVIOUS
<1>2. /\ f[0] = [descIndex |-> setup.index, found |-> <<>>]
      /\ \A n \in 1..Len(ds) : f[n] = SearchDescriptor(setup, f[n - 1], ds[n])
  <2>1. f = [n \in 0..Len(ds) |->
                IF n = 0 THEN [descIndex |-> setup.index, found |-> <<>>]
                ELSE SearchDescriptor(setup, f[n - 1], ds[n])]
    BY <1>1, SearchLoopDef
  <2>2. Len(ds) \in Nat
    OBVIOUS
  <2>. QED
    BY <2>1, <2>2
<1> DEFINE T == {n \in 0..Len(ds) : ~SearchState(f[n], n, ds, setup)}
<1>3. T = {}
  <2>1. SUFFICES ASSUME T # {} PROVE FALSE
    OBVIOUS
  <2>2. PICK m \in T : \A j \in T : m <= j
    <3>1. T \subseteq Nat
      OBVIOUS
    <3>. QED
      BY <2>1, <3>1, SmallestNumber
  <2>3. m \in 0..Len(ds) /\ ~SearchState(f[m], m, ds, setup)
    BY <2>2
  <2>4. m # 0
    <3>1. TypeCount(0, ds, setup.type) = 0
      BY TypeCountStep
    <3>2. SearchState(f[0], 0, ds, setup)
      BY <1>2, <3>1 DEF SearchState
    <3>. QED
      BY <2>3, <3>2
  <2>5. PICK n \in Nat : m = n + 1
    BY <2>3, <2>4
  <2>6. n \in 0..Len(ds) /\ n \notin T
    BY <2>2, <2>3, <2>5
  <2>7. SearchState(f[n], n, ds, setup)
    BY <2>6
  <2>8. f[n + 1] = SearchDescriptor(setup, f[n], ds[n + 1]) /\ n + 1 \in 1..Len(ds)
    BY <1>2, <2>3, <2>5
  <2>. QED
    BY <2>3, <2>5, <2>7, <2>8, SearchRound
<1>4. Len(ds) \in Nat /\ DOMAIN ds = 1..Len(ds)
  OBVIOUS
<1>5. SearchState(f[Len(ds)], Len(ds), ds, setup)
  BY <1>3, <1>4
<1>6. HandleGetDescriptor(ds, setup) = f[Len(ds)].found
  BY <1>1 DEF HandleGetDescriptor
<1>7. CASE \E p \in 1..Len(ds) : IsAsked(p, ds, setup) /\ f[Len(ds)].found = AnswerAt(p, ds, setup)
  BY <1>4, <1>6, <1>7 DEF AnswersRequest, AnswerAt
<1>8. ASSUME \A p \in 1..Len(ds) : ~IsAsked(p, ds, setup), NEW k, f[Len(ds)] = [descIndex |-> k, found |-> <<>>]
      PROVE  AnswersRequest(HandleGetDescriptor(ds, setup), ds, setup)
  <2>1. HandleGetDescriptor(ds, setup) = <<>>
    BY <1>6, <1>8
  <2>. QED
    BY <1>4, <1>8, <2>1 DEF AnswersRequest
<1>. QED
  BY <1>5, <1>7, <1>8 DEF SearchState

----------------------------------------------------------------------------
(* The parsing of a configuration.                                         *)

\* A nonempty set of positions has a last one.
LEMMA LastPosition ==
    ASSUME NEW N \in Nat, NEW P, P \subseteq 1..N, P # {}
    PROVE  \E p \in P : \A q \in P : q <= p
<1>1. PICK T : T = {m \in Nat : N - m \in P}
  OBVIOUS
<1>2. \A p \in P : N - p \in T
  <2>1. SUFFICES ASSUME NEW p \in P PROVE N - p \in Nat /\ N - (N - p) = p
    BY <1>1
  <2>. QED
    BY <2>1
<1>3. T # {} /\ T \subseteq Nat
  BY <1>1, <1>2
<1>4. PICK m \in T : \A j \in T : m <= j
  BY <1>3, SmallestNumber
<1>5. N - m \in P /\ m \in Nat
  BY <1>1, <1>4
<1>6. ASSUME NEW q \in P PROVE q <= N - m
  <2>1. m <= N - q /\ q \in Nat
    BY <1>2, <1>4
  <2>. QED
    BY <1>5, <2>1
<1>. QED
  BY <1>5, <1>6

\* One more position is one more endpoint, or not.
LEMMA EndpointNumberStep ==
    ASSUME NEW c, NEW p \in Nat, NEW n \in Nat, p <= n
    PROVE  /\ EndpointNumber(p, p, c) = 0
           /\ EndpointNumber(n, p, c) \in Nat
           /\ c[n + 1].type = "ENDPOINT" => EndpointNumber(n + 1, p, c) = EndpointNumber(n, p, c) + 1
           /\ c[n + 1].type # "ENDPOINT" => EndpointNumber(n + 1, p, c) = EndpointNumber(n, p, c)
<1>1. PICK A : A = {x \in (p + 1)..n : c[x].type = "ENDPOINT"}
  OBVIOUS
<1>2. PICK B : B = {x \in (p + 1)..(n + 1) : c[x].type = "ENDPOINT"}
  OBVIOUS
<1>3. IsFiniteSet(A) /\ Cardinality(A) \in Nat
  <2>1. p + 1 \in Int /\ n \in Int
    OBVIOUS
  <2>2. IsFiniteSet((p + 1)..n)
    BY <2>1, FS_Interval
  <2>3. A \in SUBSET ((p + 1)..n)
    BY <1>1
  <2>4. IsFiniteSet(A)
    BY <2>2, <2>3, FS_Subset
  <2>. QED
    BY <2>4, FS_CardinalityType
<1>4. (p + 1)..(n + 1) = ((p + 1)..n) \cup {n + 1} /\ n + 1 \notin (p + 1)..n
  OBVIOUS
<1>5. c[n + 1].type = "ENDPOINT" => B = A \cup {n + 1} /\ n + 1 \notin A
  BY <1>1, <1>2, <1>4
<1>6. c[n + 1].type # "ENDPOINT" => B = A
  BY <1>1, <1>2, <1>4
<1>7. c[n + 1].type = "ENDPOINT" => Cardinality(B) = Cardinality(A) + 1
  BY <1>3, <1>5, FS_AddElement
<1>8. {x \in (p + 1)..p : c[x].type = "ENDPOINT"} = {}
  OBVIOUS
<1>9. EndpointNumber(p, p, c) = 0
  BY <1>8, FS_EmptySet DEF EndpointNumber
<1>. QED
  BY <1>1, <1>2, <1>3, <1>6, <1>7, <1>9 DEF EndpointNumber

\* An endpoint is the first, second, ... of its interface descriptor.
LEMMA EndpointNumberPositive ==
    ASSUME NEW c, NEW p \in Nat, NEW e \in Nat, EndpointOf(e, p, c)
    PROVE  EndpointNumber(e, p, c) \in Nat \ {0}
<1>1. PICK n \in Nat : e = n + 1 /\ p <= n
  <2>1. p < e
    BY DEF EndpointOf
  <2>2. e - 1 \in Nat /\ p <= e - 1 /\ e = (e - 1) + 1
    BY <2>1
  <2>. QED
    BY <2>2
<1>2. c[n + 1].type = "ENDPOINT"
  BY <1>1 DEF EndpointOf
<1>3. EndpointNumber(n, p, c) \in Nat /\ EndpointNumber(n + 1, p, c) = EndpointNumber(n, p, c) + 1
  BY <1>1, <1>2, EndpointNumberStep
<1>. QED
  BY <1>1, <1>3

Interfaces == 0..(MaxInterfaces - 1)

ParserType == [current: 0..MaxInterfaces, endpoint: 0..MaxEndpoints,
               Interfaces: [Interfaces -> InterfaceType]]

\* Position p describes interface i; it is one that the table has room for.
Describes(p, i, c) == c[p].type = "INTERFACE" /\ c[p].id = i
Kept(p, c) == c[p].type = "INTERFACE" /\ c[p].id < MaxInterfaces

\* What the table says of interface i after n descriptors: as before when none
\* described it, else the last setting and its endpoints so far.
EntryState(iface, i, n, c, before) ==
    /\ (\A p \in 1..n : ~Describes(p, i, c)) => iface = before[i]
    /\ \A p \in 1..n :
          (Describes(p, i, c) /\ \A q \in (p + 1)..n : ~Describes(q, i, c)) =>
             /\ iface.AlternateSetting = c[p].alt
             /\ iface.NumEndpoints = c[p].eps
             /\ \A e \in 1..n :
                   (EndpointOf(e, p, c) /\ EndpointNumber(e, p, c) <= MaxEndpoints) =>
                      iface.Endpoints[EndpointNumber(e, p, c)] = c[e].id

\* Where the parser is after n descriptors.  q is the last interface descriptor
\* that it has kept; endpoint has passed all endpoints of q so far, and is their
\* number as long as no other interface descriptor has come.
CurrentAt(q, acc, n, c) ==
    /\ Kept(q, c)
    /\ acc.current = c[q].id
    /\ \A x \in (q + 1)..n : ~Kept(x, c)
    /\ \A e \in 1..n : EndpointOf(e, q, c) =>
          EndpointNumber(e, q, c) <= acc.endpoint \/ EndpointNumber(e, q, c) > MaxEndpoints
    /\ (\A x \in (q + 1)..n : c[x].type # "INTERFACE") =>
          acc.endpoint = IF EndpointNumber(n, q, c) <= MaxEndpoints
                         THEN EndpointNumber(n, q, c) ELSE MaxEndpoints
CurrentState(acc, n, c) ==
    \/ acc.current = MaxInterfaces /\ \A p \in 1..n : ~Kept(p, c)
    \/ \E q \in 1..n : CurrentAt(q, acc, n, c)

ParseState(acc, n, c, before) ==
    /\ acc \in ParserType
    /\ \A i \in Interfaces : EntryState(acc.Interfaces[i], i, n, c, before)
    /\ CurrentState(acc, n, c)

\* A round with an interface descriptor that is kept.
LEMMA ParseInterface ==
    ASSUME NEW c \in Seq(Descriptor), NEW n \in Nat, n + 1 \in 1..Len(c), NEW before,
           NEW acc, ParseState(acc, n, c, before), Kept(n + 1, c)
    PROVE  ParseState(ParseDescriptor(acc, c[n + 1]), n + 1, c, before)
<1>1. PICK d \in Descriptor : d = c[n + 1]
  OBVIOUS
<1>2. d.type = "INTERFACE" /\ d.id \in Interfaces /\ MaxInterfaces \in Nat /\ MaxEndpoints \in Nat
  <2>1. MaxInterfaces \in Nat /\ MaxEndpoints \in Nat
    BY DescriptorAssumption
  <2>2. d.type = "INTERFACE" /\ d.id < MaxInterfaces
    BY <1>1 DEF Kept
  <2>3. d.id \in Nat
    BY <1>1 DEF Descriptor
  <2>4. d.id \in Interfaces
    BY <2>1, <2>2, <2>3 DEF Interfaces
  <2>. QED
    BY <2>1, <2>2, <2>4
<1>3. PICK r : r = ParseDescriptor(acc, d)
  OBVIOUS
<1>4. acc \in ParserType /\ acc.Interfaces \in [Interfaces -> InterfaceType]
  BY DEF ParseState, ParserType
<1>5. PICK old \in InterfaceType : old = acc.Interfaces[d.id]
  BY <1>2, <1>4
<1>6. PICK new \in InterfaceType : new = [AlternateSetting |-> d.alt, NumEndpoints |-> d.eps, Endpoints |-> old.Endpoints]
  BY <1>5 DEF InterfaceType, Descriptor
<1>8. r = [current |-> d.id, endpoint |-> 0, Interfaces |-> [acc.Interfaces EXCEPT ![d.id] = new]]
  BY <1>1, <1>2, <1>3, <1>4, <1>5, <1>6 DEF ParseDescriptor, Kept
<1>9. /\ r.current = d.id /\ r.endpoint = 0 /\ r.Interfaces \in [Interfaces -> InterfaceType]
      /\ \A i \in Interfaces : r.Interfaces[i] = IF i = d.id THEN new ELSE acc.Interfaces[i]
  BY <1>2, <1>4, <1>8
<1>10. r \in ParserType
  BY <1>2, <1>8, <1>9 DEF ParserType, Interfaces
<1>11. 1..(n + 1) = (1..n) \cup {n + 1}
  OBVIOUS
<1>12. \A e \in 1..(n + 1) : \A p \in 1..(n + 1) : EndpointOf(e, p, c) => e \in 1..n /\ p \in 1..n
  <2>1. SUFFICES ASSUME NEW e \in 1..(n + 1), NEW p \in 1..(n + 1), EndpointOf(e, p, c) PROVE e # n + 1 /\ p # n + 1
    BY <1>11
  <2>2. p < e /\ c[e].type = "ENDPOINT"
    BY <2>1 DEF EndpointOf
  <2>. QED
    BY <1>1, <1>2, <2>2
<1>13. ASSUME NEW i \in Interfaces, i # d.id PROVE EntryState(r.Interfaces[i], i, n + 1, c, before)
  <2>1. r.Interfaces[i] = acc.Interfaces[i] /\ EntryState(acc.Interfaces[i], i, n, c, before)
    BY <1>9, <1>13 DEF ParseState
  <2>2. ~Describes(n + 1, i, c)
    BY <1>1, <1>13 DEF Describes
  <2>3. ASSUME NEW p \in 1..(n + 1), Describes(p, i, c), \A q \in (p + 1)..(n + 1) : ~Describes(q, i, c)
        PROVE  p \in 1..n /\ \A q \in (p + 1)..n : ~Describes(q, i, c)
    <3>1. p # n + 1
      BY <2>2, <2>3
    <3>. QED
      BY <2>3, <3>1
  <2>. QED
    BY <1>11, <1>12, <2>1, <2>2, <2>3 DEF EntryState
<1>14. EntryState(r.Interfaces[d.id], d.id, n + 1, c, before)
  <2>1. Describes(n + 1, d.id, c)
    BY <1>1, <1>2 DEF Describes
  <2>2. ASSUME NEW p \in 1..(n + 1), \A q \in (p + 1)..(n + 1) : ~Describes(q, d.id, c)
        PROVE  p = n + 1
    BY <2>1, <2>2
  <2>3. r.Interfaces[d.id].AlternateSetting = d.alt /\ r.Interfaces[d.id].NumEndpoints = d.eps
    BY <1>2, <1>6, <1>9
  <2>4. \A e \in 1..(n + 1) : ~EndpointOf(e, n + 1, c)
    BY <1>12
  <2>. QED
    BY <1>1, <1>11, <2>1, <2>2, <2>3, <2>4 DEF EntryState
<1>15. CurrentAt(n + 1, r, n + 1, c)
  <2>1. EndpointNumber(n + 1, n + 1, c) = 0
    BY EndpointNumberStep
  <2>2. \A e \in 1..(n + 1) : ~EndpointOf(e, n + 1, c)
    BY <1>12
  <2>3. (n + 1 + 1)..(n + 1) = {}
    OBVIOUS
  <2>. QED
    BY <1>1, <1>2, <1>9, <2>1, <2>2, <2>3 DEF CurrentAt
<1>. QED
  BY <1>1, <1>3, <1>10, <1>13, <1>14, <1>15 DEF ParseState, CurrentState

\* An endpoint that belongs to a kept interface belongs to the current one.
LEMMA EndpointIsCurrent ==
    ASSUME NEW c, NEW n \in Nat, NEW acc, NEW q \in 1..n, CurrentAt(q, acc, n, c),
           NEW i \in Interfaces, NEW p \in 1..n, Describes(p, i, c), EndpointOf(n + 1, p, c)
    PROVE  p = q
<1>1. Kept(p, c) /\ Kept(q, c)
  BY DescriptorAssumption DEF Describes, Kept, Interfaces, CurrentAt
<1>2. ~(q > p)
  BY <1>1 DEF EndpointOf, Kept
<1>3. ~(p > q)
  BY <1>1 DEF CurrentAt
<1>. QED
  BY <1>2, <1>3

\* The last descriptor of the current interface is the current one.
LEMMA LastIsCurrent ==
    ASSUME NEW c, NEW n \in Nat, NEW acc, NEW q \in 1..n, CurrentAt(q, acc, n, c),
           NEW p \in 1..n, Describes(p, acc.current, c), \A x \in (p + 1)..n : ~Describes(x, acc.current, c)
    PROVE  p = q
<1>1. Kept(p, c) /\ Describes(q, acc.current, c)
  BY DEF Describes, Kept, CurrentAt
<1>2. ~(q > p)
  BY <1>1
<1>3. ~(p > q)
  BY <1>1 DEF CurrentAt
<1>. QED
  BY <1>2, <1>3

\* As long as no other interface descriptor has come, endpoint tells the number
\* of the next endpoint.
LEMMA NextEndpoint ==
    ASSUME NEW c, NEW n \in Nat, NEW acc \in ParserType, NEW q \in 1..n, CurrentAt(q, acc, n, c),
           c[n + 1].type = "ENDPOINT", \A x \in (q + 1)..(n + 1) : c[x].type # "INTERFACE"
    PROVE  /\ acc.endpoint < MaxEndpoints => EndpointNumber(n + 1, q, c) = acc.endpoint + 1
           /\ acc.endpoint >= MaxEndpoints => EndpointNumber(n + 1, q, c) > MaxEndpoints
<1>0. q \in Nat /\ q <= n
  OBVIOUS
<1>1. PICK k \in Nat : k = EndpointNumber(n, q, c)
  BY <1>0, EndpointNumberStep
<1>2. EndpointNumber(n + 1, q, c) = k + 1
  BY <1>0, <1>1, EndpointNumberStep
<1>3. acc.endpoint = IF k <= MaxEndpoints THEN k ELSE MaxEndpoints
  BY <1>1 DEF CurrentAt
<1>4. MaxEndpoints \in Nat
  BY DescriptorAssumption
<1>. QED
  BY <1>2, <1>3, <1>4

\* A round that describes no interface and may add an endpoint to one.
LEMMA EntryStep ==
    ASSUME NEW c, NEW n \in Nat, NEW before, NEW i \in Interfaces, NEW old, NEW new,
           EntryState(old, i, n, c, before), ~Describes(n + 1, i, c),
           (\A p \in 1..n : ~Describes(p, i, c)) => new = old,
           new.AlternateSetting = old.AlternateSetting, new.NumEndpoints = old.NumEndpoints,
           \A p \in 1..n : (Describes(p, i, c) /\ \A q \in (p + 1)..n : ~Describes(q, i, c)) =>
              /\ \A e \in 1..n :
                    (EndpointOf(e, p, c) /\ EndpointNumber(e, p, c) <= MaxEndpoints) =>
                       new.Endpoints[EndpointNumber(e, p, c)] = old.Endpoints[EndpointNumber(e, p, c)]
              /\ (EndpointOf(n + 1, p, c) /\ EndpointNumber(n + 1, p, c) <= MaxEndpoints) =>
                    new.Endpoints[EndpointNumber(n + 1, p, c)] = c[n + 1].id
    PROVE  EntryState(new, i, n + 1, c, before)
<1>1. 1..(n + 1) = (1..n) \cup {n + 1}
  OBVIOUS
<1>2. (\A p \in 1..(n + 1) : ~Describes(p, i, c)) => new = before[i]
  BY <1>1 DEF EntryState
<1>3. ASSUME NEW p \in 1..(n + 1), Describes(p, i, c), \A q \in (p + 1)..(n + 1) : ~Describes(q, i, c)
      PROVE  /\ new.AlternateSetting = c[p].alt
             /\ new.NumEndpoints = c[p].eps
             /\ \A e \in 1..(n + 1) :
                   (EndpointOf(e, p, c) /\ EndpointNumber(e, p, c) <= MaxEndpoints) =>
                      new.Endpoints[EndpointNumber(e, p, c)] = c[e].id
  <2>1. p \in 1..n /\ \A q \in (p + 1)..n : ~Describes(q, i, c)
    <3>1. p # n + 1
      BY <1>3
    <3>. QED
      BY <1>3, <3>1
  <2>. QED
    BY <1>1, <1>3, <2>1 DEF EntryState
<1>. QED
  BY <1>2, <1>3 DEF EntryState

\* A round with an endpoint descriptor that is added to the current interface.
LEMMA ParseEndpoint ==
    ASSUME NEW c \in Seq(Descriptor), NEW n \in Nat, n + 1 \in 1..Len(c), NEW before,
           NEW acc, ParseState(acc, n, c, before),
           c[n + 1].type = "ENDPOINT", acc.current < MaxInterfaces, acc.endpoint < MaxEndpoints
    PROVE  ParseState(ParseDescriptor(acc, c[n + 1]), n + 1, c, before)
<1>1. PICK d \in Descriptor : d = c[n + 1]
  OBVIOUS
<1>2. MaxInterfaces \in Nat /\ MaxEndpoints \in Nat /\ d.id \in Nat /\ d.type = "ENDPOINT"
  BY <1>1, DescriptorAssumption DEF Descriptor
<1>3. PICK r : r = ParseDescriptor(acc, d)
  OBVIOUS
<1>4. /\ acc \in ParserType /\ acc.Interfaces \in [Interfaces -> InterfaceType]
      /\ acc.current \in Interfaces /\ acc.endpoint \in Nat /\ acc.endpoint + 1 \in 1..MaxEndpoints
  BY <1>2 DEF ParseState, ParserType, Interfaces
<1>5. PICK q \in 1..n : CurrentAt(q, acc, n, c)
  BY <1>2 DEF ParseState, CurrentState
<1>6. PICK old \in InterfaceType : old = acc.Interfaces[acc.current]
  BY <1>4
<1>7. PICK new : new = [old EXCEPT !.Endpoints[acc.endpoint + 1] = d.id]
  OBVIOUS
<1>8. /\ new \in InterfaceType
      /\ new.AlternateSetting = old.AlternateSetting /\ new.NumEndpoints = old.NumEndpoints
      /\ new.Endpoints = [old.Endpoints EXCEPT ![acc.endpoint + 1] = d.id]
  BY <1>2, <1>4, <1>6, <1>7 DEF InterfaceType
<1>9. r = [current |-> acc.current, endpoint |-> acc.endpoint + 1,
           Interfaces |-> [acc.Interfaces EXCEPT ![acc.current] = new]]
  BY <1>1, <1>2, <1>3, <1>6, <1>7 DEF ParseDescriptor
<1>10. /\ r.current = acc.current /\ r.endpoint = acc.endpoint + 1
       /\ r.Interfaces \in [Interfaces -> InterfaceType]
       /\ \A i \in Interfaces : r.Interfaces[i] = IF i = acc.current THEN new ELSE acc.Interfaces[i]
  BY <1>4, <1>8, <1>9
<1>11. r \in ParserType
  BY <1>4, <1>8, <1>9, <1>10 DEF ParserType
<1>12. \A i : ~Describes(n + 1, i, c)
  BY <1>1, <1>2 DEF Describes
<1>13. \A p \in 1..n : EndpointOf(n + 1, p, c) => \A x \in (p + 1)..(n + 1) : c[x].type # "INTERFACE"
  BY DEF EndpointOf
<1>14. ASSUME NEW i \in Interfaces, i # acc.current PROVE EntryState(r.Interfaces[i], i, n + 1, c, before)
  <2>1. r.Interfaces[i] = acc.Interfaces[i] /\ EntryState(acc.Interfaces[i], i, n, c, before)
    BY <1>10, <1>14 DEF ParseState
  <2>2. ~Describes(q, i, c)
    BY <1>5, <1>14 DEF Describes, CurrentAt
  <2>3. \A p \in 1..n : Describes(p, i, c) => ~EndpointOf(n + 1, p, c)
    BY <1>5, <2>2, EndpointIsCurrent
  <2>. QED
    BY <1>12, <2>1, <2>3, EntryStep
<1>15. EntryState(r.Interfaces[acc.current], acc.current, n + 1, c, before)
  <2>1. PICK i \in Interfaces : i = acc.current
    BY <1>4
  <2>2. EntryState(old, i, n, c, before) /\ r.Interfaces[i] = new
    BY <1>6, <1>10, <2>1 DEF ParseState
  <2>3. Describes(q, i, c)
    BY <1>5, <2>1 DEF Describes, CurrentAt, Kept
  <2>4. \A p \in 1..n : (Describes(p, i, c) /\ \A x \in (p + 1)..n : ~Describes(x, i, c)) => p = q
    BY <1>5, <2>1, LastIsCurrent
  <2>5. ASSUME NEW e \in 1..n, EndpointOf(e, q, c), EndpointNumber(e, q, c) <= MaxEndpoints
        PROVE  new.Endpoints[EndpointNumber(e, q, c)] = old.Endpoints[EndpointNumber(e, q, c)]
    <3>1. PICK k \in Nat \ {0} : k = EndpointNumber(e, q, c)
      BY <2>5, EndpointNumberPositive
    <3>2. k <= acc.endpoint
      BY <1>2, <1>5, <2>5, <3>1 DEF CurrentAt
    <3>3. k \in 1..MaxEndpoints /\ k # acc.endpoint + 1
      BY <1>2, <1>4, <2>5, <3>1, <3>2
    <3>. QED
      BY <1>8, <3>1, <3>3 DEF InterfaceType
  <2>6. ASSUME EndpointOf(n + 1, q, c)
        PROVE  new.Endpoints[EndpointNumber(n + 1, q, c)] = c[n + 1].id
    <3>1. EndpointNumber(n + 1, q, c) = acc.endpoint + 1
      BY <1>1, <1>2, <1>4, <1>5, <1>13, <2>6, NextEndpoint
    <3>. QED
      BY <1>1, <1>4, <1>6, <1>8, <3>1 DEF InterfaceType
  <2>7. (\A p \in 1..n : ~Describes(p, i, c)) => new = old
    BY <2>3
  <2>8. \A p \in 1..n : (Describes(p, i, c) /\ \A x \in (p + 1)..n : ~Describes(x, i, c)) =>
           /\ \A e \in 1..n :
                 (EndpointOf(e, p, c) /\ EndpointNumber(e, p, c) <= MaxEndpoints) =>
                    new.Endpoints[EndpointNumber(e, p, c)] = old.Endpoints[EndpointNumber(e, p, c)]
           /\ (EndpointOf(n + 1, p, c) /\ EndpointNumber(n + 1, p, c) <= MaxEndpoints) =>
                 new.Endpoints[EndpointNumber(n + 1, p, c)] = c[n + 1].id
    BY <2>4, <2>5, <2>6
  <2>9. EntryState(new, i, n + 1, c, before)
    BY <1>8, <1>12, <2>2, <2>7, <2>8, EntryStep
  <2>. QED
    BY <2>1, <2>2, <2>9
<1>16. CurrentAt(q, r, n + 1, c)
  <2>1. 1..(n + 1) = (1..n) \cup {n + 1} /\ (q + 1)..(n + 1) = ((q + 1)..n) \cup {n + 1}
    OBVIOUS
  <2>2. Kept(q, c) /\ r.current = c[q].id /\ \A x \in (q + 1)..(n + 1) : ~Kept(x, c)
    BY <1>1, <1>2, <1>5, <1>10, <2>1 DEF CurrentAt, Kept
  <2>3. ASSUME NEW e \in 1..n, EndpointOf(e, q, c)
        PROVE  EndpointNumber(e, q, c) <= r.endpoint \/ EndpointNumber(e, q, c) > MaxEndpoints
    <3>1. PICK k \in Nat \ {0} : k = EndpointNumber(e, q, c)
      BY <2>3, EndpointNumberPositive
    <3>2. k <= acc.endpoint \/ k > MaxEndpoints
      BY <1>5, <2>3, <3>1 DEF CurrentAt
    <3>. QED
      BY <1>4, <1>10, <3>1, <3>2
  <2>4. (\A x \in (q + 1)..(n + 1) : c[x].type # "INTERFACE") => EndpointNumber(n + 1, q, c) = r.endpoint
    BY <1>1, <1>2, <1>4, <1>5, <1>10, NextEndpoint
  <2>5. EndpointOf(n + 1, q, c) => EndpointNumber(n + 1, q, c) <= r.endpoint
    BY <1>4, <1>10, <1>13, <2>4
  <2>6. r.endpoint <= MaxEndpoints
    BY <1>4, <1>10
  <2>7. \A e \in 1..(n + 1) : EndpointOf(e, q, c) =>
           EndpointNumber(e, q, c) <= r.endpoint \/ EndpointNumber(e, q, c) > MaxEndpoints
    BY <2>1, <2>3, <2>5
  <2>8. (\A x \in (q + 1)..(n + 1) : c[x].type # "INTERFACE") =>
           r.endpoint = IF EndpointNumber(n + 1, q, c) <= MaxEndpoints
                        THEN EndpointNumber(n + 1, q, c) ELSE MaxEndpoints
    BY <2>4, <2>6
  <2>. QED
    BY <2>2, <2>7, <2>8 DEF CurrentAt
<1>17. q \in 1..(n + 1)
  OBVIOUS
<1>. QED
  BY <1>1, <1>3, <1>11, <1>14, <1>15, <1>16, <1>17 DEF ParseState, CurrentState

\* A round with any other descriptor: of another type, for an interface that
\* the table has no room for, or an endpoint that is not stored.
LEMMA ParseOther ==
    ASSUME NEW c \in Seq(Descriptor), NEW n \in Nat, n + 1 \in 1..Len(c), NEW before,
           NEW acc, ParseState(acc, n, c, before), ~Kept(n + 1, c),
           ~(c[n + 1].type = "ENDPOINT" /\ acc.current < MaxInterfaces /\ acc.endpoint < MaxEndpoints)
    PROVE  ParseState(ParseDescriptor(acc, c[n + 1]), n + 1, c, before)
<1>1. ParseDescriptor(acc, c[n + 1]) = acc
  BY DEF ParseDescriptor, Kept
<1>2. MaxInterfaces \in Nat /\ MaxEndpoints \in Nat
  BY DescriptorAssumption
<1>3. acc \in ParserType /\ acc.current \in 0..MaxInterfaces /\ acc.endpoint \in 0..MaxEndpoints
  BY DEF ParseState, ParserType
<1>4. \A i \in Interfaces : ~Describes(n + 1, i, c)
  BY <1>2 DEF Describes, Kept, Interfaces
<1>5. ASSUME NEW q \in 1..n, CurrentAt(q, acc, n, c), c[n + 1].type = "ENDPOINT",
             \A x \in (q + 1)..(n + 1) : c[x].type # "INTERFACE"
      PROVE  /\ acc.endpoint = MaxEndpoints
             /\ EndpointNumber(n + 1, q, c) > MaxEndpoints
  <2>1. acc.current < MaxInterfaces
    BY <1>5 DEF CurrentAt, Kept
  <2>2. acc.endpoint >= MaxEndpoints
    BY <1>2, <1>3, <1>5, <2>1
  <2>. QED
    BY <1>2, <1>3, <1>5, <2>2, NextEndpoint
<1>6. ASSUME NEW i \in Interfaces PROVE EntryState(acc.Interfaces[i], i, n + 1, c, before)
  <2>1. PICK old : old = acc.Interfaces[i]
    OBVIOUS
  <2>2. EntryState(old, i, n, c, before) /\ ~Describes(n + 1, i, c)
    BY <1>4, <2>1 DEF ParseState
  <2>3. ASSUME NEW p \in 1..n, Describes(p, i, c), EndpointOf(n + 1, p, c)
        PROVE  ~(EndpointNumber(n + 1, p, c) <= MaxEndpoints)
    <3>1. Kept(p, c)
      BY <1>2, <2>3 DEF Describes, Kept, Interfaces
    <3>2. PICK q \in 1..n : CurrentAt(q, acc, n, c)
      BY <3>1 DEF ParseState, CurrentState
    <3>3. p = q
      BY <2>3, <3>2, EndpointIsCurrent
    <3>4. c[n + 1].type = "ENDPOINT" /\ \A x \in (q + 1)..(n + 1) : c[x].type # "INTERFACE"
      BY <2>3, <3>3 DEF EndpointOf
    <3>5. EndpointNumber(n + 1, q, c) > MaxEndpoints
      BY <1>5, <3>2, <3>4
    <3>6. EndpointNumber(n + 1, p, c) \in Nat
      BY <2>3, EndpointNumberPositive
    <3>. QED
      BY <1>2, <3>3, <3>5, <3>6
  <2>4. \A p \in 1..n : (Describes(p, i, c) /\ \A q \in (p + 1)..n : ~Describes(q, i, c)) =>
           /\ \A e \in 1..n :
                 (EndpointOf(e, p, c) /\ EndpointNumber(e, p, c) <= MaxEndpoints) =>
                    old.Endpoints[EndpointNumber(e, p, c)] = old.Endpoints[EndpointNumber(e, p, c)]
           /\ (EndpointOf(n + 1, p, c) /\ EndpointNumber(n + 1, p, c) <= MaxEndpoints) =>
                 old.Endpoints[EndpointNumber(n + 1, p, c)] = c[n + 1].id
    BY <2>3
  <2>5. EntryState(old, i, n + 1, c, before)
    BY <2>2, <2>4, EntryStep
  <2>. QED
    BY <2>1, <2>5
<1>7. CurrentState(acc, n + 1, c)
  <2>1. 1..(n + 1) = (1..n) \cup {n + 1}
    OBVIOUS
  <2>2. CASE acc.current = MaxInterfaces /\ \A p \in 1..n : ~Kept(p, c)
    BY <2>1, <2>2 DEF CurrentState
  <2>3. ASSUME NEW q \in 1..n, CurrentAt(q, acc, n, c) PROVE CurrentAt(q, acc, n + 1, c)
    <3>1. (q + 1)..(n + 1) = ((q + 1)..n) \cup {n + 1} /\ q \in Nat /\ q <= n
      OBVIOUS
    <3>2. \A x \in (q + 1)..(n + 1) : ~Kept(x, c)
      BY <2>3, <3>1 DEF CurrentAt
    <3>3. ASSUME EndpointOf(n + 1, q, c)
          PROVE  EndpointNumber(n + 1, q, c) > MaxEndpoints
      BY <1>5, <2>3, <3>3 DEF EndpointOf
    <3>4. \A e \in 1..(n + 1) : EndpointOf(e, q, c) =>
             EndpointNumber(e, q, c) <= acc.endpoint \/ EndpointNumber(e, q, c) > MaxEndpoints
      BY <2>1, <2>3, <3>3 DEF CurrentAt
    <3>5. ASSUME \A x \in (q + 1)..(n + 1) : c[x].type # "INTERFACE"
          PROVE  acc.endpoint = IF EndpointNumber(n + 1, q, c) <= MaxEndpoints
                                THEN EndpointNumber(n + 1, q, c) ELSE MaxEndpoints
      <4>1. CASE c[n + 1].type = "ENDPOINT"
        <5>1. EndpointNumber(n + 1, q, c) > MaxEndpoints /\ acc.endpoint = MaxEndpoints
          BY <1>5, <2>3, <3>5, <4>1
        <5>2. PICK k \in Nat : k = EndpointNumber(n + 1, q, c)
          <6>1. EndpointNumber(n, q, c) \in Nat /\ EndpointNumber(n + 1, q, c) = EndpointNumber(n, q, c) + 1
            BY <3>1, <4>1, EndpointNumberStep
          <6>. QED
            BY <6>1
        <5>. QED
          BY <1>2, <5>1, <5>2
      <4>2. CASE c[n + 1].type # "ENDPOINT"
        <5>1. EndpointNumber(n + 1, q, c) = EndpointNumber(n, q, c)
          BY <3>1, <4>2, EndpointNumberStep
        <5>2. \A x \in (q + 1)..n : c[x].type # "INTERFACE"
          BY <3>1, <3>5
        <5>. QED
          BY <2>3, <5>1, <5>2 DEF CurrentAt
      <4>. QED
        BY <4>1, <4>2
    <3>. QED
      BY <2>3, <3>2, <3>4, <3>5 DEF CurrentAt
  <2>. QED
    BY <2>1, <2>2, <2>3 DEF ParseState, CurrentState
<1>. QED
  BY <1>1, <1>3, <1>6, <1>7 DEF ParseState

\* The parsing is the loop that its equation describes.
LEMMA ParseLoopDef ==
    ASSUME NEW c \in Seq(Descriptor), NEW before
    PROVE  ParseLoop(before, c) =
             [n \in 0..Len(c) |->
                IF n = 0 THEN [current |-> MaxInterfaces, endpoint |-> 0, Interfaces |-> before]
                ELSE ParseDescriptor(ParseLoop(before, c)[n - 1], c[n])]
<1> DEFINE Loop(f, k) == f = [n \in 0..k |->
                                IF n = 0 THEN [current |-> MaxInterfaces, endpoint |-> 0, Interfaces |-> before]
                                ELSE ParseDescriptor(f[n - 1], c[n])]
           T == {k \in Nat : ~ \E f : Loop(f, k)}
<1>1. ASSUME NEW k \in Nat PROVE \E f : Loop(f, k)
  <2>1. SUFFICES ASSUME T # {} PROVE FALSE
    OBVIOUS
  <2>2. PICK m \in T : \A j \in T : m <= j
    BY <2>1, SmallestNumber
  <2>3. m \in Nat /\ ~ \E f : Loop(f, m)
    BY <2>2
  <2>4. PICK first : first = [current |-> MaxInterfaces, endpoint |-> 0, Interfaces |-> before]
    OBVIOUS
  <2>5. m # 0
    <3>1. SUFFICES ASSUME m = 0 PROVE Loop([n \in 0..0 |-> first], 0)
      BY <2>3
    <3>. QED
      BY <2>4
  <2>6. m - 1 \in Nat /\ m - 1 \notin T
    <3>1. m - 1 \in Nat /\ ~(m <= m - 1)
      BY <2>3, <2>5
    <3>. QED
      BY <2>2, <3>1
  <2>7. PICK g : Loop(g, m - 1)
    BY <2>6
  <2>8. PICK h : h = [n \in 0..m |-> IF n < m THEN g[n] ELSE ParseDescriptor(g[m - 1], c[m])]
    OBVIOUS
  <2>9. ASSUME NEW n \in 0..m
        PROVE  h[n] = IF n = 0 THEN first ELSE ParseDescriptor(h[n - 1], c[n])
    <3>1. CASE n = m
      BY <2>3, <2>5, <2>8, <3>1
    <3>2. CASE n # m
      BY <2>3, <2>4, <2>7, <2>8, <3>2
    <3>. QED
      BY <3>1, <3>2
  <2>10. Loop(h, m)
    BY <2>4, <2>8, <2>9
  <2>. QED
    BY <2>3, <2>10
<1>2. PICK f : Loop(f, Len(c))
  BY <1>1
<1>3. ParseLoop(before, c) = CHOOSE g : Loop(g, Len(c))
  BY DEF ParseLoop
<1>4. Loop(CHOOSE g : Loop(g, Len(c)), Len(c))
  <2> HIDE DEF Loop
  <2>. QED
    BY <1>2
<1>. QED
  BY <1>3, <1>4

(***************************************************************************)
(* Whatever configuration a device has, and whatever the table held, the   *)
(* parsing of ReadConfigDescriptor leaves the last setting of every        *)
(* interface that occurs, with that setting's own endpoints, and the       *)
(* entries of the others as they were.                                     *)
(***************************************************************************)
THEOREM ParseKeepsSettings ==
    ASSUME NEW c \in Seq(Descriptor), NEW before \in [Interfaces -> InterfaceType],
           \A i \in Interfaces : SettingsOf(i, c) = {} => before[i] = NoInterfaces[i]
    PROVE  /\ ParseConfiguration(before, c) \in [Interfaces -> InterfaceType]
           /\ \A i \in Interfaces : ParsedEntry(ParseConfiguration(before, c)[i], i, c)
<1>1. PICK f : f = ParseLoop(before, c)
  OBVIOUS
<1>2. Len(c) \in Nat /\ DOMAIN c = 1..Len(c) /\ MaxInterfaces \in Nat /\ MaxEndpoints \in Nat
  BY DescriptorAssumption
<1>3. /\ f[0] = [current |-> MaxInterfaces, endpoint |-> 0, Interfaces |-> before]
      /\ \A n \in 1..Len(c) : f[n] = ParseDescriptor(f[n - 1], c[n])
  <2>1. f = [n \in 0..Len(c) |->
                IF n = 0 THEN [current |-> MaxInterfaces, endpoint |-> 0, Interfaces |-> before]
                ELSE ParseDescriptor(f[n - 1], c[n])]
    BY <1>1, ParseLoopDef
  <2>. QED
    BY <1>2, <2>1
<1> DEFINE T == {n \in 0..Len(c) : ~ParseState(f[n], n, c, before)}
<1>4. T = {}
  <2>1. SUFFICES ASSUME T # {} PROVE FALSE
    OBVIOUS
  <2>2. PICK m \in T : \A j \in T : m <= j
    <3>1. T \subseteq Nat
      OBVIOUS
    <3>. QED
      BY <2>1, <3>1, SmallestNumber
  <2>3. m \in 0..Len(c) /\ ~ParseState(f[m], m, c, before)
    BY <2>2
  <2>4. m # 0
    <3>1. f[0] \in ParserType
      BY <1>2, <1>3 DEF ParserType
    <3>2. \A i \in Interfaces : EntryState(f[0].Interfaces[i], i, 0, c, before)
      BY <1>3 DEF EntryState
    <3>3. CurrentState(f[0], 0, c)
      BY <1>3 DEF CurrentState
    <3>. QED
      BY <2>3, <3>1, <3>2, <3>3 DEF ParseState
  <2>5. PICK n \in Nat : m = n + 1
    BY <2>3, <2>4
  <2>6. n \in 0..Len(c) /\ n \notin T
    BY <2>2, <2>3, <2>5
  <2>7. ParseState(f[n], n, c, before)
    BY <2>6
  <2>8. f[n + 1] = ParseDescriptor(f[n], c[n + 1]) /\ n + 1 \in 1..Len(c)
    BY <1>3, <2>3, <2>5
  <2>9. CASE Kept(n + 1, c)
    BY <2>3, <2>5, <2>7, <2>8, <2>9, ParseInterface
  <2>10. CASE c[n + 1].type = "ENDPOINT" /\ f[n].current < MaxInterfaces /\ f[n].endpoint < MaxEndpoints
    BY <2>3, <2>5, <2>7, <2>8, <2>10, ParseEndpoint
  <2>11. CASE ~Kept(n + 1, c) /\ ~(c[n + 1].type = "ENDPOINT" /\ f[n].current < MaxInterfaces /\ f[n].endpoint < MaxEndpoints)
    BY <2>3, <2>5, <2>7, <2>8, <2>11, ParseOther
  <2>. QED
    BY <2>9, <2>10, <2>11
<1>5. ParseState(f[Len(c)], Len(c), c, before)
  BY <1>2, <1>4
<1>6. PICK t : t = f[Len(c)].Interfaces
  OBVIOUS
<1>7. ParseConfiguration(before, c) = t
  BY <1>1, <1>6 DEF ParseConfiguration
<1>8. t \in [Interfaces -> InterfaceType] /\ \A i \in Interfaces : EntryState(t[i], i, Len(c), c, before)
  BY <1>5, <1>6 DEF ParseState, ParserType
<1>9. ASSUME NEW i \in Interfaces PROVE ParsedEntry(t[i], i, c)
  <2>1. PICK P : P = SettingsOf(i, c)
    OBVIOUS
  <2>2. P \subseteq 1..Len(c) /\ \A p \in 1..Len(c) : p \in P <=> Describes(p, i, c)
    BY <1>2, <2>1 DEF SettingsOf, Describes
  <2>3. CASE P = {}
    <3>1. t[i] = before[i]
      BY <1>8, <1>9, <2>2, <2>3 DEF EntryState
    <3>. QED
      BY <2>1, <2>3, <3>1 DEF ParsedEntry
  <2>4. CASE P # {}
    <3>1. PICK p \in P : \A q \in P : q <= p
      BY <1>2, <2>2, <2>4, LastPosition
    <3>2. p \in 1..Len(c) /\ Describes(p, i, c)
      BY <2>2
    <3>3. \A q \in (p + 1)..Len(c) : ~Describes(q, i, c)
      <4>1. SUFFICES ASSUME NEW q \in (p + 1)..Len(c) PROVE q \notin P /\ q \in 1..Len(c)
        BY <2>2
      <4>2. q \in 1..Len(c) /\ ~(q <= p)
        BY <1>2, <3>2
      <4>. QED
        BY <3>1, <4>2
    <3>4. /\ t[i].AlternateSetting = c[p].alt
          /\ t[i].NumEndpoints = c[p].eps
          /\ \A e \in 1..Len(c) :
                (EndpointOf(e, p, c) /\ EndpointNumber(e, p, c) <= MaxEndpoints) =>
                   t[i].Endpoints[EndpointNumber(e, p, c)] = c[e].id
      BY <1>8, <1>9, <3>2, <3>3 DEF EntryState
    <3>. QED
      BY <1>2, <2>1, <2>4, <3>1, <3>4 DEF ParsedEntry
  <2>. QED
    BY <2>3, <2>4
<1>. QED
  BY <1>7, <1>8, <1>9

----------------------------------------------------------------------------
(* The table of captured devices and the attach requests.                  *)

\* A captured device by itself.  A slot not in use is as it was at the start;
\* stored descriptors begin with the device descriptor; the interface table is
\* empty or holds what the configuration says.
DeviceOK(d) ==
    /\ IF d.Active THEN d.path \in Real ELSE d = NoSlot
    /\ d.Descriptors = <<>> \/ d.Descriptors[1] = DeviceDescriptor
    /\ d.Active /\ d.parsed =>
          \A n \in Interfaces : ParsedEntry(d.Interfaces[n], n, config[d.path])
    /\ d.Active /\ ~d.parsed => d.Interfaces = NoInterfaces

\* What message or device m says of device d can be incomplete for two reasons.
Excused(m, d) == Complete(m, d.path) \/ d.failed \/ d.openedBy = "urb"

\* An attach request of device d.
MessageOK(m, d) ==
    /\ d.Active
    /\ d.Opened
    /\ Excused(m, d)
    /\ m.Descriptors = <<>> \/ m.Descriptors[1] = DeviceDescriptor

\* The variables besides the table.
TypeInv ==
    /\ bus \subseteq Real
    /\ todo \subseteq Real
    /\ kind \in [Real -> Kinds]
    /\ config \in [Real -> Configs]
    /\ command \in {"none", "scan", "info", "attach"}
    /\ ipc \in {"prompt", "enumerate", "refresh", "open", "readDevice", "readConfig",
               "build", "send"}
    /\ slot \in 1..(MaxSlots + 1)
    /\ commands \in 0..MaxCommands
    /\ events \in 0..MaxBusEvents

\* Local ids are given out in turn, so a new one is always fresh.
CountInv ==
    /\ DeviceCount \in 0..MaxSlots
    /\ DeviceCount = Cardinality({i \in Slots : Active(i)})
    /\ NextLocalId = DeviceCount + 1
    /\ \A i \in Slots : Active(i) => Devices[i].LocalId \in 1..DeviceCount
    /\ \A i, j \in Slots : (Active(i) /\ Active(j) /\ i # j) =>
          /\ kind[Devices[i].path] # kind[Devices[j].path]
          /\ Devices[i].LocalId # Devices[j].LocalId

SlotsInv ==
    /\ Devices \in [Slots -> DeviceType]
    /\ \A i \in Slots : DeviceOK(Devices[i])

SentInv ==
    /\ sent \in [Slots -> SUBSET [info: BOOLEAN, Descriptors: Seq(Descriptor)]]
    /\ \A i \in Slots : \A m \in sent[i] : MessageOK(m, Devices[i])

\* What the interactive thread knows of the device it works on.
Reading == {"readDevice", "readConfig", "build"}
ControlInv ==
    /\ ipc \in Reading \cup {"open", "send"} => slot \in Slots /\ Active(slot)
    /\ ipc \in Reading \cup {"send"} => Devices[slot].Opened
    /\ ipc \in {"readConfig", "build"} => Devices[slot].info
    /\ ipc = "send" => command = "attach"
    /\ ipc = "open" => command \in {"info", "attach"}

\* A device is read completely once it is open, unless that is still going on.
ReadInv ==
    \A i \in Slots : (Active(i) /\ Devices[i].Opened /\ ~(slot = i /\ ipc \in Reading)) =>
        Excused(Devices[i], Devices[i])

IInv == TypeInv /\ CountInv /\ SlotsInv /\ SentInv /\ ControlInv /\ ReadInv

\* An empty table and an unused slot have their types, and so has a device that
\* the enumeration enters.
LEMMA DeviceTypes ==
    ASSUME NEW r, NEW id \in 0..MaxSlots
    PROVE  /\ NoInterfaces \in [Interfaces -> InterfaceType]
           /\ NoSlot \in DeviceType /\ ~NoSlot.Active
           /\ NoSlot.Descriptors = <<>> /\ DeviceOK(NoSlot)
           /\ r \in Real => NewDevice(r, id) \in DeviceType
           /\ NewDevice(r, id).Active /\ NewDevice(r, id).path = r /\ NewDevice(r, id).LocalId = id
           /\ ~NewDevice(r, id).Opened
           /\ r \in Real => DeviceOK(NewDevice(r, id))
<1>1. /\ NoInterfaces \in [Interfaces -> InterfaceType]
      /\ MaxSlots \in Nat
  BY DescriptorAssumption DEF NoInterfaces, Interfaces, InterfaceType
<1>2. NoInterfaces \in [0..(MaxInterfaces - 1) -> InterfaceType] /\ <<>> \in Seq(Descriptor)
  BY <1>1 DEF Interfaces
<1>3. PICK t : t = NoInterfaces
  OBVIOUS
<1>4. PICK n : n = NewDevice(r, id)
  OBVIOUS
<1>5. n = [Active |-> TRUE, path |-> r, LocalId |-> id, Opened |-> FALSE, info |-> FALSE,
           Interfaces |-> t, parsed |-> FALSE, Descriptors |-> <<>>,
           openedBy |-> "nobody", failed |-> FALSE]
  BY <1>3, <1>4 DEF NewDevice
<1>6. r \in Real => n \in DeviceType
  BY <1>2, <1>3, <1>5 DEF DeviceType
<1>7. /\ n.Active = TRUE /\ n.path = r /\ n.LocalId = id /\ n.Opened = FALSE
      /\ n.Descriptors = <<>> /\ n.parsed = FALSE /\ n.Interfaces = t
  BY <1>5
<1>8. r \in Real => DeviceOK(n)
  BY <1>3, <1>7 DEF DeviceOK
<1>9. PICK z : z = NoSlot
  OBVIOUS
<1>10. z = [Active |-> FALSE, path |-> NoPath, LocalId |-> 0, Opened |-> FALSE, info |-> FALSE,
           Interfaces |-> t, parsed |-> FALSE, Descriptors |-> <<>>,
           openedBy |-> "nobody", failed |-> FALSE]
  BY <1>3, <1>9 DEF NoSlot, NewDevice
<1>11. z \in DeviceType
  BY <1>1, <1>2, <1>3, <1>10 DEF DeviceType
<1>12. z.Active = FALSE /\ z.Descriptors = <<>>
  BY <1>10
<1>13. DeviceOK(z)
  BY <1>9, <1>12 DEF DeviceOK
<1>. QED
  BY <1>1, <1>4, <1>6, <1>7, <1>8, <1>9, <1>11, <1>12, <1>13

\* The client starts with an empty table.
LEMMA DescriptorsInit == Init => IInv
<1>1. SUFFICES ASSUME Init PROVE IInv
  OBVIOUS
<1>2. MaxSlots \in Nat /\ MaxSlots >= 1 /\ MaxCommands \in Nat /\ MaxBusEvents \in Nat
  BY DescriptorAssumption
<1>3. NoSlot \in DeviceType /\ ~NoSlot.Active /\ DeviceOK(NoSlot)
  BY <1>2, DeviceTypes
<1>4. Devices = [i \in Slots |-> NoSlot] /\ sent = [i \in Slots |-> {}] /\ ipc = "prompt"
  BY <1>1 DEF Init
<1>5. \A i \in Slots : Devices[i] = NoSlot /\ ~Active(i) /\ sent[i] = {}
  BY <1>3, <1>4 DEF Active
<1>6. TypeInv
  BY <1>1, <1>2 DEF Init, TypeInv
<1>7. {i \in Slots : Active(i)} = {}
  BY <1>5
<1>8. Cardinality({i \in Slots : Active(i)}) = 0
  BY <1>7, FS_EmptySet
<1>9. DeviceCount = 0 /\ NextLocalId = 1
  BY <1>1 DEF Init
<1>10. CountInv
  BY <1>2, <1>5, <1>8, <1>9 DEF CountInv
<1>11. SlotsInv
  BY <1>3, <1>4, <1>5 DEF SlotsInv
<1>12. SentInv
  BY <1>4, <1>5 DEF SentInv
<1>13. ControlInv /\ ReadInv
  BY <1>4, <1>5 DEF ControlInv, ReadInv, Reading
<1>. QED
  BY <1>6, <1>10, <1>11, <1>12, <1>13 DEF IInv

\* A step that changes a captured device in place: it stays the device it was,
\* open if it was open and by whom, and failed if it had failed.
LEMMA DeviceStep ==
    ASSUME IInv, NEW s \in Slots, Active(s), NEW new \in DeviceType,
           new.Active, new.path = Devices[s].path, new.LocalId = Devices[s].LocalId,
           Devices[s].Opened => new.Opened /\ new.openedBy = Devices[s].openedBy,
           Devices[s].failed => new.failed,
           DeviceOK(new),
           Devices' = [Devices EXCEPT ![s] = new],
           UNCHANGED <<kind, config, NextLocalId, DeviceCount, sent>>
    PROVE  /\ CountInv' /\ SlotsInv' /\ SentInv'
           /\ Devices'[s] = new
           /\ \A i \in Slots : i # s => Devices'[i] = Devices[i]
<1>1. Devices \in [Slots -> DeviceType] /\ CountInv /\ SlotsInv /\ SentInv
  BY DEF IInv, SlotsInv
<1>2. /\ Devices' \in [Slots -> DeviceType]
      /\ Devices'[s] = new
      /\ \A i \in Slots : i # s => Devices'[i] = Devices[i]
  BY <1>1
<1>3. \A i \in Slots : /\ Active(i)' <=> Active(i)
                       /\ Devices'[i].path = Devices[i].path
                       /\ Devices'[i].LocalId = Devices[i].LocalId
  BY <1>2 DEF Active
<1>4. {i \in Slots : Active(i)}' = {i \in Slots : Active(i)}
  BY <1>3
<1>5. CountInv'
  <2>1. (DeviceCount = Cardinality({i \in Slots : Active(i)}))'
    BY <1>1, <1>4 DEF CountInv
  <2>2. \A i \in Slots : Active(i)' => Devices'[i].LocalId \in 1..DeviceCount
    BY <1>1, <1>3 DEF CountInv
  <2>3. \A i, j \in Slots : (Active(i)' /\ Active(j)' /\ i # j) =>
           /\ kind[Devices'[i].path] # kind[Devices'[j].path]
           /\ Devices'[i].LocalId # Devices'[j].LocalId
    BY <1>1, <1>3 DEF CountInv
  <2>. QED
    BY <1>1, <2>1, <2>2, <2>3 DEF CountInv
<1>6. \A d : DeviceOK(d)' <=> DeviceOK(d)
  BY DEF DeviceOK
<1>7. SlotsInv'
  BY <1>1, <1>2, <1>6 DEF SlotsInv
<1>8. \A i \in Slots : \A m \in sent[i] : MessageOK(m, Devices'[i])
  <2>1. SUFFICES ASSUME NEW m \in sent[s] PROVE MessageOK(m, new)
    BY <1>1, <1>2 DEF SentInv
  <2>2. MessageOK(m, Devices[s])
    BY <1>1 DEF SentInv
  <2>. QED
    BY <2>2 DEF MessageOK, Excused
<1>9. \A m, d : MessageOK(m, d)' <=> MessageOK(m, d)
  BY DEF MessageOK, Excused, Complete
<1>10. SentInv'
  BY <1>1, <1>8, <1>9 DEF SentInv
<1>. QED
  BY <1>2, <1>5, <1>7, <1>10

\* A step that leaves the table and the requests alone.
LEMMA TableUnchanged ==
    ASSUME IInv, UNCHANGED <<kind, config, Devices, NextLocalId, DeviceCount, sent>>
    PROVE  CountInv' /\ SlotsInv' /\ SentInv'
<1>1. CountInv /\ SlotsInv /\ SentInv
  BY DEF IInv
<1>2. CountInv'
  BY <1>1 DEF CountInv, Active
<1>3. \A d : DeviceOK(d)' <=> DeviceOK(d)
  BY DEF DeviceOK
<1>4. SlotsInv'
  BY <1>1, <1>3 DEF SlotsInv
<1>5. \A m, d : MessageOK(m, d)' <=> MessageOK(m, d)
  BY DEF MessageOK, Excused, Complete
<1>6. SentInv'
  BY <1>1, <1>5 DEF SentInv
<1>. QED
  BY <1>2, <1>4, <1>6

\* A step about slot s: the others are read as completely as they were.
LEMMA ReadStep ==
    ASSUME IInv, NEW s \in Slots, config' = config,
           \A i \in Slots : i # s => Devices'[i] = Devices[i],
           \A i \in Slots : (i # s /\ slot = i /\ ipc \in Reading) => (slot' = i /\ ipc' \in Reading),
           (Active(s)' /\ Devices'[s].Opened /\ ~(slot' = s /\ ipc' \in Reading)) =>
               Excused(Devices'[s], Devices'[s])
    PROVE  ReadInv'
<1>1. \A m, d : Excused(m, d)' <=> Excused(m, d)
  BY DEF Excused, Complete
<1>2. ASSUME NEW i \in Slots, Active(i)', Devices'[i].Opened, ~(slot' = i /\ ipc' \in Reading)
      PROVE  Excused(Devices'[i], Devices'[i])
  <2>1. CASE i = s
    BY <1>2, <2>1
  <2>2. CASE i # s
    <3>1. Devices'[i] = Devices[i]
      BY <2>2
    <3>2. Active(i) /\ Devices[i].Opened /\ ~(slot = i /\ ipc \in Reading)
      BY <1>2, <2>2, <3>1 DEF Active
    <3>3. Excused(Devices[i], Devices[i])
      BY <3>2 DEF IInv, ReadInv
    <3>. QED
      BY <3>1, <3>3
  <2>. QED
    BY <2>1, <2>2
<1>. QED
  BY <1>1, <1>2 DEF ReadInv, Reading

\* ... and no slot at all.
LEMMA ReadUnchanged ==
    ASSUME IInv, UNCHANGED <<config, Devices>>, ipc \in Reading => (slot' = slot /\ ipc' \in Reading)
    PROVE  ReadInv'
<1>1. \A m, d : Excused(m, d)' <=> Excused(m, d)
  BY DEF Excused, Complete
<1>2. ASSUME NEW i \in Slots, Active(i)', Devices'[i].Opened, ~(slot' = i /\ ipc' \in Reading)
      PROVE  Excused(Devices'[i], Devices'[i])
  <2>1. Active(i) /\ Devices[i].Opened /\ ~(slot = i /\ ipc \in Reading)
    BY <1>2 DEF Active
  <2>. QED
    BY <2>1 DEF IInv, ReadInv
<1>. QED
  BY <1>1, <1>2 DEF ReadInv, Reading

\* A scan starts.
LEMMA ScanInv == IInv /\ Scan => IInv'
<1>1. SUFFICES ASSUME IInv, Scan PROVE IInv'
  OBVIOUS
<1>2. /\ UNCHANGED <<kind, config, Devices, NextLocalId, DeviceCount, sent>>
      /\ ipc = "prompt" /\ ipc' = "enumerate" /\ TypeInv
  BY <1>1 DEF Scan, busVars, IInv
<1>3. TypeInv'
  BY <1>1, <1>2, DescriptorAssumption DEF Scan, busVars, TypeInv
<1>4. ControlInv'
  BY <1>2 DEF ControlInv, Reading
<1>5. ReadInv'
  BY <1>1, <1>2, ReadUnchanged DEF Reading
<1>. QED
  BY <1>1, <1>2, <1>3, <1>4, <1>5, TableUnchanged DEF IInv

\* The enumeration is over, and the refresh starts with the first slot.
LEMMA EnumerationEndsInv == IInv /\ EnumerationEnds => IInv'
<1>1. SUFFICES ASSUME IInv, EnumerationEnds PROVE IInv'
  OBVIOUS
<1>2. /\ UNCHANGED <<kind, config, Devices, NextLocalId, DeviceCount, sent>>
      /\ ipc = "enumerate" /\ ipc' = "refresh" /\ TypeInv
  BY <1>1 DEF EnumerationEnds, busVars, scanVars, IInv
<1>3. TypeInv'
  BY <1>1, <1>2, DescriptorAssumption DEF EnumerationEnds, busVars, scanVars, TypeInv
<1>4. ControlInv'
  BY <1>2 DEF ControlInv, Reading
<1>5. ReadInv'
  BY <1>1, <1>2, ReadUnchanged DEF Reading
<1>. QED
  BY <1>1, <1>2, <1>3, <1>4, <1>5, TableUnchanged DEF IInv

\* The refresh has come to the end of the table.
LEMMA RefreshEndsInv == IInv /\ RefreshEnds => IInv'
<1>1. SUFFICES ASSUME IInv, RefreshEnds PROVE IInv'
  OBVIOUS
<1>2. /\ UNCHANGED <<kind, config, Devices, NextLocalId, DeviceCount, sent>>
      /\ ipc = "refresh" /\ ipc' = "prompt" /\ TypeInv
  BY <1>1 DEF RefreshEnds, busVars, scanVars, IInv
<1>3. TypeInv'
  BY <1>1, <1>2, DescriptorAssumption DEF RefreshEnds, busVars, scanVars, TypeInv
<1>4. ControlInv'
  BY <1>2 DEF ControlInv, Reading
<1>5. ReadInv'
  BY <1>1, <1>2, ReadUnchanged DEF Reading
<1>. QED
  BY <1>1, <1>2, <1>3, <1>4, <1>5, TableUnchanged DEF IInv

\* info or attach starts: what it goes on with depends on whether the device is open.
LEMMA InfoOrAttachInv ==
    ASSUME IInv, NEW cmd \in {"info", "attach"}, NEW s \in Slots, InfoOrAttach(cmd, s)
    PROVE  IInv'
<1>1. /\ UNCHANGED <<kind, config, Devices, NextLocalId, DeviceCount, sent>>
      /\ ipc = "prompt" /\ slot' = s /\ command' = cmd /\ Active(s) /\ TypeInv
      /\ ipc' = IF ~Devices[s].Opened THEN "open" ELSE IF cmd = "attach" THEN "send" ELSE "prompt"
  BY DEF InfoOrAttach, busVars, scanVars, IInv
<1>2. TypeInv'
  <2>1. slot' \in 1..(MaxSlots + 1)
    BY <1>1, DescriptorAssumption DEF Slots
  <2>2. ipc' \in {"open", "send", "prompt"}
    BY <1>1
  <2>3. commands' \in 0..MaxCommands
    BY <1>1, DescriptorAssumption DEF InfoOrAttach, TypeInv
  <2>. QED
    BY <1>1, <2>1, <2>2, <2>3 DEF TypeInv, InfoOrAttach, busVars, scanVars
<1>3. ControlInv'
  <2>1. Active(s)' /\ Devices' = Devices
    BY <1>1 DEF Active
  <2>2. ipc' = "send" => Devices[s].Opened /\ cmd = "attach"
    BY <1>1
  <2>3. ipc' \in {"open", "send", "prompt"}
    BY <1>1
  <2>. QED
    BY <1>1, <2>1, <2>2, <2>3 DEF ControlInv, Reading
<1>4. ReadInv'
  BY <1>1, ReadUnchanged DEF Reading
<1>. QED
  BY <1>1, <1>2, <1>3, <1>4, TableUnchanged DEF IInv

\* Devices come and go on the bus; the table does not notice.
LEMMA BusEventInv == ASSUME IInv, NEW r \in Real, BusEvent(r) PROVE IInv'
<1>1. /\ UNCHANGED <<kind, config, Devices, NextLocalId, DeviceCount, sent, ipc, slot, command>> /\ TypeInv /\ ControlInv
  BY DEF BusEvent, scanVars, IInv
<1>2. TypeInv'
  BY <1>1, DescriptorAssumption DEF BusEvent, scanVars, TypeInv
<1>3. ControlInv'
  BY <1>1 DEF ControlInv, Active
<1>4. ReadInv'
  BY <1>1, ReadUnchanged
<1>. QED
  BY <1>1, <1>2, <1>3, <1>4, TableUnchanged DEF IInv

\* One round of the enumeration.
LEMMA EnumerateInv == ASSUME IInv, NEW r \in Real, Enumerate(r) PROVE IInv'
<1>1. /\ UNCHANGED <<kind, config, bus, events, sent, command, ipc, slot, commands>>
      /\ ipc = "enumerate" /\ todo' \subseteq todo /\ TypeInv
  BY DEF Enumerate, busVars, IInv
<1>2. TypeInv'
  BY <1>1 DEF TypeInv
<1>3. ControlInv'
  BY <1>1 DEF ControlInv, Reading
<1>4. CASE UNCHANGED <<Devices, NextLocalId, DeviceCount>>
  <2>1. ReadInv'
    BY <1>1, <1>4, ReadUnchanged DEF Reading
  <2>. QED
    BY <1>1, <1>2, <1>3, <1>4, <2>1, TableUnchanged DEF IInv
<1>5. ASSUME FindDeviceByVidPid(r) = {}, DeviceCount < MaxSlots, NEW s \in Slots, ~Active(s),
             Devices' = [Devices EXCEPT ![s] = NewDevice(r, NextLocalId)],
             NextLocalId' = NextLocalId + 1, DeviceCount' = DeviceCount + 1
      PROVE  IInv'
  <2>1. Devices \in [Slots -> DeviceType] /\ CountInv /\ SlotsInv /\ SentInv
    BY DEF IInv, SlotsInv
  <2>2. /\ DeviceCount \in Nat /\ MaxSlots \in Nat /\ NextLocalId = DeviceCount + 1
        /\ NextLocalId \in 0..MaxSlots
    BY <1>5, <2>1, DescriptorAssumption DEF CountInv
  <2>3. PICK new \in DeviceType : new = NewDevice(r, NextLocalId)
    BY <2>2, DeviceTypes
  <2>4. new.Active /\ new.path = r /\ new.LocalId = NextLocalId /\ ~new.Opened /\ DeviceOK(new)
    BY <2>2, <2>3, DeviceTypes
  <2>5. /\ Devices' \in [Slots -> DeviceType]
        /\ Devices'[s] = new
        /\ \A i \in Slots : i # s => Devices'[i] = Devices[i]
    BY <1>5, <2>1, <2>3
  <2>6. Active(s)' /\ \A i \in Slots : i # s => (Active(i)' <=> Active(i))
    BY <2>4, <2>5 DEF Active
  <2>7. (DeviceCount = Cardinality({i \in Slots : Active(i)}))'
    <3>1. PICK A : A = {i \in Slots : Active(i)}
      OBVIOUS
    <3>2. IsFiniteSet(A)
      <4>1. 1 \in Int /\ MaxSlots \in Int
        BY <2>2
      <4>2. IsFiniteSet(Slots)
        BY <4>1, FS_Interval DEF Slots
      <4>3. A \in SUBSET Slots
        BY <3>1
      <4>. QED
        BY <4>2, <4>3, FS_Subset
    <3>3. s \notin A
      BY <1>5, <3>1
    <3>4. {i \in Slots : Active(i)}' = A \cup {s}
      BY <2>6, <3>1
    <3>5. Cardinality(A \cup {s}) = Cardinality(A) + 1
      BY <3>2, <3>3, FS_AddElement
    <3>6. DeviceCount = Cardinality(A)
      BY <2>1, <3>1 DEF CountInv
    <3>7. DeviceCount' = Cardinality({i \in Slots : Active(i)}')
      BY <1>5, <3>4, <3>5, <3>6
    <3>. QED
      BY <3>7
  <2>8. \A i \in Slots : Active(i)' => Devices'[i].LocalId \in 1..DeviceCount'
    <3>1. SUFFICES ASSUME NEW i \in Slots, Active(i)' PROVE Devices'[i].LocalId \in 1..(DeviceCount + 1)
      BY <1>5
    <3>2. CASE i = s
      BY <2>2, <2>4, <2>5, <3>2
    <3>3. CASE i # s
      <4>1. Devices'[i].LocalId \in 1..DeviceCount
        BY <2>1, <2>5, <2>6, <3>1, <3>3 DEF CountInv
      <4>. QED
        BY <2>2, <4>1
    <3>. QED
      BY <3>2, <3>3
  <2>9. \A i \in Slots : (Active(i) /\ i # s) =>
           kind[Devices[i].path] # kind[r] /\ Devices[i].LocalId # NextLocalId
    <3>1. SUFFICES ASSUME NEW i \in Slots, Active(i)
                   PROVE  kind[Devices[i].path] # kind[r] /\ Devices[i].LocalId # NextLocalId
      OBVIOUS
    <3>2. kind[Devices[i].path] # kind[r]
      BY <1>5, <3>1 DEF FindDeviceByVidPid
    <3>3. Devices[i].LocalId \in 1..DeviceCount
      BY <2>1, <3>1 DEF CountInv
    <3>. QED
      BY <2>2, <3>2, <3>3
  <2>10. \A i, j \in Slots : (Active(i)' /\ Active(j)' /\ i # j) =>
            /\ kind[Devices'[i].path] # kind[Devices'[j].path]
            /\ Devices'[i].LocalId # Devices'[j].LocalId
    <3>1. SUFFICES ASSUME NEW i \in Slots, NEW j \in Slots, Active(i)', Active(j)', i # j
                   PROVE  /\ kind[Devices'[i].path] # kind[Devices'[j].path]
                          /\ Devices'[i].LocalId # Devices'[j].LocalId
      OBVIOUS
    <3>2. CASE i = s
      BY <2>4, <2>5, <2>6, <2>9, <3>1, <3>2
    <3>3. CASE j = s
      BY <2>4, <2>5, <2>6, <2>9, <3>1, <3>3
    <3>4. CASE i # s /\ j # s
      BY <2>1, <2>5, <2>6, <3>1, <3>4 DEF CountInv
    <3>. QED
      BY <3>2, <3>3, <3>4
  <2>11. DeviceCount' \in 0..MaxSlots /\ NextLocalId' = DeviceCount' + 1
    BY <1>5, <2>2
  <2>12. CountInv'
    BY <1>1, <2>7, <2>8, <2>10, <2>11 DEF CountInv
  <2>13. \A d : DeviceOK(d)' <=> DeviceOK(d)
    BY <1>1 DEF DeviceOK
  <2>14. SlotsInv'
    BY <2>1, <2>4, <2>5, <2>13 DEF SlotsInv
  <2>15. SentInv'
    <3>1. \A m, d : MessageOK(m, d)' <=> MessageOK(m, d)
      BY <1>1 DEF MessageOK, Excused, Complete
    <3>2. sent[s] = {}
      BY <1>5, <2>1 DEF SentInv, MessageOK, Active
    <3>3. \A i \in Slots : \A m \in sent[i] : MessageOK(m, Devices'[i])
      BY <2>1, <2>5, <3>2 DEF SentInv
    <3>. QED
      BY <1>1, <2>1, <3>1, <3>3 DEF SentInv
  <2>16. ReadInv'
    BY <1>1, <2>4, <2>5, ReadStep DEF Reading
  <2>. QED
    BY <1>2, <1>3, <2>12, <2>14, <2>15, <2>16 DEF IInv
<1>. QED
  BY <1>4, <1>5 DEF Enumerate

\* UsbCaptureOpenDevice.
LEMMA OpenStep ==
    ASSUME IInv, NEW s \in Slots, Active(s), NEW by \in {"user", "urb"}, OpenOk(s, by),
           UNCHANGED <<kind, config, NextLocalId, DeviceCount, sent>>
    PROVE  /\ CountInv' /\ SlotsInv' /\ SentInv'
           /\ Active(s)' /\ Devices'[s].Opened /\ Devices'[s].openedBy = by
           /\ Devices'[s].info = Devices[s].info /\ ~Devices[s].Opened
           /\ \A i \in Slots : i # s => Devices'[i] = Devices[i]
<1>1. Devices \in [Slots -> DeviceType] /\ DeviceOK(Devices[s])
  BY DEF IInv, SlotsInv
<1>2. PICK old \in DeviceType : old = Devices[s]
  BY <1>1
<1>3. PICK new : new = [old EXCEPT !.Opened = TRUE, !.openedBy = by]
  OBVIOUS
<1>4. /\ new \in DeviceType /\ new.Active = old.Active /\ new.path = old.path
      /\ new.LocalId = old.LocalId /\ new.Opened = TRUE /\ new.info = old.info
      /\ new.openedBy = by /\ new.failed = old.failed /\ new.parsed = old.parsed
      /\ new.Interfaces = old.Interfaces /\ new.Descriptors = old.Descriptors
  BY <1>2, <1>3 DEF DeviceType
<1>5. Devices' = [Devices EXCEPT ![s] = new] /\ ~old.Opened
  BY <1>1, <1>2, <1>3 DEF OpenOk
<1>6. old.Active = TRUE
  BY <1>2 DEF Active, DeviceType
<1>7. DeviceOK(new)
  BY <1>1, <1>2, <1>4, <1>6 DEF DeviceOK
<1>8. /\ CountInv' /\ SlotsInv' /\ SentInv'
      /\ Devices'[s] = new
      /\ \A i \in Slots : i # s => Devices'[i] = Devices[i]
  BY <1>2, <1>4, <1>5, <1>6, <1>7, DeviceStep
<1>9. Active(s)'
  BY <1>4, <1>6, <1>8 DEF Active
<1>. QED
  BY <1>2, <1>4, <1>5, <1>8, <1>9

\* The next device of the refresh.
LEMMA RefreshInv == IInv /\ Refresh => IInv'
<1>1. SUFFICES ASSUME IInv, Refresh PROVE IInv'
  OBVIOUS
<1>2. /\ UNCHANGED <<bus, kind, config, events, todo, NextLocalId, DeviceCount, command, sent, commands>>
      /\ ipc = "refresh" /\ slot <= MaxSlots /\ TypeInv /\ MaxSlots \in Nat
  BY <1>1, DescriptorAssumption DEF Refresh, busVars, scanVars, IInv
<1>3. slot \in Slots
  BY <1>2 DEF TypeInv, Slots
<1>4. CASE Active(slot) /\ OpenOk(slot, "user") /\ ipc' = "readDevice" /\ slot' = slot
  <2>1. /\ CountInv' /\ SlotsInv' /\ SentInv'
        /\ Active(slot)' /\ Devices'[slot].Opened
        /\ \A i \in Slots : i # slot => Devices'[i] = Devices[i]
    BY <1>1, <1>2, <1>3, <1>4, OpenStep
  <2>2. PICK s \in Slots : s = slot
    BY <1>3
  <2>3. TypeInv'
    BY <1>2, <1>4 DEF TypeInv
  <2>4. ControlInv'
    <3>1. Active(s)' /\ Devices'[s].Opened /\ slot' = s
      BY <1>4, <2>1, <2>2
    <3>. QED
      BY <1>4, <3>1 DEF ControlInv, Reading
  <2>5. ReadInv'
    <3>1. ipc' \in Reading /\ slot' = s /\ ipc \notin Reading
      BY <1>2, <1>4, <2>2 DEF Reading
    <3>. QED
      BY <1>1, <1>2, <2>1, <2>2, <3>1, ReadStep
  <2>. QED
    BY <2>1, <2>3, <2>4, <2>5 DEF IInv
<1>5. CASE slot' = slot + 1 /\ UNCHANGED <<Devices, ipc>>
  <2>1. TypeInv'
    BY <1>2, <1>3, <1>5 DEF TypeInv, Slots
  <2>2. ControlInv'
    BY <1>2, <1>5 DEF ControlInv, Reading
  <2>3. ReadInv'
    BY <1>1, <1>2, <1>5, ReadUnchanged DEF Reading
  <2>. QED
    BY <1>1, <1>2, <1>5, <2>1, <2>2, <2>3, TableUnchanged DEF IInv
<1>. QED
  BY <1>1, <1>4, <1>5 DEF Refresh

\* info or attach opens its device, or cannot.
LEMMA OpenForCommandInv == IInv /\ OpenForCommand => IInv'
<1>1. SUFFICES ASSUME IInv, OpenForCommand PROVE IInv'
  OBVIOUS
<1>2. /\ UNCHANGED <<bus, kind, config, events, todo, NextLocalId, DeviceCount, command, slot, sent, commands>>
      /\ ipc = "open" /\ TypeInv
  BY <1>1 DEF OpenForCommand, busVars, scanVars, IInv
<1>3. PICK s \in Slots : s = slot /\ Active(s)
  BY <1>1, <1>2 DEF IInv, ControlInv
<1>4. CASE OpenOk(slot, "user") /\ ipc' = "readDevice"
  <2>1. /\ CountInv' /\ SlotsInv' /\ SentInv'
        /\ Active(s)' /\ Devices'[s].Opened
        /\ \A i \in Slots : i # s => Devices'[i] = Devices[i]
    BY <1>1, <1>2, <1>3, <1>4, OpenStep
  <2>2. TypeInv'
    BY <1>2, <1>4 DEF TypeInv
  <2>3. ControlInv'
    BY <1>2, <1>3, <1>4, <2>1 DEF ControlInv, Reading
  <2>4. ReadInv'
    <3>1. ipc' \in Reading /\ slot' = s /\ ipc \notin Reading
      BY <1>2, <1>3, <1>4 DEF Reading
    <3>. QED
      BY <1>1, <1>2, <2>1, <3>1, ReadStep
  <2>. QED
    BY <2>1, <2>2, <2>3, <2>4 DEF IInv
<1>5. CASE /\ ipc' = IF command = "info" /\ Devices[slot].Opened THEN "readDevice" ELSE "prompt"
           /\ UNCHANGED Devices
  <2>1. TypeInv'
    BY <1>2, <1>5 DEF TypeInv
  <2>2. ControlInv'
    BY <1>2, <1>3, <1>5 DEF ControlInv, Reading, Active
  <2>3. ReadInv'
    BY <1>1, <1>2, <1>5, ReadUnchanged DEF Reading
  <2>. QED
    BY <1>1, <1>2, <1>5, <2>1, <2>2, <2>3, TableUnchanged DEF IInv
<1>. QED
  BY <1>1, <1>4, <1>5 DEF OpenForCommand

\* The receive thread opens a device.
LEMMA OpenForUrbInv == ASSUME IInv, NEW s \in Slots, OpenForUrb(s) PROVE IInv'
<1>1. /\ UNCHANGED <<bus, kind, config, events, todo, NextLocalId, DeviceCount, command, ipc, slot, sent, commands>>
      /\ Active(s) /\ OpenOk(s, "urb") /\ TypeInv /\ ControlInv
  BY DEF OpenForUrb, busVars, scanVars, IInv
<1>2. /\ CountInv' /\ SlotsInv' /\ SentInv'
      /\ Active(s)' /\ Devices'[s].Opened /\ Devices'[s].openedBy = "urb"
      /\ Devices'[s].info = Devices[s].info /\ ~Devices[s].Opened
      /\ \A i \in Slots : i # s => Devices'[i] = Devices[i]
  BY <1>1, OpenStep
<1>3. TypeInv'
  BY <1>1 DEF TypeInv
<1>4. ControlInv'
  <2>1. \A i \in Slots : /\ Active(i) => Active(i)'
                         /\ Devices[i].Opened => Devices'[i].Opened
                         /\ Devices'[i].info = Devices[i].info
    BY <1>2 DEF Active
  <2>. QED
    BY <1>1, <2>1 DEF ControlInv, Reading
<1>5. ReadInv'
  <2>1. Excused(Devices'[s], Devices'[s])
    BY <1>2 DEF Excused
  <2>. QED
    BY <1>1, <1>2, <2>1, ReadStep
<1>. QED
  BY <1>2, <1>3, <1>4, <1>5 DEF IInv

\* A step of UsbCaptureGetDescriptors: it goes on with the identity known, or
\* ends with a device that is complete or has failed.
LEMMA ReadingStep ==
    ASSUME IInv, ipc \in Reading, NEW new \in DeviceType,
           new.Active = Devices[slot].Active, new.path = Devices[slot].path,
           new.LocalId = Devices[slot].LocalId, new.Opened = Devices[slot].Opened,
           new.openedBy = Devices[slot].openedBy, Devices[slot].failed => new.failed,
           DeviceOK(new),
           Devices' = [Devices EXCEPT ![slot] = new],
           \/ ipc' \in {"readConfig", "build"} /\ new.info
           \/ ipc' = AfterDescriptors /\ Excused(new, new),
           UNCHANGED <<busVars, scanVars, command, slot, sent, commands>>
    PROVE  IInv'
<1>1. /\ UNCHANGED <<bus, kind, config, events, todo, NextLocalId, DeviceCount, command, slot, sent, commands>>
      /\ TypeInv
  BY DEF busVars, scanVars, IInv
<1>2. PICK s \in Slots : s = slot /\ Active(s) /\ Devices[s].Opened
  BY DEF IInv, ControlInv
<1>3. /\ CountInv' /\ SlotsInv' /\ SentInv'
      /\ Devices'[s] = new
      /\ \A i \in Slots : i # s => Devices'[i] = Devices[i]
  BY <1>1, <1>2, DeviceStep DEF Active
<1>4. AfterDescriptors \in {"refresh", "send", "prompt"} /\ (AfterDescriptors = "send" => command = "attach")
  BY DEF AfterDescriptors
<1>5. TypeInv'
  BY <1>1, <1>4 DEF TypeInv
<1>6. Active(s)' /\ Devices'[s].Opened /\ slot' = s
  BY <1>1, <1>2, <1>3 DEF Active
<1>7. ControlInv'
  BY <1>1, <1>3, <1>4, <1>6 DEF ControlInv, Reading
<1>8. ReadInv'
  <2>1. ipc' \in Reading \/ Excused(Devices'[s], Devices'[s])
    BY <1>3 DEF Reading
  <2>. QED
    BY <1>1, <1>2, <1>3, <1>6, <2>1, ReadStep
<1>. QED
  BY <1>3, <1>5, <1>7, <1>8 DEF IInv

\* The slot that the interactive thread reads.
LEMMA ReadSlot ==
    ASSUME IInv, ipc \in Reading
    PROVE  /\ slot \in Slots /\ Devices \in [Slots -> DeviceType]
           /\ Devices[slot] \in DeviceType /\ DeviceOK(Devices[slot])
           /\ Devices[slot].Active = TRUE /\ Devices[slot].path \in Real
           /\ config[Devices[slot].path] \in Seq(Descriptor)
           /\ ipc # "readDevice" => Devices[slot].info = TRUE
<1>1. slot \in Slots /\ Active(slot) /\ (ipc # "readDevice" => Devices[slot].info)
  BY DEF IInv, ControlInv, Reading
<1>2. Devices \in [Slots -> DeviceType] /\ DeviceOK(Devices[slot])
  BY <1>1 DEF IInv, SlotsInv
<1>3. PICK d \in DeviceType : d = Devices[slot]
  BY <1>1, <1>2
<1>4. d.Active \in BOOLEAN /\ d.info \in BOOLEAN
  BY DEF DeviceType
<1>5. d.Active = TRUE /\ (ipc # "readDevice" => d.info = TRUE)
  BY <1>1, <1>3, <1>4 DEF Active
<1>6. d.path \in Real
  BY <1>2, <1>3, <1>5 DEF DeviceOK
<1>7. config[d.path] \in Seq(Descriptor)
  BY <1>6, DescriptorAssumption DEF IInv, TypeInv
<1>. QED
  BY <1>1, <1>2, <1>3, <1>5, <1>6, <1>7

\* A read has failed: that is remembered, and the command goes on without.
LEMMA ReadFails ==
    ASSUME IInv, ipc \in Reading, Devices' = [Devices EXCEPT ![slot].failed = TRUE],
           ipc' = AfterDescriptors,
           UNCHANGED <<busVars, scanVars, command, slot, sent, commands>>
    PROVE  IInv'
<1>1. /\ slot \in Slots /\ Devices \in [Slots -> DeviceType]
      /\ Devices[slot] \in DeviceType /\ DeviceOK(Devices[slot]) /\ Devices[slot].Active = TRUE
  BY ReadSlot
<1>2. PICK old \in DeviceType : old = Devices[slot]
  BY <1>1
<1>3. PICK new : new = [old EXCEPT !.failed = TRUE]
  OBVIOUS
<1>4. /\ new \in DeviceType /\ new.Active = old.Active /\ new.path = old.path
      /\ new.LocalId = old.LocalId /\ new.Opened = old.Opened /\ new.info = old.info
      /\ new.openedBy = old.openedBy /\ new.failed = TRUE /\ new.parsed = old.parsed
      /\ new.Interfaces = old.Interfaces /\ new.Descriptors = old.Descriptors
  BY <1>2, <1>3 DEF DeviceType
<1>5. Devices' = [Devices EXCEPT ![slot] = new]
  BY <1>1, <1>2, <1>3
<1>6. DeviceOK(new)
  BY <1>1, <1>2, <1>4 DEF DeviceOK
<1>7. Excused(new, new)
  BY <1>4 DEF Excused
<1>. QED
  BY <1>2, <1>4, <1>5, <1>6, <1>7, ReadingStep

\* The device descriptor is read.
LEMMA ReadDeviceInv == IInv /\ ReadDeviceDescriptor => IInv'
<1>1. SUFFICES ASSUME IInv, ReadDeviceDescriptor PROVE IInv'
  OBVIOUS
<1>2. ipc \in Reading /\ UNCHANGED <<busVars, scanVars, command, slot, sent, commands>>
  BY <1>1 DEF ReadDeviceDescriptor, Reading
<1>3. CASE Devices' = [Devices EXCEPT ![slot].failed = TRUE] /\ ipc' = AfterDescriptors
  BY <1>1, <1>2, <1>3, ReadFails
<1>4. CASE Devices' = [Devices EXCEPT ![slot].info = TRUE] /\ ipc' = "readConfig"
  <2>1. /\ slot \in Slots /\ Devices \in [Slots -> DeviceType]
        /\ Devices[slot] \in DeviceType /\ DeviceOK(Devices[slot]) /\ Devices[slot].Active = TRUE
    BY <1>1, <1>2, ReadSlot
  <2>2. PICK old \in DeviceType : old = Devices[slot]
    BY <2>1
  <2>3. PICK new : new = [old EXCEPT !.info = TRUE]
    OBVIOUS
  <2>4. /\ new \in DeviceType /\ new.Active = old.Active /\ new.path = old.path
        /\ new.LocalId = old.LocalId /\ new.Opened = old.Opened /\ new.info = TRUE
        /\ new.openedBy = old.openedBy /\ new.failed = old.failed /\ new.parsed = old.parsed
        /\ new.Interfaces = old.Interfaces /\ new.Descriptors = old.Descriptors
    BY <2>2, <2>3 DEF DeviceType
  <2>5. Devices' = [Devices EXCEPT ![slot] = new]
    BY <1>4, <2>1, <2>2, <2>3
  <2>6. DeviceOK(new)
    BY <2>1, <2>2, <2>4 DEF DeviceOK
  <2>. QED
    BY <1>1, <1>2, <1>4, <2>2, <2>4, <2>5, <2>6, ReadingStep
<1>. QED
  BY <1>1, <1>3, <1>4 DEF ReadDeviceDescriptor

\* The configuration is read and parsed.
LEMMA ReadConfigInv == IInv /\ ReadConfigDescriptor => IInv'
<1>1. SUFFICES ASSUME IInv, ReadConfigDescriptor PROVE IInv'
  OBVIOUS
<1>2. ipc \in Reading /\ ipc = "readConfig" /\ UNCHANGED <<busVars, scanVars, command, slot, sent, commands>>
  BY <1>1 DEF ReadConfigDescriptor, Reading
<1>3. CASE Devices' = [Devices EXCEPT ![slot].failed = TRUE] /\ ipc' = AfterDescriptors
  BY <1>1, <1>2, <1>3, ReadFails
<1>4. CASE /\ Devices' = [Devices EXCEPT ![slot].parsed = TRUE,
                            ![slot].Interfaces =
                ParseConfiguration(Devices[slot].Interfaces, config[Devices[slot].path])]
           /\ ipc' = "build"
  <2>1. /\ slot \in Slots /\ Devices \in [Slots -> DeviceType]
        /\ Devices[slot] \in DeviceType /\ DeviceOK(Devices[slot]) /\ Devices[slot].Active = TRUE
        /\ Devices[slot].path \in Real /\ config[Devices[slot].path] \in Seq(Descriptor)
        /\ Devices[slot].info = TRUE
    BY <1>1, <1>2, ReadSlot
  <2>2. PICK old \in DeviceType : old = Devices[slot]
    BY <2>1
  <2>3. PICK c \in Seq(Descriptor) : c = config[old.path]
    BY <2>1, <2>2
  <2>4. PICK t : t = ParseConfiguration(old.Interfaces, c)
    OBVIOUS
  <2>5. t \in [Interfaces -> InterfaceType] /\ \A n \in Interfaces : ParsedEntry(t[n], n, c)
    <3>1. PICK before \in [Interfaces -> InterfaceType] : before = old.Interfaces
      BY DEF DeviceType, Interfaces
    <3>2. old.parsed \in BOOLEAN
      BY DEF DeviceType
    <3>3. old.parsed \/ before = NoInterfaces
      BY <2>1, <2>2, <3>1, <3>2 DEF DeviceOK
    <3>4. old.parsed => \A n \in Interfaces : ParsedEntry(before[n], n, c)
      BY <2>1, <2>2, <2>3, <3>1, <3>2 DEF DeviceOK
    <3>5. \A n \in Interfaces : SettingsOf(n, c) = {} => before[n] = NoInterfaces[n]
      BY <3>3, <3>4 DEF ParsedEntry
    <3>. QED
      BY <2>4, <3>1, <3>5, ParseKeepsSettings
  <2>6. PICK new : new = [old EXCEPT !.parsed = TRUE, !.Interfaces = t]
    OBVIOUS
  <2>7. t \in [0..(MaxInterfaces - 1) -> InterfaceType]
    BY <2>5 DEF Interfaces
  <2>8. /\ new \in DeviceType /\ new.Active = old.Active /\ new.path = old.path
        /\ new.LocalId = old.LocalId /\ new.Opened = old.Opened /\ new.info = old.info
        /\ new.openedBy = old.openedBy /\ new.failed = old.failed /\ new.parsed = TRUE
        /\ new.Interfaces = t /\ new.Descriptors = old.Descriptors
    BY <2>2, <2>6, <2>7 DEF DeviceType
  <2>9. Devices' = [Devices EXCEPT ![slot] = new]
    BY <1>4, <2>1, <2>2, <2>3, <2>4, <2>6
  <2>10. DeviceOK(new)
    BY <2>1, <2>2, <2>3, <2>5, <2>8 DEF DeviceOK
  <2>. QED
    BY <1>1, <1>2, <1>4, <2>1, <2>2, <2>8, <2>9, <2>10, ReadingStep
<1>. QED
  BY <1>1, <1>3, <1>4 DEF ReadConfigDescriptor

\* The descriptors are stored.
LEMMA BuildInv == IInv /\ BuildDescriptorBuffer => IInv'
<1>1. SUFFICES ASSUME IInv, BuildDescriptorBuffer PROVE IInv'
  OBVIOUS
<1>2. /\ ipc \in Reading /\ ipc = "build" /\ ipc' = AfterDescriptors
      /\ UNCHANGED <<busVars, scanVars, command, slot, sent, commands>>
  BY <1>1 DEF BuildDescriptorBuffer, Reading
<1>3. /\ slot \in Slots /\ Devices \in [Slots -> DeviceType]
      /\ Devices[slot] \in DeviceType /\ DeviceOK(Devices[slot]) /\ Devices[slot].Active = TRUE
      /\ Devices[slot].path \in Real /\ config[Devices[slot].path] \in Seq(Descriptor)
      /\ Devices[slot].info = TRUE
  BY <1>1, <1>2, ReadSlot
<1>4. PICK old \in DeviceType : old = Devices[slot]
  BY <1>3
<1>5. DeviceDescriptor \in Descriptor /\ ConfigurationDescriptor \in Descriptor
  BY DEF DeviceDescriptor, ConfigurationDescriptor, Descriptor
<1>6. CASE Devices' = [Devices EXCEPT ![slot].Descriptors =
                <<DeviceDescriptor, ConfigurationDescriptor>> \o config[Devices[slot].path]]
  <2>1. PICK c \in Seq(Descriptor) : c = config[old.path]
    BY <1>3, <1>4
  <2>2. PICK hdr : hdr = <<DeviceDescriptor, ConfigurationDescriptor>>
    OBVIOUS
  <2>3. hdr \in Seq(Descriptor) /\ Len(hdr) = 2 /\ hdr[1] = DeviceDescriptor
    BY <1>5, <2>2
  <2>4. PICK ds : ds = hdr \o c
    OBVIOUS
  <2>5. ds \in Seq(Descriptor) /\ ds[1] = DeviceDescriptor
    <3>1. /\ ds \in Seq(Descriptor) /\ Len(ds) = Len(hdr) + Len(c)
          /\ \A i \in 1..(Len(hdr) + Len(c)) : ds[i] = IF i <= Len(hdr) THEN hdr[i] ELSE c[i - Len(hdr)]
      BY <2>1, <2>3, <2>4, ConcatProperties
    <3>2. Len(c) \in Nat
      OBVIOUS
    <3>. QED
      BY <2>3, <3>1, <3>2
  <2>6. PICK new : new = [old EXCEPT !.Descriptors = ds]
    OBVIOUS
  <2>7. /\ new \in DeviceType /\ new.Active = old.Active /\ new.path = old.path
        /\ new.LocalId = old.LocalId /\ new.Opened = old.Opened /\ new.info = old.info
        /\ new.openedBy = old.openedBy /\ new.failed = old.failed /\ new.parsed = old.parsed
        /\ new.Interfaces = old.Interfaces /\ new.Descriptors = ds
    BY <1>4, <2>5, <2>6 DEF DeviceType
  <2>8. Devices' = [Devices EXCEPT ![slot] = new]
    BY <1>3, <1>4, <1>6, <2>1, <2>2, <2>4, <2>6
  <2>9. DeviceOK(new)
    BY <1>3, <1>4, <2>5, <2>7 DEF DeviceOK
  <2>10. Excused(new, new)
    BY <1>3, <1>4, <2>1, <2>2, <2>4, <2>7 DEF Excused, Complete
  <2>. QED
    BY <1>1, <1>2, <1>4, <2>7, <2>8, <2>9, <2>10, ReadingStep
<1>7. CASE Devices' = [Devices EXCEPT ![slot].Descriptors = <<DeviceDescriptor>>,
                                      ![slot].failed = TRUE]
  <2>1. PICK ds : ds = <<DeviceDescriptor>>
    OBVIOUS
  <2>2. ds \in Seq(Descriptor) /\ ds[1] = DeviceDescriptor
    BY <1>5, <2>1
  <2>3. PICK new : new = [old EXCEPT !.Descriptors = ds, !.failed = TRUE]
    OBVIOUS
  <2>4. /\ new \in DeviceType /\ new.Active = old.Active /\ new.path = old.path
        /\ new.LocalId = old.LocalId /\ new.Opened = old.Opened /\ new.info = old.info
        /\ new.openedBy = old.openedBy /\ new.failed = TRUE /\ new.parsed = old.parsed
        /\ new.Interfaces = old.Interfaces /\ new.Descriptors = ds
    BY <1>4, <2>2, <2>3 DEF DeviceType
  <2>5. Devices' = [Devices EXCEPT ![slot] = new]
    BY <1>3, <1>4, <1>7, <2>1, <2>3
  <2>6. DeviceOK(new)
    BY <1>3, <1>4, <2>2, <2>4 DEF DeviceOK
  <2>7. Excused(new, new)
    BY <2>4 DEF Excused
  <2>. QED
    BY <1>1, <1>2, <1>4, <2>4, <2>5, <2>6, <2>7, ReadingStep
<1>. QED
  BY <1>1, <1>6, <1>7 DEF BuildDescriptorBuffer

\* The attach request is sent: the device is open and nobody is reading it.
LEMMA SendAttachInv == IInv /\ SendAttach => IInv'
<1>1. SUFFICES ASSUME IInv, SendAttach PROVE IInv'
  OBVIOUS
<1>2. /\ UNCHANGED <<bus, kind, config, events, todo, Devices, NextLocalId, DeviceCount, command, slot, commands>>
      /\ ipc = "send" /\ ipc' = "prompt" /\ TypeInv /\ CountInv /\ SlotsInv /\ SentInv
  BY <1>1 DEF SendAttach, busVars, scanVars, IInv
<1>3. PICK s \in Slots : s = slot /\ Active(s) /\ Devices[s].Opened
  BY <1>1, <1>2 DEF IInv, ControlInv
<1>4. PICK d \in DeviceType : d = Devices[s]
  BY <1>2, <1>3 DEF SlotsInv
<1>5. PICK m : m = [info |-> d.info, Descriptors |-> d.Descriptors]
  OBVIOUS
<1>6. m \in [info: BOOLEAN, Descriptors: Seq(Descriptor)] /\ m.info = d.info /\ m.Descriptors = d.Descriptors
  BY <1>4, <1>5 DEF DeviceType
<1>7. Excused(d, d)
  BY <1>1, <1>2, <1>3, <1>4 DEF IInv, ReadInv, Reading
<1>8. MessageOK(m, d)
  BY <1>2, <1>3, <1>4, <1>6, <1>7 DEF MessageOK, Excused, Complete, Active, SlotsInv, DeviceOK
<1>9. sent' = [sent EXCEPT ![s] = @ \cup {m}]
  BY <1>1, <1>3, <1>4, <1>5 DEF SendAttach
<1>10. SentInv'
  <2>1. sent' \in [Slots -> SUBSET [info: BOOLEAN, Descriptors: Seq(Descriptor)]]
    BY <1>2, <1>6, <1>9 DEF SentInv
  <2>2. \A i \in Slots : \A x \in sent'[i] : MessageOK(x, Devices[i])
    BY <1>2, <1>4, <1>8, <1>9 DEF SentInv
  <2>3. \A x, y : MessageOK(x, y)' <=> MessageOK(x, y)
    BY <1>2 DEF MessageOK, Excused, Complete
  <2>. QED
    BY <1>2, <2>1, <2>2, <2>3 DEF SentInv
<1>11. CountInv'
  BY <1>2 DEF CountInv, Active
<1>12. SlotsInv'
  <2>1. \A x : DeviceOK(x)' <=> DeviceOK(x)
    BY <1>2 DEF DeviceOK
  <2>. QED
    BY <1>2, <2>1 DEF SlotsInv
<1>13. TypeInv'
  BY <1>2 DEF TypeInv
<1>14. ControlInv'
  BY <1>2 DEF ControlInv, Reading
<1>15. ReadInv'
  BY <1>1, <1>2, ReadUnchanged DEF Reading
<1>. QED
  BY <1>10, <1>11, <1>12, <1>13, <1>14, <1>15 DEF IInv

\* Nothing changes.
LEMMA DescriptorsStutter == IInv /\ UNCHANGED vars => IInv'
<1>1. SUFFICES ASSUME IInv, UNCHANGED vars PROVE IInv'
  OBVIOUS
<1>2. UNCHANGED <<bus, kind, config, events, todo, Devices, NextLocalId, DeviceCount, command, ipc, slot, sent, commands>>
  BY <1>1 DEF vars, busVars, scanVars
<1>3. TypeInv' /\ ControlInv'
  BY <1>1, <1>2 DEF IInv, TypeInv, ControlInv, Active
<1>4. ReadInv'
  BY <1>1, <1>2, ReadUnchanged
<1>. QED
  BY <1>1, <1>2, <1>3, <1>4, TableUnchanged DEF IInv

(***************************************************************************)
(* The inductive invariant of the captured devices.  That new LocalIds are *)
(* fresh needs NextLocalId = DeviceCount + 1; that an attach is complete   *)
(* needs where the interactive thread is in reading the device, and that a *)
(* device once open stays open and keeps who opened it.                    *)
(***************************************************************************)
THEOREM DescriptorsInductive == Spec => []IInv
<1>1. ASSUME IInv, [Next]_vars PROVE IInv'
  <2>1. CASE Interactive
    BY <1>1, <2>1, ScanInv, EnumerateInv, EnumerationEndsInv, RefreshInv, RefreshEndsInv,
       InfoOrAttachInv, OpenForCommandInv, ReadDeviceInv, ReadConfigInv, BuildInv, SendAttachInv
       DEF Interactive
  <2>2. ASSUME NEW i \in Slots, OpenForUrb(i) PROVE IInv'
    BY <1>1, <2>2, OpenForUrbInv
  <2>3. ASSUME NEW r \in Real, BusEvent(r) PROVE IInv'
    BY <1>1, <2>3, BusEventInv
  <2>4. CASE UNCHANGED vars
    BY <1>1, <2>4, DescriptorsStutter
  <2>. QED
    BY <1>1, <2>1, <2>2, <2>3, <2>4 DEF Next
<1>. QED
  BY <1>1, DescriptorsInit, PTL DEF Spec

(***************************************************************************)
(* Every variable keeps its type, for any number of slots, real devices    *)
(* and interfaces and any configurations: the refresh never indexes beyond *)
(* the table, the counters of the enumeration stay within it, and what is  *)
(* parsed or stored is well formed.                                        *)
(***************************************************************************)
THEOREM DescriptorsTypeOK == Spec => []TypeOK
<1>1. IInv => TypeOK
  <2>1. SUFFICES ASSUME IInv PROVE TypeOK
    OBVIOUS
  <2>2. TypeInv /\ CountInv /\ SlotsInv /\ SentInv
    BY <2>1 DEF IInv
  <2>3. NextLocalId \in 1..MaxLocalId /\ DeviceCount \in 0..MaxSlots
    BY <2>2, DescriptorAssumption DEF CountInv, MaxLocalId
  <2>4. \A i \in Slots : Active(i) => Devices[i].path \in Real /\ Devices[i].LocalId # 0
    <3>1. SUFFICES ASSUME NEW i \in Slots, Active(i)
                   PROVE  Devices[i].path \in Real /\ Devices[i].LocalId # 0
      OBVIOUS
    <3>2. Devices[i].path \in Real
      BY <2>2, <3>1 DEF SlotsInv, DeviceOK, Active
    <3>3. Devices[i].LocalId \in 1..DeviceCount /\ DeviceCount \in 0..MaxSlots
      BY <2>2, <3>1 DEF CountInv
    <3>4. Devices[i].LocalId # 0
      BY <3>3
    <3>. QED
      BY <3>2, <3>4
  <2>5. Devices \in [Slots -> DeviceType]
    BY <2>2 DEF SlotsInv
  <2>6. sent \in [Slots -> SUBSET [info: BOOLEAN, Descriptors: Seq(Descriptor)]]
    BY <2>2 DEF SentInv
  <2>. QED
    BY <2>2, <2>3, <2>4, <2>5, <2>6 DEF TypeOK, TypeInv
<1>. QED
  BY <1>1, DescriptorsInductive, PTL

(***************************************************************************)
(* However often the user scans and devices come and go, no device has two *)
(* slots, no two have the same LocalId, and DeviceCount counts the slots   *)
(* in use (UsbCaptureEnumerateDevices).                                    *)
(***************************************************************************)
THEOREM OneSlotPerDeviceHolds == Spec => []OneSlotPerDevice
<1>1. IInv => OneSlotPerDevice
  BY DEF IInv, CountInv, OneSlotPerDevice
<1>. QED
  BY <1>1, DescriptorsInductive, PTL

(***************************************************************************)
(* Whatever the configuration, the interface table of a device holds, for  *)
(* every interface it has room for, the last setting with its own          *)
(* endpoints (ReadConfigDescriptor), also after it has been parsed again.  *)
(***************************************************************************)
THEOREM ParsedAsConfiguredHolds == Spec => []ParsedAsConfigured
<1>1. IInv => ParsedAsConfigured
  <2>1. SUFFICES ASSUME IInv, NEW i \in Slots, Active(i), Devices[i].parsed,
                        NEW n \in Interfaces
                 PROVE  ParsedEntry(Devices[i].Interfaces[n], n, config[Devices[i].path])
    BY DEF ParsedAsConfigured, Interfaces
  <2>2. DeviceOK(Devices[i])
    BY <2>1 DEF IInv, SlotsInv
  <2>. QED
    BY <2>1, <2>2 DEF DeviceOK, Active
<1>. QED
  BY <1>1, DescriptorsInductive, PTL

(***************************************************************************)
(* An attach request carries the identity and all descriptors of its       *)
(* device, unless a read has failed or the receive thread opened it        *)
(* (AttachRealDevice, UsbCaptureGetDescriptors).                           *)
(***************************************************************************)
THEOREM AttachCarriesDescriptorsHolds == Spec => []AttachCarriesDescriptors
<1>1. IInv => AttachCarriesDescriptors
  BY DEF IInv, SentInv, MessageOK, Excused, AttachCarriesDescriptors
<1>. QED
  BY <1>1, DescriptorsInductive, PTL

\* The search finds a device descriptor that comes first, and cuts it to wLength.
LEMMA FirstFound ==
    ASSUME NEW ds \in Seq(Descriptor), ds # <<>>, ds[1] = DeviceDescriptor,
           NEW setup, setup.type = "DEVICE", setup.index = 0, setup.wLength \in Nat
    PROVE  HandleGetDescriptor(ds, setup)
              = <<[descriptor |-> ds[1],
                   length |-> IF 18 <= setup.wLength THEN 18 ELSE setup.wLength]>>
<1>1. PICK a : a = HandleGetDescriptor(ds, setup)
  OBVIOUS
<1>2. AnswersRequest(a, ds, setup)
  BY <1>1, SearchFindsDescriptor
<1>3. Len(ds) \in Nat /\ Len(ds) >= 1 /\ DOMAIN ds = 1..Len(ds)
  <2>1. Len(ds) \in Nat /\ Len(ds) # 0
    BY EmptySeq
  <2>. QED
    BY <2>1
<1>4. ds[1].type = "DEVICE" /\ Size(ds[1]) = 18
  BY DEF DeviceDescriptor, Size
<1>5. IsAsked(1, ds, setup)
  <2>1. {q \in 1..(1 - 1) : ds[q].type = setup.type} = {}
    OBVIOUS
  <2>2. Cardinality({q \in 1..(1 - 1) : ds[q].type = setup.type}) = 0
    BY <2>1, FS_EmptySet
  <2>. QED
    BY <1>4, <2>2 DEF IsAsked
<1>6. ASSUME NEW p \in 1..Len(ds), IsAsked(p, ds, setup) PROVE p = 1
  <2>1. SUFFICES ASSUME p # 1 PROVE FALSE
    OBVIOUS
  <2>2. PICK A : A = {q \in 1..(p - 1) : ds[q].type = setup.type}
    OBVIOUS
  <2>3. Cardinality(A) = 0
    BY <1>6, <2>2 DEF IsAsked
  <2>4. IsFiniteSet(A)
    <3>1. 1 \in Int /\ p - 1 \in Int
      OBVIOUS
    <3>2. IsFiniteSet(1..(p - 1))
      BY <3>1, FS_Interval
    <3>3. A \in SUBSET (1..(p - 1))
      BY <2>2
    <3>. QED
      BY <3>2, <3>3, FS_Subset
  <2>5. A = {}
    BY <2>3, <2>4, FS_EmptySet
  <2>6. 1 \in A
    BY <1>4, <2>1, <2>2
  <2>. QED
    BY <2>5, <2>6
<1>7. PICK p \in 1..Len(ds) :
         /\ IsAsked(p, ds, setup)
         /\ a = <<[descriptor |-> ds[p],
                   length |-> IF Size(ds[p]) <= setup.wLength THEN Size(ds[p]) ELSE setup.wLength]>>
  BY <1>2, <1>3, <1>5 DEF AnswersRequest
<1>8. p = 1
  BY <1>6, <1>7
<1>. QED
  BY <1>1, <1>4, <1>7, <1>8

(***************************************************************************)
(* Whenever the driver answers a request for descriptors by itself         *)
(* (VusbProcessStandardRequest), the search of the userspace server        *)
(* (HandleStandardRequest) through the same descriptors finds that         *)
(* descriptor too, for every length n: with the driver's length unless n   *)
(* has lost its upper bits in wLength, and then cut to what is left of n.  *)
(***************************************************************************)
THEOREM DriverAgrees ==
    ASSUME NEW ds \in Seq(Descriptor), ds = <<>> \/ ds[1] = DeviceDescriptor,
           NEW type, NEW index \in Nat, NEW n \in Nat,
           VusbProcessStandardRequest(ds, VusbUrbParse(type, index, n), n) # <<>>
    PROVE  SameDescriptor(HandleGetDescriptor(ds, VusbUrbParse(type, index, n)),
                          VusbProcessStandardRequest(ds, VusbUrbParse(type, index, n), n), n)
<1>1. PICK setup : setup = VusbUrbParse(type, index, n)
  OBVIOUS
<1>2. /\ setup.type = type /\ setup.index = index
      /\ setup.wLength \in Nat /\ setup.wLength = n % 65536
      /\ setup.bmRequestType = 128 /\ setup.bRequest = 6
  BY <1>1 DEF VusbUrbParse
<1>3. ds # <<>> /\ setup.type = "DEVICE" /\ setup.index = 0 /\ n >= 18
  BY <1>1 DEF VusbProcessStandardRequest
<1>4. PICK driver : driver = VusbProcessStandardRequest(ds, setup, n)
  OBVIOUS
<1>5. driver = <<[descriptor |-> ds[1], length |-> 18]>>
  BY <1>2, <1>3, <1>4 DEF VusbProcessStandardRequest
<1>6. driver[1].descriptor = ds[1] /\ driver[1].length = 18
  BY <1>5
<1>7. HandleGetDescriptor(ds, setup)
         = <<[descriptor |-> ds[1],
              length |-> IF 18 <= setup.wLength THEN 18 ELSE setup.wLength]>>
  BY <1>2, <1>3, FirstFound
<1>8. SameDescriptor(HandleGetDescriptor(ds, setup), driver, n)
  BY <1>2, <1>6, <1>7 DEF SameDescriptor
<1>. QED
  BY <1>1, <1>4, <1>8

(***************************************************************************)
(* The descriptors of every attach request are searched correctly by the   *)
(* server (HandleStandardRequest), and where the driver answers by itself  *)
(* (VusbProcessStandardRequest) the search finds the same descriptor, in   *)
(* the same length unless wLength has wrapped around.                      *)
(***************************************************************************)
THEOREM AnsweredFromStoreHolds == Spec => []AnsweredFromStore
<1>1. IInv => AnsweredFromStore
  <2>1. SUFFICES ASSUME IInv, NEW i \in Slots, NEW m \in sent[i],
                        NEW type \in {"DEVICE", "CONFIGURATION", "INTERFACE", "ENDPOINT", "STRING"},
                        NEW index \in 0..2, NEW n \in {0, 8, 18, 65536, 65544, 65560}
                 PROVE  /\ AnswersRequest(HandleGetDescriptor(m.Descriptors, VusbUrbParse(type, index, n)),
                                          m.Descriptors, VusbUrbParse(type, index, n))
                        /\ VusbProcessStandardRequest(m.Descriptors, VusbUrbParse(type, index, n), n) # <<>> =>
                              SameDescriptor(HandleGetDescriptor(m.Descriptors, VusbUrbParse(type, index, n)),
                                 VusbProcessStandardRequest(m.Descriptors, VusbUrbParse(type, index, n), n), n)
    BY DEF AnsweredFromStore
  <2>2. m \in [info: BOOLEAN, Descriptors: Seq(Descriptor)] /\ MessageOK(m, Devices[i])
    BY <2>1 DEF IInv, SentInv
  <2>3. PICK ds \in Seq(Descriptor) : ds = m.Descriptors
    BY <2>2
  <2>4. ds = <<>> \/ ds[1] = DeviceDescriptor
    BY <2>2, <2>3 DEF MessageOK
  <2>5. PICK setup : setup = VusbUrbParse(type, index, n)
    OBVIOUS
  <2>6. setup.index \in Nat /\ setup.wLength \in Nat /\ index \in Nat /\ n \in Nat
    BY <2>5 DEF VusbUrbParse
  <2>7. AnswersRequest(HandleGetDescriptor(ds, setup), ds, setup)
    BY <2>6, SearchFindsDescriptor
  <2>8. VusbProcessStandardRequest(ds, VusbUrbParse(type, index, n), n) # <<>> =>
           SameDescriptor(HandleGetDescriptor(ds, VusbUrbParse(type, index, n)),
              VusbProcessStandardRequest(ds, VusbUrbParse(type, index, n), n), n)
    BY <2>4, <2>6, DriverAgrees
  <2>. QED
    BY <2>3, <2>5, <2>7, <2>8
<1>. QED
  BY <1>1, DescriptorsInductive, PTL

----------------------------------------------------------------------------
(* The session (VusbClient): no URB is answered twice, although two threads*)
(* read from one stream and may tear its messages.                         *)

\* A unit of the stream, and where URB u starts in it.
Unit == [cmd: Requests \cup {"SUBMIT_URB"}, tag: Nat, at: Nat \ {0}, len: Nat]
IsStart(x, u) == x.cmd = "SUBMIT_URB" /\ x.tag = u /\ x.at = 1

\* The places where a URB that will be answered can be.
InStream(u) == \E k \in 1..Len(stream) : IsStart(stream[k], u)
InHeader(u) == rpc = "payload" /\ header.cmd = "SUBMIT_URB" /\ header.tag = u
InService(u) == rpc \in {"urb", "open", "transfer"} /\ serving.urb = u
Waiting(u) == u > urbs \/ InStream(u) \/ InHeader(u) \/ InService(u)

\* The stream holds URBs that were sent, and the start of each at most once.
StreamInv ==
    /\ stream \in Seq(Unit)
    /\ \A k \in 1..Len(stream) : stream[k].cmd = "SUBMIT_URB" => stream[k].tag \in 1..urbs
    /\ \A j, k \in 1..Len(stream) : \A u \in Nat :
          (IsStart(stream[j], u) /\ IsStart(stream[k], u)) => j = k

ReceiverInv ==
    /\ rpc \in {"header", "payload", "urb", "open", "transfer", "ended", "absent"}
    /\ rpc = "payload" => header \in Unit /\ header.len > 2
    /\ (rpc = "payload" /\ header.cmd = "SUBMIT_URB") => header.tag \in 1..urbs
    /\ rpc \in {"urb", "open", "transfer"} => serving.urb \in 1..urbs
    /\ serving \in [urb: 0..MaxUrbs, device: 0..MaxLocals]

RequestInv ==
    /\ requests \in Seq([cmd: Requests, tag: 1..MaxLines])
    /\ mpc \in {"prompt", "typing", "openinfo", "openattach", "await", "infos", "closing", "done"}
    /\ mpc \in {"openinfo", "openattach"} => lines # 0
    /\ infos \in 0..MaxListed
    /\ lines \in 0..MaxLines

DevInv ==
    /\ {Running, Connected, open, lost, mismatch} \subseteq BOOLEAN
    /\ dev \in [1..MaxLocals -> [Opened: BOOLEAN, handle: {"open", "invalid"}]]

\* A URB that has been answered is nowhere any more, and no URB is in two places.
OnceInv ==
    /\ urbs \in 0..MaxUrbs
    /\ answers \in [1..MaxUrbs -> Nat]
    /\ \A u \in 1..MaxUrbs :
          /\ answers[u] <= 1
          /\ Waiting(u) => answers[u] = 0
          /\ InStream(u) => ~InHeader(u) /\ ~InService(u)

SessionInv == StreamInv /\ ReceiverInv /\ RequestInv /\ DevInv /\ OnceInv

\* Units are taken from the front of the stream.
LEMMA StreamTaken ==
    ASSUME StreamInv, NEW n \in Nat, n <= Len(stream), urbs' = urbs,
           stream' = SubSeq(stream, n + 1, Len(stream))
    PROVE  /\ StreamInv'
           /\ \A u : InStream(u)' => InStream(u)
           /\ n >= 1 => \A u \in Nat : IsStart(stream[1], u) => ~InStream(u)'
<1>1. PICK L \in Nat : L = Len(stream)
  BY DEF StreamInv
<1>2. stream \in Seq(Unit) /\ \A i \in 1..L : stream[i] \in Unit
  BY <1>1 DEF StreamInv
<1>3. n + 1 \in Int /\ L \in Int /\ \A i \in (n + 1)..L : stream[i] \in Unit
  BY <1>2
<1>4. PICK s : s = SubSeq(stream, n + 1, L)
  OBVIOUS
<1>5. /\ s \in Seq(Unit)
      /\ Len(s) = IF n + 1 <= L THEN L - (n + 1) + 1 ELSE 0
      /\ \A i \in 1..(L - (n + 1) + 1) : s[i] = stream[(n + 1) + i - 1]
  BY <1>3, <1>4, SubSeqProperties
<1>6. /\ Len(s) = L - n
      /\ \A i \in 1..(L - n) : s[i] = stream[n + i]
  <2>1. n <= L /\ L - (n + 1) + 1 = L - n
    BY <1>1
  <2>2. Len(s) = L - n
    BY <1>5, <2>1
  <2>3. ASSUME NEW i \in 1..(L - n) PROVE s[i] = stream[n + i]
    <3>1. (n + 1) + i - 1 = n + i /\ i \in 1..(L - (n + 1) + 1)
      BY <2>1
    <3>. QED
      BY <1>5, <3>1
  <2>. QED
    BY <2>2, <2>3
<1>7. stream' = s
  BY <1>1, <1>4
<1>8. \A i \in 1..(L - n) : n + i \in 1..L
  BY <1>1
<1>9. \A k \in 1..Len(s) : s[k].cmd = "SUBMIT_URB" => s[k].tag \in 1..urbs
  BY <1>1, <1>6, <1>8 DEF StreamInv
<1>10. ASSUME NEW j \in 1..Len(s), NEW k \in 1..Len(s), NEW u \in Nat, IsStart(s[j], u), IsStart(s[k], u)
       PROVE  j = k
  <2>1. n + j = n + k
    BY <1>1, <1>6, <1>8, <1>10 DEF StreamInv
  <2>. QED
    BY <1>1, <1>6, <2>1
<1>11. StreamInv'
  <2>1. \A x, u : IsStart(x, u)' <=> IsStart(x, u)
    BY DEF IsStart
  <2>. QED
    BY <1>5, <1>7, <1>9, <1>10, <2>1 DEF StreamInv, Unit
<1>12. \A u : InStream(u)' => \E k \in 1..(L - n) : IsStart(stream[n + k], u)
  BY <1>6, <1>7 DEF InStream, IsStart
<1>13. \A u : InStream(u)' => InStream(u)
  BY <1>1, <1>8, <1>12 DEF InStream
<1>14. ASSUME n >= 1, NEW u \in Nat, IsStart(stream[1], u), InStream(u)' PROVE FALSE
  <2>1. PICK k \in 1..(L - n) : IsStart(stream[n + k], u)
    BY <1>12, <1>14
  <2>2. 1 \in 1..L /\ n + k \in 1..L /\ n + k # 1
    BY <1>1, <1>8, <1>14
  <2>. QED
    BY <1>1, <1>14, <2>1, <2>2 DEF StreamInv
<1>. QED
  BY <1>11, <1>13, <1>14

\* What is left of the stream is lost.
LEMMA StreamDropped ==
    ASSUME stream' = <<>>
    PROVE  StreamInv' /\ \A u : ~InStream(u)'
<1>1. <<>> \in Seq(Unit) /\ Len(<<>>) = 0 /\ 1..0 = {}
  OBVIOUS
<1>2. StreamInv'
  BY <1>1 DEF StreamInv, Unit
<1>. QED
  BY <1>1, <1>2 DEF InStream

\* The server appends a message of n units.
LEMMA StreamAppended ==
    ASSUME StreamInv, NEW cmd \in Requests \cup {"SUBMIT_URB"}, NEW tag \in Nat, NEW n \in Nat,
           stream' = stream \o Message(cmd, tag, n), urbs \in Nat,
           \/ cmd # "SUBMIT_URB" /\ urbs' = urbs
           \/ tag = urbs + 1 /\ urbs' = urbs + 1
    PROVE  /\ StreamInv'
           /\ \A u : InStream(u)' => InStream(u) \/ (cmd = "SUBMIT_URB" /\ u = tag)
<1>1. PICK L \in Nat : L = Len(stream)
  BY DEF StreamInv
<1>2. PICK m : m = Message(cmd, tag, n)
  OBVIOUS
<1>3. m = [k \in 1..n |-> [cmd |-> cmd, tag |-> tag, at |-> k, len |-> n]]
  BY <1>2 DEF Message
<1>4. \A k \in 1..n : [cmd |-> cmd, tag |-> tag, at |-> k, len |-> n] \in Unit
  BY DEF Unit
<1>5. m \in [1..n -> Unit]
  BY <1>3, <1>4
<1>6. m \in Seq(Unit) /\ Len(m) = n
  <2>1. m \in Seq(Unit)
    BY <1>5, SeqDef
  <2>2. DOMAIN m = 1..Len(m) /\ Len(m) \in Nat /\ DOMAIN m = 1..n
    BY <1>5, <2>1
  <2>3. Len(m) = n
    <3>1. PICK l \in Nat : l = Len(m) /\ 1..l = 1..n
      BY <2>2
    <3>2. \A k \in Nat : (1 <= k /\ k <= n) <=> (1 <= k /\ k <= l)
      BY <3>1
    <3>3. l = n
      <4>1. ((1 <= n /\ n <= n) <=> (1 <= n /\ n <= l)) /\ ((1 <= l /\ l <= n) <=> (1 <= l /\ l <= l))
        BY <3>2
      <4>. QED
        BY <4>1
    <3>. QED
      BY <3>1, <3>3
  <2>. QED
    BY <2>1, <2>3
<1>7. \A k \in 1..n : m[k].cmd = cmd /\ m[k].tag = tag /\ m[k].at = k
  BY <1>3
<1>8. PICK s : s = stream \o m
  OBVIOUS
<1>9. /\ s \in Seq(Unit) /\ Len(s) = L + n
      /\ \A i \in 1..(L + n) : s[i] = IF i <= L THEN stream[i] ELSE m[i - L]
  BY <1>1, <1>6, <1>8, ConcatProperties DEF StreamInv
<1>10. stream' = s
  BY <1>2, <1>8
<1>11. ASSUME NEW i \in 1..(L + n)
       PROVE  \/ i \in 1..L /\ s[i] = stream[i]
              \/ i - L \in 1..n /\ s[i].cmd = cmd /\ s[i].tag = tag /\ s[i].at = i - L
  <2>1. CASE i <= L
    BY <1>9, <2>1
  <2>2. CASE ~(i <= L)
    <3>1. i - L \in 1..n /\ s[i] = m[i - L]
      BY <1>9, <2>2
    <3>. QED
      BY <1>7, <3>1
  <2>. QED
    BY <2>1, <2>2
<1>12. 1..urbs \subseteq 1..urbs' /\ (cmd = "SUBMIT_URB" => tag = urbs + 1 /\ tag \in 1..urbs')
  BY DEF Requests
<1>13. \A k \in 1..Len(s) : s[k].cmd = "SUBMIT_URB" => s[k].tag \in 1..urbs'
  BY <1>1, <1>9, <1>11, <1>12 DEF StreamInv
<1>14. ASSUME NEW u \in Nat, NEW i \in 1..L, IsStart(stream[i], u) PROVE u <= urbs
  BY <1>1, <1>14 DEF StreamInv, IsStart
<1>15. ASSUME NEW j \in 1..Len(s), NEW k \in 1..Len(s), NEW u \in Nat, IsStart(s[j], u), IsStart(s[k], u)
       PROVE  j = k
  <2>1. j \in 1..(L + n) /\ k \in 1..(L + n)
    BY <1>9
  <2>2. CASE j \in 1..L /\ s[j] = stream[j] /\ k \in 1..L /\ s[k] = stream[k]
    BY <1>1, <1>15, <2>2 DEF StreamInv
  <2>3. CASE j - L \in 1..n /\ s[j].cmd = cmd /\ s[j].tag = tag /\ s[j].at = j - L
    <3>1. j - L = 1 /\ u = tag /\ tag = urbs + 1
      BY <1>12, <1>15, <2>3 DEF IsStart
    <3>2. ~(k \in 1..L /\ s[k] = stream[k])
      <4>1. (k \in 1..L /\ s[k] = stream[k]) => u <= urbs
        BY <1>14, <1>15
      <4>. QED
        BY <3>1, <4>1
    <3>3. k - L = 1
      BY <1>11, <1>15, <2>1, <3>2 DEF IsStart
    <3>. QED
      BY <2>1, <3>1, <3>3
  <2>4. CASE k - L \in 1..n /\ s[k].cmd = cmd /\ s[k].tag = tag /\ s[k].at = k - L
    <3>1. k - L = 1 /\ u = tag /\ tag = urbs + 1
      BY <1>12, <1>15, <2>4 DEF IsStart
    <3>2. ~(j \in 1..L /\ s[j] = stream[j])
      <4>1. (j \in 1..L /\ s[j] = stream[j]) => u <= urbs
        BY <1>14, <1>15
      <4>. QED
        BY <3>1, <4>1
    <3>3. j - L = 1
      BY <1>11, <1>15, <2>1, <3>2 DEF IsStart
    <3>. QED
      BY <2>1, <3>1, <3>3
  <2>. QED
    BY <1>11, <2>1, <2>2, <2>3, <2>4
<1>16. StreamInv'
  <2>1. \A x, u : IsStart(x, u)' <=> IsStart(x, u)
    BY DEF IsStart
  <2>. QED
    BY <1>9, <1>10, <1>13, <1>15, <2>1 DEF StreamInv, Unit
<1>17. \A u : InStream(u)' => InStream(u) \/ (cmd = "SUBMIT_URB" /\ u = tag)
  <2>1. SUFFICES ASSUME NEW u, InStream(u)' PROVE InStream(u) \/ (cmd = "SUBMIT_URB" /\ u = tag)
    OBVIOUS
  <2>2. PICK k \in 1..(L + n) : IsStart(s[k], u)
    BY <1>9, <1>10, <2>1 DEF InStream, IsStart
  <2>. QED
    BY <1>1, <1>11, <2>2 DEF InStream, IsStart
<1>. QED
  BY <1>16, <1>17

\* A step that answers nothing, in which no URB comes to a place it has left.
LEMMA OnceMoves ==
    ASSUME OnceInv, answers' = answers, urbs' \in 0..MaxUrbs,
           \A u \in 1..MaxUrbs : Waiting(u)' => Waiting(u),
           \A u \in 1..MaxUrbs : InStream(u)' => ~InHeader(u)' /\ ~InService(u)'
    PROVE  OnceInv'
BY DEF OnceInv

\* A step of the server or of the interactive thread that adds no URB: what the
\* receive thread has is unchanged, and the stream may have lost something.
LEMMA OthersStep ==
    ASSUME SessionInv, UNCHANGED <<rpc, header, serving, answers, urbs>>,
           \A u : InStream(u)' => InStream(u)
    PROVE  ReceiverInv' /\ OnceInv'
<1>1. ReceiverInv /\ OnceInv
  BY DEF SessionInv
<1>2. ReceiverInv'
  BY <1>1 DEF ReceiverInv, Unit
<1>3. \A u : (InHeader(u)' <=> InHeader(u)) /\ (InService(u)' <=> InService(u))
  BY DEF InHeader, InService
<1>4. \A u \in 1..MaxUrbs : Waiting(u)' => Waiting(u)
  BY <1>3 DEF Waiting
<1>5. \A u \in 1..MaxUrbs : InStream(u)' => ~InHeader(u)' /\ ~InService(u)'
  BY <1>1, <1>3 DEF OnceInv
<1>6. urbs' \in 0..MaxUrbs
  BY <1>1 DEF OnceInv
<1>. QED
  BY <1>1, <1>2, <1>4, <1>5, <1>6, OnceMoves

\* ... and leaves the stream alone.
LEMMA StreamUnchanged ==
    ASSUME StreamInv, UNCHANGED <<stream, urbs>>
    PROVE  StreamInv' /\ \A u : InStream(u)' <=> InStream(u)
<1>1. \A x, u : IsStart(x, u)' <=> IsStart(x, u)
  BY DEF IsStart
<1>. QED
  BY <1>1 DEF StreamInv, Unit, InStream

\* The steps of UsbCaptureOpenDevice keep the devices' types.
LEMMA OpenTypes ==
    ASSUME DevInv, NEW d, UNCHANGED <<Running, Connected, open, lost, mismatch>>,
           \/ CreateHandle(d) \/ CreateFails(d)
           \/ InitializeOk(d) \/ InitializeFails(d) \/ UNCHANGED dev
    PROVE  DevInv'
<1>1. PICK D : D = [Opened: BOOLEAN, handle: {"open", "invalid"}]
  OBVIOUS
<1>2. dev \in [1..MaxLocals -> D]
  BY <1>1 DEF DevInv
<1>3. \A x \in D : /\ [x EXCEPT !.handle = "open"] \in D
                   /\ [x EXCEPT !.handle = "invalid"] \in D
                   /\ [x EXCEPT !.Opened = TRUE] \in D
  BY <1>1
<1>4. dev' \in [1..MaxLocals -> D]
  <2>1. CASE dev' = [dev EXCEPT ![d] = [@ EXCEPT !.handle = "open"]]
    BY <1>2, <1>3, <2>1
  <2>2. CASE dev' = [dev EXCEPT ![d] = [@ EXCEPT !.handle = "invalid"]]
    BY <1>2, <1>3, <2>2
  <2>3. CASE dev' = [dev EXCEPT ![d] = [@ EXCEPT !.Opened = TRUE]]
    BY <1>2, <1>3, <2>3
  <2>4. CASE UNCHANGED dev
    BY <1>2, <2>4
  <2>. QED
    BY <2>1, <2>2, <2>3, <2>4
       DEF CreateHandle, CreateFails, InitializeOk, InitializeFails
<1>. QED
  BY <1>1, <1>4 DEF DevInv

\* A request is sent, or the command returns.
LEMMA SendRequestTypes ==
    ASSUME RequestInv, NEW cmd \in Requests, NEW tag \in 1..MaxLines,
           SendRequest(cmd, tag), infos' = infos, lines' \in 0..MaxLines
    PROVE  RequestInv'
<1>1. PICK R : R = [cmd: Requests, tag: 1..MaxLines]
  OBVIOUS
<1>2. requests \in Seq(R) /\ [cmd |-> cmd, tag |-> tag] \in R
  BY <1>1 DEF RequestInv
<1>3. Append(requests, [cmd |-> cmd, tag |-> tag]) \in Seq(R)
  BY <1>2, AppendProperties
<1>4. requests' \in Seq(R)
  BY <1>2, <1>3 DEF SendRequest
<1>5. mpc' \in {"await", "prompt"}
  BY DEF SendRequest
<1>. QED
  BY <1>1, <1>4, <1>5 DEF RequestInv, Requests

\* The server answers a request.
LEMMA ServerRespondsInv == SessionInv /\ ServerResponds => SessionInv'
<1>1. SUFFICES ASSUME SessionInv, ServerResponds PROVE SessionInv'
  OBVIOUS
<1>2. /\ UNCHANGED <<Running, Connected, open, lost, mpc, asked, infos, lines, mismatch,
                     rpc, header, serving, answers, dev, urbs>>
      /\ StreamInv /\ ReceiverInv /\ RequestInv /\ DevInv /\ OnceInv
  BY <1>1 DEF ServerResponds, uiVars, recvVars, SessionInv
<1>3. /\ requests # <<>> /\ requests' = Tail(requests)
      /\ \E n \in 0..1 : stream' = stream \o Message(Head(requests).cmd, Head(requests).tag,
                                       ResponseUnits(Head(requests).cmd) + n * InfoUnits)
  BY <1>1 DEF ServerResponds, MaxListed
<1>4. PICK R : R = [cmd: Requests, tag: 1..MaxLines]
  OBVIOUS
<1>5. requests \in Seq(R)
  BY <1>2, <1>4 DEF RequestInv
<1>6. Head(requests) \in R /\ Tail(requests) \in Seq(R)
  BY <1>3, <1>5, HeadTailProperties
<1>7. PICK r \in R : r = Head(requests)
  BY <1>6
<1>8. r.cmd \in Requests /\ r.tag \in Nat
  BY <1>4
<1>9. PICK n \in 0..1 : stream' = stream \o Message(r.cmd, r.tag, ResponseUnits(r.cmd) + n * InfoUnits)
  BY <1>3, <1>7
<1>10. PICK len \in Nat : len = ResponseUnits(r.cmd) + n * InfoUnits
  BY DEF ResponseUnits, InfoUnits, HeaderUnits
<1>11. r.cmd # "SUBMIT_URB"
  BY <1>8 DEF Requests
<1>12. urbs \in Nat
  BY <1>2 DEF OnceInv
<1>13. StreamInv' /\ \A u : InStream(u)' => InStream(u)
  BY <1>2, <1>8, <1>9, <1>10, <1>11, <1>12, StreamAppended
<1>14. ReceiverInv' /\ OnceInv'
  BY <1>1, <1>2, <1>13, OthersStep
<1>15. RequestInv'
  BY <1>2, <1>3, <1>4, <1>6 DEF RequestInv, Requests
<1>16. DevInv'
  BY <1>2 DEF DevInv
<1>. QED
  BY <1>13, <1>14, <1>15, <1>16 DEF SessionInv

\* The server sends a URB: its number is new, so it has been nowhere before.
LEMMA ServerSubmitsInv == ASSUME SessionInv, ServerSubmits PROVE SessionInv'
<1>1. /\ UNCHANGED <<Running, Connected, open, lost, requests, mpc, asked, infos, lines,
                     mismatch, rpc, header, serving, answers, dev>>
      /\ StreamInv /\ ReceiverInv /\ RequestInv /\ DevInv /\ OnceInv
  BY DEF ServerSubmits, uiVars, recvVars, SessionInv
<1>2. /\ urbs < MaxUrbs /\ urbs' = urbs + 1 /\ urbs \in Nat /\ MaxUrbs \in Nat
      /\ stream' = stream \o Message("SUBMIT_URB", urbs + 1, 6)
  BY <1>1, ClientAssumption DEF ServerSubmits, SubmitUnits, OnceInv
<1>3. StreamInv' /\ \A u : InStream(u)' => InStream(u) \/ u = urbs + 1
  <2>1. PICK cmd \in Requests \cup {"SUBMIT_URB"} : cmd = "SUBMIT_URB"
    OBVIOUS
  <2>2. PICK tag \in Nat : tag = urbs + 1
    BY <1>2
  <2>3. PICK n \in Nat : n = 6
    OBVIOUS
  <2>4. stream' = stream \o Message(cmd, tag, n)
    BY <1>2, <2>1, <2>2, <2>3
  <2>5. StreamInv' /\ \A u : InStream(u)' => InStream(u) \/ (cmd = "SUBMIT_URB" /\ u = tag)
    BY <1>1, <1>2, <2>2, <2>4, StreamAppended
  <2>. QED
    BY <2>2, <2>5
<1>4. \A u : (InHeader(u)' <=> InHeader(u)) /\ (InService(u)' <=> InService(u))
  BY <1>1 DEF InHeader, InService
<1>5. 1..urbs \subseteq 1..urbs' /\ urbs' \in 0..MaxUrbs /\ urbs + 1 > urbs /\ urbs + 1 \notin 1..urbs
  BY <1>2
<1>6. ReceiverInv'
  BY <1>1, <1>5 DEF ReceiverInv, Unit
<1>7. ~InHeader(urbs + 1) /\ ~InService(urbs + 1)
  BY <1>1, <1>5 DEF ReceiverInv, InHeader, InService
<1>8. \A u \in 1..MaxUrbs : Waiting(u)' => Waiting(u)
  <2>1. \A u \in 1..MaxUrbs : u > urbs' => u > urbs
    BY <1>2
  <2>. QED
    BY <1>3, <1>4, <1>5, <2>1 DEF Waiting
<1>9. \A u \in 1..MaxUrbs : InStream(u)' => ~InHeader(u)' /\ ~InService(u)'
  BY <1>1, <1>3, <1>4, <1>7 DEF OnceInv
<1>10. OnceInv'
  BY <1>1, <1>5, <1>8, <1>9, OnceMoves
<1>11. RequestInv' /\ DevInv'
  BY <1>1 DEF RequestInv, DevInv
<1>. QED
  BY <1>3, <1>6, <1>10, <1>11 DEF SessionInv

\* A step outside the stream and the receive thread.
LEMMA CommandStep ==
    ASSUME SessionInv, UNCHANGED <<stream, rpc, header, serving, answers, urbs>>
    PROVE  StreamInv' /\ ReceiverInv' /\ OnceInv'
<1>1. StreamInv
  BY DEF SessionInv
<1>2. StreamInv' /\ \A u : InStream(u)' <=> InStream(u)
  BY <1>1, StreamUnchanged
<1>. QED
  BY <1>2, OthersStep

\* The server goes away.
LEMMA ServerClosesInv == SessionInv /\ ServerCloses => SessionInv'
<1>1. SUFFICES ASSUME SessionInv, ServerCloses PROVE SessionInv'
  OBVIOUS
<1>2. /\ UNCHANGED <<Running, Connected, open, stream, requests, mpc, asked, infos, lines,
                     mismatch, rpc, header, serving, answers, dev, urbs>>
      /\ lost' = TRUE /\ RequestInv /\ DevInv
  BY <1>1 DEF ServerCloses, uiVars, recvVars, SessionInv
<1>3. RequestInv' /\ DevInv'
  BY <1>2 DEF RequestInv, DevInv
<1>. QED
  BY <1>1, <1>2, <1>3, CommandStep DEF SessionInv

\* A command sends its request.
LEMMA RequestStep ==
    ASSUME SessionInv, NEW cmd \in Requests, Request(cmd)
    PROVE  SessionInv'
<1>1. /\ UNCHANGED <<Running, Connected, open, lost, stream, infos, mismatch, rpc, header, serving, answers, dev, urbs>>
      /\ lines < MaxLines /\ lines' = lines + 1
      /\ SendRequest(cmd, lines + 1) /\ RequestInv /\ DevInv
  BY DEF Request, Typed, recvVars, SessionInv
<1>2. lines + 1 \in 1..MaxLines /\ lines' \in 0..MaxLines
  BY <1>1, ClientAssumption DEF RequestInv
<1>3. RequestInv'
  BY <1>1, <1>2, SendRequestTypes
<1>4. DevInv'
  BY <1>1 DEF DevInv
<1>. QED
  BY <1>1, <1>3, <1>4, CommandStep DEF SessionInv

\* A command starts to open a device ...
LEMMA OpenCommandStep ==
    ASSUME SessionInv, NEW d, NEW then \in {"openinfo", "openattach"},
           StartOpen(d, then)
    PROVE  SessionInv'
<1>1. /\ UNCHANGED <<Running, Connected, open, lost, stream, requests, infos, mismatch, rpc, header, serving, answers, urbs>>
      /\ lines < MaxLines /\ lines' = lines + 1
      /\ mpc' \in {then, "prompt"} /\ RequestInv /\ DevInv
      /\ CreateHandle(d) \/ CreateFails(d)
  BY DEF StartOpen, Typed, netVars, recvVars, SessionInv
<1>2. lines' \in 0..MaxLines /\ lines' # 0
  BY <1>1, ClientAssumption DEF RequestInv
<1>3. RequestInv'
  BY <1>1, <1>2 DEF RequestInv
<1>4. DevInv'
  BY <1>1, OpenTypes
<1>. QED
  BY <1>1, <1>3, <1>4, CommandStep DEF SessionInv

\* ... and finishes it.
LEMMA FinishOpenStep == ASSUME SessionInv, FinishOpen PROVE SessionInv'
<1>1. /\ UNCHANGED <<Running, Connected, open, lost, stream, infos, lines, mismatch, rpc, header, serving, answers, urbs>>
      /\ mpc \in {"openinfo", "openattach"} /\ RequestInv /\ DevInv
      /\ InitializeOk(asked.tag) \/ InitializeFails(asked.tag)
      /\ \/ SendRequest("ATTACH", lines)
         \/ mpc' = "prompt" /\ UNCHANGED <<requests, asked>>
  BY DEF FinishOpen, recvVars, SessionInv
<1>2. lines \in 1..MaxLines /\ lines' \in 0..MaxLines
  BY <1>1, ClientAssumption DEF RequestInv
<1>3. "ATTACH" \in Requests
  BY DEF Requests
<1>4. RequestInv'
  <2>1. CASE SendRequest("ATTACH", lines)
    BY <1>1, <1>2, <1>3, <2>1, SendRequestTypes
  <2>2. CASE mpc' = "prompt" /\ UNCHANGED <<requests, asked>>
    BY <1>1, <2>2 DEF RequestInv
  <2>. QED
    BY <1>1, <2>1, <2>2
<1>5. DevInv'
  BY <1>1, OpenTypes
<1>. QED
  BY <1>1, <1>4, <1>5, CommandStep DEF SessionInv

\* The interactive thread takes units from the stream, or drops it: URBs may be
\* lost with that, never doubled.
LEMMA CommandReads ==
    ASSUME SessionInv, UNCHANGED <<rpc, header, serving, answers, urbs>>,
           \/ \E n \in Nat : Available(n) /\ Take(n)
           \/ stream' = <<>>
           \/ UNCHANGED stream
    PROVE  StreamInv' /\ ReceiverInv' /\ OnceInv'
<1>1. StreamInv
  BY DEF SessionInv
<1>2. ASSUME NEW n \in Nat, Available(n), Take(n)
      PROVE  StreamInv' /\ \A u : InStream(u)' => InStream(u)
  <2>1. n <= Len(stream) /\ stream' = SubSeq(stream, n + 1, Len(stream))
    <3>1. Len(stream) \in Nat /\ Len(stream) >= n
      BY <1>1, <1>2 DEF StreamInv, Available
    <3>. QED
      BY <1>2, <3>1 DEF Take
  <2>. QED
    BY <1>1, <2>1, StreamTaken
<1>3. CASE stream' = <<>>
  BY <1>3, StreamDropped, OthersStep
<1>4. CASE UNCHANGED stream
  BY <1>4, CommandStep
<1>5. CASE \E n \in Nat : Available(n) /\ Take(n)
  BY <1>2, <1>5, OthersStep
<1>. QED
  BY <1>3, <1>4, <1>5

\* The command receives a response,
LEMMA ReceiveResponseInv == SessionInv /\ ReceiveResponse => SessionInv'
<1>1. SUFFICES ASSUME SessionInv, ReceiveResponse PROVE SessionInv'
  OBVIOUS
<1>2. /\ UNCHANGED <<Running, Connected, open, lost, requests, lines, rpc, header, serving, answers, dev, urbs>>
      /\ mpc' \in {"infos", "prompt"} /\ RequestInv /\ DevInv
      /\ infos' \in 0..MaxListed
  <2>1. RequestInv /\ DevInv
    BY <1>1 DEF SessionInv
  <2>. QED
    BY <1>1, <2>1 DEF ReceiveResponse, recvVars, RequestInv
<1>3. PICK n \in Nat : Available(n) /\ Take(n)
  <2>1. ResponseUnits(asked.cmd) \in Nat
    BY DEF ResponseUnits, HeaderUnits
  <2>. QED
    BY <1>1, <2>1 DEF ReceiveResponse
<1>4. StreamInv' /\ ReceiverInv' /\ OnceInv'
  BY <1>1, <1>2, <1>3, CommandReads
<1>5. RequestInv'
  BY <1>2 DEF RequestInv
<1>6. mismatch' \in BOOLEAN
  BY <1>1 DEF ReceiveResponse
<1>7. DevInv'
  BY <1>2, <1>6 DEF DevInv
<1>. QED
  BY <1>4, <1>5, <1>7 DEF SessionInv

\* ... the entries of a device list,
LEMMA ReceiveInfoInv == SessionInv /\ ReceiveInfo => SessionInv'
<1>1. SUFFICES ASSUME SessionInv, ReceiveInfo PROVE SessionInv'
  OBVIOUS
<1>2. /\ UNCHANGED <<Running, Connected, open, lost, requests, lines, mismatch, rpc, header, serving, answers, dev, urbs>>
      /\ mpc' \in {mpc, "prompt"} /\ RequestInv /\ DevInv
  BY <1>1 DEF ReceiveInfo, recvVars, SessionInv
<1>3. infos' \in 0..1
  BY <1>1, <1>2 DEF ReceiveInfo, RequestInv, MaxListed
<1>4. \/ \E n \in Nat : Available(n) /\ Take(n)
      \/ stream' = <<>>
      \/ UNCHANGED stream
  <2>1. InfoUnits \in Nat
    BY DEF InfoUnits
  <2>. QED
    BY <1>1, <2>1 DEF ReceiveInfo
<1>5. StreamInv' /\ ReceiverInv' /\ OnceInv'
  BY <1>1, <1>2, <1>4, CommandReads
<1>6. RequestInv'
  BY <1>2, <1>3 DEF RequestInv, MaxListed
<1>7. DevInv'
  BY <1>2 DEF DevInv
<1>. QED
  BY <1>5, <1>6, <1>7 DEF SessionInv

\* ... or fails.
LEMMA CommandFailsInv == SessionInv /\ CommandFails => SessionInv'
<1>1. SUFFICES ASSUME SessionInv, CommandFails PROVE SessionInv'
  OBVIOUS
<1>2. /\ UNCHANGED <<Running, Connected, open, lost, requests, infos, lines, mismatch, rpc, header, serving, answers, dev, urbs>>
      /\ mpc' = "prompt" /\ stream' = <<>> /\ RequestInv /\ DevInv
  BY <1>1 DEF CommandFails, recvVars, SessionInv
<1>3. RequestInv' /\ DevInv'
  BY <1>2 DEF RequestInv, DevInv
<1>. QED
  BY <1>1, <1>2, <1>3, CommandReads DEF SessionInv

\* main() asks for a line, or gets one that is no command.
LEMMA LineInv == SessionInv /\ (AwaitLine \/ Ignored) => SessionInv'
<1>1. SUFFICES ASSUME SessionInv, AwaitLine \/ Ignored PROVE SessionInv'
  OBVIOUS
<1>2. /\ UNCHANGED <<Running, Connected, open, lost, stream, requests, infos, lines, mismatch,
                     rpc, header, serving, answers, dev, urbs>>
      /\ mpc' \in {"typing", "prompt"} /\ RequestInv /\ DevInv
  BY <1>1 DEF AwaitLine, Ignored, netVars, recvVars, SessionInv
<1>3. RequestInv' /\ DevInv'
  BY <1>2 DEF RequestInv, DevInv
<1>. QED
  BY <1>1, <1>2, <1>3, CommandStep DEF SessionInv

\* The client ends.
LEMMA LeaveInv == SessionInv /\ (LeaveLoop \/ CleanUp) => SessionInv'
<1>1. SUFFICES ASSUME SessionInv, LeaveLoop \/ CleanUp PROVE SessionInv'
  OBVIOUS
<1>2. /\ UNCHANGED <<stream, requests, infos, lines, rpc, header, serving, answers, urbs>>
      /\ mpc' \in {"closing", "done"} /\ RequestInv /\ DevInv
  BY <1>1 DEF LeaveLoop, CleanUp, netVars, recvVars, SessionInv
<1>3. RequestInv'
  BY <1>2 DEF RequestInv
<1>4. DevInv'
  <2>1. CASE LeaveLoop
    BY <1>2, <2>1 DEF LeaveLoop, DevInv
  <2>2. CASE CleanUp
    BY <1>2, <2>2 DEF CleanUp, netVars, Locals, NotOpened, DevInv
  <2>. QED
    BY <1>1, <2>1, <2>2
<1>. QED
  BY <1>1, <1>2, <1>3, <1>4, CommandStep DEF SessionInv

\* A step of the receive thread leaves requests alone.
LEMMA RequestUnchanged ==
    ASSUME RequestInv, UNCHANGED <<requests, mpc, infos, lines>>
    PROVE  RequestInv'
BY DEF RequestInv

\* A header is taken from the stream: what was a start is now the header, or is
\* gone; units that are no start are skipped.
LEMMA ReceiveHeaderInv == SessionInv /\ ReceiveHeader => SessionInv'
<1>1. SUFFICES ASSUME SessionInv, ReceiveHeader PROVE SessionInv'
  OBVIOUS
<1>2. /\ UNCHANGED <<Running, Connected, open, lost, requests, mpc, asked, infos, lines, mismatch,
                     serving, answers, dev, urbs>>
      /\ rpc = "header" /\ Available(2) /\ Take(2)
      /\ StreamInv /\ ReceiverInv /\ RequestInv /\ DevInv /\ OnceInv
  BY <1>1 DEF ReceiveHeader, HeaderUnits, uiVars, SessionInv
<1>3. /\ Len(stream) \in Nat /\ 2 <= Len(stream) /\ 1 \in 1..Len(stream)
      /\ stream' = SubSeq(stream, 2 + 1, Len(stream))
  <2>1. Len(stream) \in Nat /\ Len(stream) >= 2
    BY <1>2 DEF StreamInv, Available
  <2>. QED
    BY <1>2, <2>1 DEF Take
<1>4. PICK n \in Nat : n = 2
  OBVIOUS
<1>5. /\ StreamInv'
      /\ \A u : InStream(u)' => InStream(u)
      /\ \A u \in Nat : IsStart(stream[1], u) => ~InStream(u)'
  BY <1>2, <1>3, <1>4, StreamTaken
<1>6. PICK x \in Unit : x = stream[1] /\ (x.cmd = "SUBMIT_URB" => x.tag \in 1..urbs)
  BY <1>2, <1>3 DEF StreamInv
<1>7. x.len \in Nat
  BY DEF Unit
<1>8. \/ rpc' = "header"
      \/ rpc' = "payload" /\ header' = x /\ x.at = 1 /\ x.len > 2
  BY <1>1, <1>2, <1>6 DEF ReceiveHeader, HeaderUnits
<1>9. ReceiverInv'
  BY <1>2, <1>6, <1>8 DEF ReceiverInv, Unit
<1>10. \A u : ~InService(u)' /\ (InHeader(u)' => IsStart(stream[1], u))
  BY <1>6, <1>8 DEF InService, InHeader, IsStart
<1>11. ASSUME NEW u \in 1..MaxUrbs, Waiting(u)' PROVE Waiting(u)
  <2>1. IsStart(stream[1], u) => InStream(u)
    BY <1>3 DEF InStream
  <2>. QED
    BY <1>2, <1>5, <1>10, <1>11, <2>1 DEF Waiting
<1>12. ASSUME NEW u \in 1..MaxUrbs, InStream(u)' PROVE ~InHeader(u)' /\ ~InService(u)'
  BY <1>5, <1>10, <1>12
<1>13. urbs' \in 0..MaxUrbs
  BY <1>2 DEF OnceInv
<1>14. OnceInv'
  BY <1>2, <1>11, <1>12, <1>13, OnceMoves
<1>15. DevInv'
  BY <1>2 DEF DevInv
<1>. QED
  BY <1>2, <1>5, <1>9, <1>14, <1>15, RequestUnchanged DEF SessionInv

\* The payload is taken: the URB of the header is now served.
LEMMA ReceivePayloadInv == ASSUME SessionInv, ReceivePayload PROVE SessionInv'
<1>1. /\ UNCHANGED <<Running, Connected, open, lost, requests, mpc, asked, infos, lines, mismatch,
                     header, answers, dev, urbs>>
      /\ rpc = "payload" /\ Available(header.len - 2) /\ Take(header.len - 2)
      /\ StreamInv /\ ReceiverInv /\ RequestInv /\ DevInv /\ OnceInv
  BY DEF ReceivePayload, HeaderUnits, uiVars, SessionInv
<1>2. /\ \/ header.cmd = "SUBMIT_URB" /\ rpc' = "urb" /\ serving' = [urb |-> header.tag, device |-> 0]
         \/ header.cmd # "SUBMIT_URB" /\ rpc' = "header" /\ serving' = serving
  BY DEF ReceivePayload
<1>3. header \in Unit /\ header.len > 2 /\ (header.cmd = "SUBMIT_URB" => header.tag \in 1..urbs)
  BY <1>1 DEF ReceiverInv
<1>4. PICK n \in Nat : n = header.len - 2
  <2>1. header.len \in Nat
    BY <1>3 DEF Unit
  <2>. QED
    BY <1>3, <2>1
<1>5. n <= Len(stream) /\ stream' = SubSeq(stream, n + 1, Len(stream))
  <2>1. Len(stream) \in Nat /\ Len(stream) >= n
    BY <1>1, <1>4 DEF StreamInv, Available
  <2>. QED
    BY <1>1, <1>4, <2>1 DEF Take
<1>6. StreamInv' /\ \A u : InStream(u)' => InStream(u)
  BY <1>1, <1>5, StreamTaken
<1>7. urbs \in 0..MaxUrbs /\ MaxUrbs \in Nat /\ MaxLocals \in Nat
  BY <1>1, ClientAssumption DEF OnceInv
<1>8. header.cmd = "SUBMIT_URB" => header.tag \in 0..MaxUrbs
  BY <1>3, <1>7
<1>9. ReceiverInv'
  <2>1. CASE header.cmd = "SUBMIT_URB" /\ rpc' = "urb" /\ serving' = [urb |-> header.tag, device |-> 0]
    <3>1. serving'.urb = header.tag /\ serving' \in [urb: 0..MaxUrbs, device: 0..MaxLocals]
      BY <1>7, <1>8, <2>1
    <3>. QED
      BY <1>1, <1>3, <2>1, <3>1 DEF ReceiverInv
  <2>2. CASE header.cmd # "SUBMIT_URB" /\ rpc' = "header" /\ serving' = serving
    BY <1>1, <2>2 DEF ReceiverInv
  <2>. QED
    BY <1>2, <2>1, <2>2
<1>10. \A u : ~InHeader(u)' /\ (InService(u)' => InHeader(u))
  BY <1>1, <1>2 DEF InHeader, InService
<1>11. \A u \in 1..MaxUrbs : Waiting(u)' => Waiting(u)
  BY <1>1, <1>6, <1>10 DEF Waiting
<1>12. \A u \in 1..MaxUrbs : InStream(u)' => ~InHeader(u)' /\ ~InService(u)'
  BY <1>1, <1>6, <1>10 DEF OnceInv
<1>13. OnceInv'
  BY <1>1, <1>7, <1>11, <1>12, OnceMoves
<1>14. DevInv'
  BY <1>1 DEF DevInv
<1>. QED
  BY <1>1, <1>6, <1>9, <1>13, <1>14, RequestUnchanged DEF SessionInv

\* The receive thread ends.
LEMMA EndReceiveInv == SessionInv /\ EndReceive => SessionInv'
<1>1. SUFFICES ASSUME SessionInv, EndReceive PROVE SessionInv'
  OBVIOUS
<1>2. /\ UNCHANGED <<Running, open, lost, requests, mpc, asked, infos, lines, mismatch,
                     header, serving, answers, dev, urbs>>
      /\ rpc' = "ended" /\ stream' = <<>> /\ Connected' = FALSE
      /\ StreamInv /\ ReceiverInv /\ RequestInv /\ DevInv /\ OnceInv
  BY <1>1 DEF EndReceive, uiVars, SessionInv
<1>3. StreamInv' /\ \A u : ~InStream(u)'
  BY <1>2, StreamDropped
<1>4. ReceiverInv' /\ DevInv'
  BY <1>2 DEF ReceiverInv, DevInv
<1>5. \A u : ~InHeader(u)' /\ ~InService(u)'
  BY <1>2 DEF InHeader, InService
<1>6. \A u \in 1..MaxUrbs : Waiting(u)' => Waiting(u)
  BY <1>2, <1>3, <1>5 DEF Waiting
<1>7. urbs' \in 0..MaxUrbs
  BY <1>2 DEF OnceInv
<1>8. OnceInv'
  BY <1>2, <1>3, <1>6, <1>7, OnceMoves
<1>. QED
  BY <1>2, <1>3, <1>4, <1>8, RequestUnchanged DEF SessionInv

\* SendUrbCompletion: the URB served is in no other place, and has no answer yet.
LEMMA CompletionStep ==
    ASSUME SessionInv, rpc \in {"urb", "open", "transfer"}, SendUrbCompletion,
           UNCHANGED <<stream, urbs, header>>
    PROVE  StreamInv' /\ ReceiverInv' /\ OnceInv'
<1>1. StreamInv /\ ReceiverInv /\ OnceInv
  BY DEF SessionInv
<1>2. StreamInv' /\ \A u : InStream(u)' <=> InStream(u)
  BY <1>1, StreamUnchanged
<1>3. MaxUrbs \in Nat /\ MaxLocals \in Nat /\ urbs \in 0..MaxUrbs
  BY <1>1, ClientAssumption DEF OnceInv
<1>4. rpc' = "header" /\ serving' = [urb |-> 0, device |-> 0]
  BY DEF SendUrbCompletion, NoUrb
<1>5. ReceiverInv'
  BY <1>1, <1>3, <1>4 DEF ReceiverInv
<1>6. PICK v \in 1..urbs : v = serving.urb
  BY <1>1 DEF ReceiverInv
<1>7. v \in 1..MaxUrbs /\ ~(v > urbs)
  BY <1>3
<1>8. InService(v)
  BY <1>6 DEF InService
<1>9. answers[v] = 0 /\ ~InStream(v) /\ answers \in [1..MaxUrbs -> Nat]
  BY <1>1, <1>7, <1>8 DEF OnceInv, Waiting
<1>10. \A u : ~InHeader(u)' /\ ~InService(u)'
  BY <1>4 DEF InHeader, InService
<1>11. \/ answers' = [answers EXCEPT ![v] = @ + 1]
       \/ answers' = answers
  BY <1>6 DEF SendUrbCompletion
<1>12. /\ answers' \in [1..MaxUrbs -> Nat]
       /\ answers'[v] <= 1
       /\ \A u \in 1..MaxUrbs : u # v => answers'[u] = answers[u]
  <2>1. CASE answers' = [answers EXCEPT ![v] = @ + 1]
    BY <1>7, <1>9, <2>1
  <2>2. CASE answers' = answers
    BY <1>7, <1>9, <2>2
  <2>. QED
    BY <1>11, <2>1, <2>2
<1>13. ASSUME NEW u \in 1..MaxUrbs
       PROVE  /\ answers'[u] <= 1
              /\ Waiting(u)' => answers'[u] = 0
              /\ InStream(u)' => ~InHeader(u)' /\ ~InService(u)'
  <2>1. CASE u = v
    BY <1>2, <1>7, <1>9, <1>10, <1>12, <2>1 DEF Waiting
  <2>2. CASE u # v
    BY <1>1, <1>2, <1>10, <1>12, <2>2 DEF Waiting, OnceInv
  <2>. QED
    BY <2>1, <2>2
<1>14. OnceInv'
  BY <1>3, <1>12, <1>13 DEF OnceInv
<1>. QED
  BY <1>2, <1>5, <1>14

\* The receive thread goes on with the URB it serves.
LEMMA ServiceStep ==
    ASSUME SessionInv, rpc \in {"urb", "open"}, rpc' \in {"open", "transfer"},
           serving'.urb = serving.urb, serving' \in [urb: 0..MaxUrbs, device: 0..MaxLocals],
           UNCHANGED <<stream, urbs, header, answers>>
    PROVE  StreamInv' /\ ReceiverInv' /\ OnceInv'
<1>1. StreamInv /\ ReceiverInv /\ OnceInv
  BY DEF SessionInv
<1>2. StreamInv' /\ \A u : InStream(u)' <=> InStream(u)
  BY <1>1, StreamUnchanged
<1>3. ReceiverInv'
  BY <1>1 DEF ReceiverInv
<1>4. \A u : (InHeader(u)' <=> InHeader(u)) /\ (InService(u)' <=> InService(u))
  BY DEF InHeader, InService
<1>5. \A u \in 1..MaxUrbs : Waiting(u)' => Waiting(u)
  BY <1>2, <1>4 DEF Waiting
<1>6. \A u \in 1..MaxUrbs : InStream(u)' => ~InHeader(u)' /\ ~InService(u)'
  BY <1>1, <1>2, <1>4 DEF OnceInv
<1>7. urbs' \in 0..MaxUrbs
  BY <1>1 DEF OnceInv
<1>. QED
  BY <1>1, <1>2, <1>3, <1>5, <1>6, <1>7, OnceMoves

\* ClientUrbProcess refuses a URB or finishes its transfer.
LEMMA AnswerUrbInv ==
    ASSUME SessionInv, RefuseUrb \/ FinishUrb
    PROVE  SessionInv'
<1>1. /\ UNCHANGED <<Running, Connected, open, lost, stream, requests, mpc, asked, infos, lines,
                     mismatch, header, dev, urbs>>
      /\ rpc \in {"urb", "open", "transfer"} /\ SendUrbCompletion /\ RequestInv /\ DevInv
  BY DEF RefuseUrb, FinishUrb, netVars, uiVars, SessionInv
<1>2. StreamInv' /\ ReceiverInv' /\ OnceInv'
  BY <1>1, CompletionStep
<1>3. DevInv'
  BY <1>1 DEF DevInv
<1>. QED
  BY <1>1, <1>2, <1>3, RequestUnchanged DEF SessionInv

\* ... starts it, or cannot open the device,
LEMMA StartUrbInv ==
    ASSUME SessionInv, NEW d \in Locals, StartUrb(d)
    PROVE  SessionInv'
<1>1. /\ UNCHANGED <<Running, Connected, open, lost, stream, requests, mpc, asked, infos, lines,
                     mismatch, header, urbs>>
      /\ rpc = "urb" /\ ReceiverInv /\ RequestInv /\ DevInv
  BY DEF StartUrb, netVars, uiVars, SessionInv
<1>2. CASE /\ serving' = [serving EXCEPT !.device = d]
           /\ \/ dev[d].Opened /\ rpc' = "transfer" /\ UNCHANGED dev
              \/ ~dev[d].Opened /\ rpc' = "open" /\ CreateHandle(d)
           /\ UNCHANGED answers
  <2>1. d \in 0..MaxLocals
    BY ClientAssumption DEF Locals
  <2>2. serving'.urb = serving.urb /\ serving' \in [urb: 0..MaxUrbs, device: 0..MaxLocals]
    BY <1>1, <1>2, <2>1 DEF ReceiverInv
  <2>3. StreamInv' /\ ReceiverInv' /\ OnceInv'
    BY <1>1, <1>2, <2>2, ServiceStep
  <2>4. DevInv'
    BY <1>1, <1>2, OpenTypes
  <2>. QED
    BY <1>1, <2>3, <2>4, RequestUnchanged DEF SessionInv
<1>3. CASE CreateFails(d) /\ SendUrbCompletion
  <2>1. StreamInv' /\ ReceiverInv' /\ OnceInv'
    BY <1>1, <1>3, CompletionStep
  <2>2. DevInv'
    BY <1>1, <1>3, OpenTypes
  <2>. QED
    BY <1>1, <2>1, <2>2, RequestUnchanged DEF SessionInv
<1>. QED
  BY <1>2, <1>3 DEF StartUrb

\* ... or opens it.
LEMMA OpenUrbInv == ASSUME SessionInv, FinishOpenForUrb PROVE SessionInv'
<1>1. /\ UNCHANGED <<Running, Connected, open, lost, stream, requests, mpc, asked, infos, lines,
                     mismatch, header, urbs>>
      /\ rpc = "open" /\ ReceiverInv /\ RequestInv /\ DevInv
  BY DEF FinishOpenForUrb, netVars, uiVars, SessionInv
<1>2. CASE InitializeOk(serving.device) /\ rpc' = "transfer" /\ UNCHANGED <<serving, answers>>
  <2>1. serving'.urb = serving.urb /\ serving' \in [urb: 0..MaxUrbs, device: 0..MaxLocals]
    BY <1>1, <1>2 DEF ReceiverInv
  <2>2. StreamInv' /\ ReceiverInv' /\ OnceInv'
    BY <1>1, <1>2, <2>1, ServiceStep
  <2>3. DevInv'
    BY <1>1, <1>2, OpenTypes
  <2>. QED
    BY <1>1, <2>2, <2>3, RequestUnchanged DEF SessionInv
<1>3. CASE InitializeFails(serving.device) /\ SendUrbCompletion
  <2>1. StreamInv' /\ ReceiverInv' /\ OnceInv'
    BY <1>1, <1>3, CompletionStep
  <2>2. DevInv'
    BY <1>1, <1>3, OpenTypes
  <2>. QED
    BY <1>1, <2>1, <2>2, RequestUnchanged DEF SessionInv
<1>. QED
  BY <1>2, <1>3 DEF FinishOpenForUrb

\* The session starts with an empty stream and no URB sent.
LEMMA SessionStarts == ASSUME SessionInit PROVE SessionInv
<1>1. /\ Running = TRUE /\ Connected = TRUE /\ open = TRUE /\ lost = FALSE /\ mismatch = FALSE
      /\ stream = <<>> /\ requests = <<>> /\ mpc = "prompt" /\ infos = 0
      /\ rpc \in {"header", "absent"} /\ serving = [urb |-> 0, device |-> 0] /\ lines = 0 /\ urbs = 0
      /\ answers = [u \in 1..MaxUrbs |-> 0]
  BY DEF SessionInit, NoUrb, Urbs
<1>2. MaxUrbs \in Nat /\ MaxLocals \in Nat /\ MaxLines \in Nat
  BY ClientAssumption
<1>3. Len(<<>>) = 0 /\ 1..0 = {} /\ <<>> \in Seq(Unit)
      /\ <<>> \in Seq([cmd: Requests, tag: 1..MaxLines])
  OBVIOUS
<1>4. StreamInv /\ \A u : ~InStream(u)
  BY <1>1, <1>3 DEF StreamInv, InStream
<1>5. ReceiverInv
  BY <1>1, <1>2 DEF ReceiverInv
<1>6. RequestInv
  BY <1>1, <1>2, <1>3 DEF RequestInv, MaxListed
<1>7. DevInv
  <2>1. dev \in [1..MaxLocals -> {[Opened |-> FALSE, handle |-> "invalid"], [Opened |-> TRUE, handle |-> "open"]}]
    BY DEF SessionInit, Locals, NotOpened
  <2>2. PICK D : D = [Opened: BOOLEAN, handle: {"open", "invalid"}]
    OBVIOUS
  <2>3. {[Opened |-> FALSE, handle |-> "invalid"], [Opened |-> TRUE, handle |-> "open"]} \subseteq D
    BY <2>2
  <2>4. dev \in [1..MaxLocals -> D]
    BY <2>1, <2>3
  <2>. QED
    BY <1>1, <2>2, <2>4 DEF DevInv
<1>8. OnceInv
  <2>1. \A u : ~InHeader(u) /\ ~InService(u)
    BY <1>1 DEF InHeader, InService
  <2>2. \A u \in 1..MaxUrbs : answers[u] = 0
    BY <1>1
  <2>3. answers \in [1..MaxUrbs -> Nat] /\ urbs \in 0..MaxUrbs
    BY <1>1, <1>2
  <2>. QED
    BY <1>4, <2>1, <2>2, <2>3 DEF OnceInv
<1>. QED
  BY <1>4, <1>5, <1>6, <1>7, <1>8 DEF SessionInv

\* Nothing changes.
LEMMA SessionStutter == SessionInv /\ UNCHANGED sessionVars => SessionInv'
<1>1. SUFFICES ASSUME SessionInv, UNCHANGED sessionVars PROVE SessionInv'
  OBVIOUS
<1>2. UNCHANGED <<Running, Connected, open, lost, stream, requests, mpc, asked, infos, lines,
                  mismatch, rpc, header, serving, answers, dev, urbs>>
  BY <1>1 DEF sessionVars, netVars, uiVars, recvVars
<1>3. RequestInv' /\ DevInv'
  BY <1>1, <1>2 DEF SessionInv, RequestInv, DevInv
<1>. QED
  BY <1>1, <1>2, <1>3, CommandStep DEF SessionInv

\* Every step keeps the invariant of the session.
LEMMA SessionStep == ASSUME SessionInv, [SessionNext]_sessionVars PROVE SessionInv'
<1>1. CASE UNCHANGED sessionVars
  BY <1>1, SessionStutter
<1>2. CASE ServerResponds \/ ServerSubmits \/ ServerCloses
  BY <1>2, ServerRespondsInv, ServerSubmitsInv, ServerClosesInv
<1>3. ASSUME NEW cmd \in Requests, Request(cmd) PROVE SessionInv'
  BY <1>3, RequestStep
<1>4. ASSUME NEW d \in Locals, NEW then \in {"openinfo", "openattach"}, StartOpen(d, then)
      PROVE  SessionInv'
  BY <1>4, OpenCommandStep
<1>5. CASE Ignored \/ LeaveLoop
  BY <1>5, LineInv, LeaveInv
<1>6. CASE CommandLoop
  BY <1>6, LineInv, FinishOpenStep, ReceiveResponseInv, ReceiveInfoInv, CommandFailsInv, LeaveInv
     DEF CommandLoop
<1>7. CASE Receiver
  BY <1>7, ReceiveHeaderInv, ReceivePayloadInv, EndReceiveInv, AnswerUrbInv, StartUrbInv, OpenUrbInv
     DEF Receiver
<1>. QED
  BY <1>1, <1>2, <1>3, <1>4, <1>5, <1>6, <1>7 DEF SessionNext

(***************************************************************************)
(* The inductive invariant of the session: a URB is unsent, starts in the  *)
(* stream once, is in the receive thread's header, is being served, or is  *)
(* over, and only a URB that is over has an answer.                       *)
(***************************************************************************)
THEOREM SessionInductive == SessionSpec => []SessionInv
<1>1. SessionInit => SessionInv
  BY SessionStarts
<1>2. SessionInv /\ [SessionNext]_sessionVars => SessionInv'
  BY SessionStep
<1>. QED
  BY <1>1, <1>2, PTL DEF SessionSpec

(***************************************************************************)
(* Two threads share one stream, one may swallow or tear the messages the  *)
(* other waits for, ClientUrbProcess has six ways out: no URB is answered  *)
(* twice, for any number of URBs, commands and devices.                    *)
(***************************************************************************)
THEOREM SessionAnsweredOnce == SessionSpec => []AnsweredOnce
<1>1. SessionInv => AnsweredOnce
  BY DEF SessionInv, OnceInv, AnsweredOnce, Urbs
<1>. QED
  BY <1>1, SessionInductive, PTL

(***************************************************************************)
(* Every variable of the session keeps its type; the requests and units of *)
(* the stream stay well formed however the stream is torn.                 *)
(***************************************************************************)
THEOREM SessionTypeOK == SessionSpec => []SessionTypes
<1>1. SessionInv => SessionTypes
  <2>1. SUFFICES ASSUME SessionInv PROVE SessionTypes
    OBVIOUS
  <2>2. StreamInv /\ ReceiverInv /\ RequestInv /\ DevInv /\ OnceInv
    BY <2>1 DEF SessionInv
  <2>3. stream \in Seq([cmd: Requests \cup {"SUBMIT_URB"}, tag: Nat, at: Nat \ {0}, len: Nat])
    BY <2>2 DEF StreamInv, Unit
  <2>4. answers \in [Urbs -> Nat] /\ urbs \in 0..MaxUrbs
    BY <2>2 DEF OnceInv, Urbs
  <2>5. /\ {Running, Connected, open, lost, mismatch} \subseteq BOOLEAN
        /\ dev \in [Locals -> [Opened: BOOLEAN, handle: {"open", "invalid"}]]
    BY <2>2 DEF DevInv, Locals
  <2>. QED
    BY <2>2, <2>3, <2>4, <2>5 DEF SessionTypes, ReceiverInv, RequestInv
<1>. QED
  BY <1>1, SessionInductive, PTL

=============================================================================
