---------------------------- MODULE SecureShuffle ----------------------------
(***************************************************************************)
(* SecureShuffle.cpp: the parties of a computation shuffle a shared vector *)
(* by permutations that one of them knows each, so that nobody knows the   *)
(* whole.  A thread makes a shuffle, applies it forwards and backwards and *)
(* deletes it; the other job of a thread is to invert a shared             *)
(* permutation.  The threads of a party share one ShuffleStore.  A thread  *)
(* meets its like at the other parties in every exchange; where there is   *)
(* no exchange, in the store, each party goes on by itself.                *)
(*                                                                         *)
(* A shared value stands for what its shares open to.                      *)
(***************************************************************************)
EXTENDS Waksman, Sequences, FiniteSets, SequencesExt

CONSTANTS Party,     \* 0 .. number of parties - 1, all of them relevant players
          Thread,
          Sizes,     \* the numbers of units a vector may have
          Draws(_, _), \* Draws(t, n): permutations of n units that thread t meets
          None

ASSUME ConstantsAssumption ==
  /\ IsFiniteSet(Party) /\ Party # {} /\ Party = 0 .. Cardinality(Party) - 1
  /\ Sizes \subseteq Nat \ {0}
  /\ IsFiniteSet(Thread) /\ None \notin Nat

VARIABLES
  malicious,  \* T::malicious
  size,       \* n_shuffle: the units of the vectors that are shuffled
  store,      \* store[p]: the ShuffleStore of party p
  handle,     \* handle[p][t]: the handle thread t of p got from generate
  pc,         \* pc[p][t]
  drawn,      \* drawn[t]: the permutations made for the shuffle of thread t
  vector,     \* vector[t]: the vector a, unit by unit
  inverse     \* inverse[t]: what inverse_permutation was given, and made of it

vars == <<malicious, size, store, handle, pc, drawn, vector, inverse>>

-----------------------------------------------------------------------------
(* Vectors and permutations.                                               *)

\* Units go by the place they have at first.
Units(n) == [i \in 0 .. n - 1 |-> i]

\* shuffle_size
ShuffleSize(n) == n

\* generate_random_permutation: place i takes the unit js[i] places further on, for
\* one place after the other; what pads the vector stays at its end.
RandomPermutation(n, js) ==
  LET swapped[i \in 0 .. ShuffleSize(n)] ==
        IF i = 0 THEN Units(Pow2(n))
        ELSE LET perm == swapped[i - 1]
                 k == i - 1 + js[i - 1]
             IN  [perm EXCEPT ![i - 1] = perm[k], ![k] = perm[i - 1]]
  IN  swapped[ShuffleSize(n)]

\* The numbers get_uint may give: number i is below shuffle_size - i.
Randoms(n) ==
  {js \in [0 .. ShuffleSize(n) - 1 -> 0 .. ShuffleSize(n) - 1] :
     \A i \in DOMAIN js : js[i] < ShuffleSize(n) - i}

\* Perms(n): the configuration of each permutation of n units.
Perms(n) == {RandomPermutation(n, js) : js \in Randoms(n)}

ASSUME DrawsAssumption == \A t \in Thread, n \in Sizes : Draws(t, n) \subseteq Perms(n)

ConfigOf == [n \in Sizes |-> [perm \in Perms(n) |-> Configure(Pow2(n), perm)]]

Exact(n) == Pow2(n) = n \/ ~malicious

\* pre: the vector is padded to a power of two; if the result is not to be trusted
\* every unit has a bit that says that it is not padding.
Pre(a, n) ==
  [i \in 0 .. Pow2(n) - 1 |->
     [unit |-> IF i < n THEN a[i] ELSE None, bit |-> IF i < n THEN 1 ELSE 0]]

\* post: the first n units; Nones if padding is among them ("incorrect shuffle").
Post(x, n) ==
  LET correct == Exact(n) \/ \A i \in 0 .. n - 1 : x[i].bit = 1
  IN  [i \in 0 .. n - 1 |-> IF correct THEN x[i].unit ELSE None]

\* Mutant of InOrder: the players' networks in the same order both ways.
InOrderForward(shuffle, reverse) == shuffle

\* Backwards the players' networks come in the opposite order.
InOrder(shuffle, reverse) == IF reverse THEN Reverse(shuffle) ELSE shuffle

\* apply
Apply(a, n, shuffle, reverse) ==
  LET configs == InOrder(shuffle, reverse)
      x[k \in 0 .. Len(configs)] ==
        IF k = 0 THEN Pre(a, n)
        ELSE IterWaksman(Pow2(n), configs[k], reverse, x[k - 1])
  IN  Post(x[Len(configs)], n)

-----------------------------------------------------------------------------

Init ==
  /\ malicious \in BOOLEAN
  /\ size \in Sizes
  /\ store = [p \in Party |-> <<>>]
  /\ handle = [p \in Party |-> [t \in Thread |-> None]]
  /\ pc = [p \in Party |-> [t \in Thread |-> "begin"]]
  /\ drawn = [t \in Thread |-> <<>>]
  /\ vector = [t \in Thread |-> Units(size)]
  /\ inverse = [t \in Thread |-> None]

Together(t, place) == \A p \in Party : pc[p][t] = place

AllTo(t, place) == pc' = [p \in Party |-> [pc[p] EXCEPT ![t] = place]]

\* The constructor shuffles once, with networks that no store keeps.
ShuffleOnce(t) ==
  /\ Together(t, "begin")
  /\ \E perms \in [1 .. Cardinality(Party) -> Draws(t, size)] :
        /\ drawn' = [drawn EXCEPT ![t] = perms]
        /\ vector' = [vector EXCEPT ![t] =
              Apply(@, size, [k \in DOMAIN perms |-> ConfigOf[size][perms[k]]], FALSE)]
  /\ AllTo(t, "end")
  /\ UNCHANGED <<malicious, size, store, handle, inverse>>

\* Mutant of NewHandle: the size is read before others have pushed theirs.
NewHandleStale(p) == 0

\* Mutant of NewHandle: the size is read after the entry was pushed.
NewHandleAfter(p) == Len(store[p]) + 1

\* shuffles.size(), read under the lock
NewHandle(p) == Len(store[p])

\* generate begins: ShuffleStore::add, then get.  A deque keeps its entries in
\* place, so the reference stays good while other threads add theirs.
Add(p, t) ==
  /\ pc[p][t] = "begin"
  /\ handle' = [handle EXCEPT ![p][t] = NewHandle(p)]
  /\ store' = [store EXCEPT ![p] = Append(@, <<>>)]
  /\ pc' = [pc EXCEPT ![p][t] = "generate"]
  /\ UNCHANGED <<malicious, size, drawn, vector, inverse>>

\* The entry of thread t at party p
Shuffle(p, t) == store[p][handle[p][t] + 1]

\* The next player configures its network and shares the bits; every party appends
\* the configuration to its entry.
GeneratePlayer(t) ==
  /\ Together(t, "generate") /\ Len(drawn[t]) < Cardinality(Party)
  /\ \E perm \in Draws(t, size) :
        /\ drawn' = [drawn EXCEPT ![t] = Append(@, perm)]
        /\ store' = [p \in Party |-> [store[p] EXCEPT
                       ![handle[p][t] + 1] = Append(@, ConfigOf[size][perm])]]
  /\ UNCHANGED <<malicious, size, handle, pc, vector, inverse>>

Generated(t) ==
  /\ Together(t, "generate") /\ Len(drawn[t]) = Cardinality(Party)
  /\ AllTo(t, "shuffle")
  /\ UNCHANGED <<malicious, size, store, handle, drawn, vector, inverse>>

\* apply with the shuffle of the thread's handle; its size is asserted to be the
\* number of players.
ApplyShuffle(t, place, reverse, next) ==
  /\ Together(t, place)
  /\ LET p == CHOOSE q \in Party : TRUE
     IN  vector' = [vector EXCEPT ![t] = Apply(@, size, Shuffle(p, t), reverse)]
  /\ AllTo(t, next)
  /\ UNCHANGED <<malicious, size, store, handle, drawn, inverse>>

ApplyForward(t) == ApplyShuffle(t, "shuffle", FALSE, "unshuffle")

ApplyReverse(t) == ApplyShuffle(t, "unshuffle", TRUE, "delete")

\* ShuffleStore::del
Del(p, t) ==
  /\ pc[p][t] = "delete"
  /\ store' = [store EXCEPT ![p][handle[p][t] + 1] = <<>>]
  /\ pc' = [pc EXCEPT ![p][t] = "end"]
  /\ UNCHANGED <<malicious, size, handle, drawn, vector, inverse>>

\* Bob sets the inverse of what he was shown, padded to a power of two.
InverseOf(perm, n) ==
  [i \in 0 .. Pow2(n) - 1 |->
     IF i < n THEN CHOOSE k \in 0 .. n - 1 : perm[k] = i ELSE i]

\* Mutant of Masked: the network is run the other way.
MaskedForward(a, n, perm) ==
  Post(IterWaksman(Pow2(n), ConfigOf[n][perm], FALSE, Pre(a, n)), n)

\* pre, configure, iter_waksman(true) and post
Masked(a, n, perm) ==
  Post(IterWaksman(Pow2(n), ConfigOf[n][perm], TRUE, Pre(a, n)), n)

\* inverse_permutation, for two players who follow the protocol: Alice masks stack
\* by her permutation, Bob sees the product and inverts it, and Alice's permutation
\* goes through a network that Bob configured.
InversePermutation(t) ==
  /\ ~malicious /\ Cardinality(Party) = 2
  /\ Together(t, "begin")
  /\ \E stack, permAlice \in Draws(t, size) :
        LET permBob == Masked(stack, size, permAlice)
        IN  inverse' = [inverse EXCEPT ![t] =
              [of |-> stack,
               is |-> Masked(permAlice, size, InverseOf(permBob, size))]]
  /\ AllTo(t, "end")
  /\ UNCHANGED <<malicious, size, store, handle, drawn, vector>>

Done == (\A t \in Thread : Together(t, "end")) /\ UNCHANGED vars

Next ==
  \/ \E p \in Party, t \in Thread : Add(p, t) \/ Del(p, t)
  \/ \E t \in Thread :
        \/ GeneratePlayer(t) \/ Generated(t)
        \/ ApplyForward(t) \/ ApplyReverse(t)
        \/ ShuffleOnce(t) \/ InversePermutation(t)
  \/ Done

Spec == Init /\ [][Next]_vars

-----------------------------------------------------------------------------

Places == {"begin", "generate", "shuffle", "unshuffle", "delete", "end"}

TypeOK ==
  /\ malicious \in BOOLEAN /\ size \in Sizes
  /\ \A p \in Party, t \in Thread :
        /\ pc[p][t] \in Places
        /\ handle[p][t] \in {None} \cup 0 .. Len(store[p]) - 1
        /\ pc[p][t] \notin {"begin", "end"} => handle[p][t] # None
  /\ \A p \in Party : Len(store[p]) <= Cardinality(Thread)
  /\ \A t \in Thread : drawn[t] \in BoundedSeq(Perms(size), Cardinality(Party))

\* The configurations behind a thread's handle are those its own players made, and
\* the same at all parties, whatever other threads add and delete in between and
\* though the parties' stores may hand out different handles.
SameShuffle ==
  \A t \in Thread, p \in Party :
     pc[p][t] \in {"shuffle", "unshuffle", "delete"}
       => Shuffle(p, t) = [k \in DOMAIN drawn[t] |-> ConfigOf[size][drawn[t][k]]]

\* Where unit i is after the shuffles drawn so far.
Destination(t, i) ==
  LET to[k \in 0 .. Len(drawn[t])] == IF k = 0 THEN i ELSE drawn[t][k][to[k - 1]]
  IN  to[Len(drawn[t])]

\* Thread t has shuffled its vector and not undone it.
Shuffled(t) ==
  \/ Together(t, "unshuffle")
  \/ Together(t, "end") /\ drawn[t] # <<>> /\ \A p \in Party : handle[p][t] = None

\* Forwards a shuffle sends each unit where the players' permutations, one after the
\* other, send it; backwards it brings each unit home.  No padding gets among the
\* units, so that post never throws.
ShuffleApplied ==
  \A t \in Thread :
     /\ Shuffled(t)
          => \A i \in 0 .. size - 1 : vector[t][Destination(t, i)] = i
     /\ Together(t, "delete") => vector[t] = Units(size)

\* inverse_permutation makes the inverse, of any permutation and with any mask,
\* powers of two or not.
InverseIsInverse ==
  \A t \in Thread :
     inverse[t] # None
       => \A i \in 0 .. size - 1 : inverse[t].is[inverse[t].of[i]] = i
=============================================================================
