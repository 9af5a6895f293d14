----------------------------- MODULE Allocator -----------------------------
(***************************************************************************)
(* What a heap promises: storage that was handed out and not given back    *)
(* is nobody else's.                                                       *)
(***************************************************************************)
EXTENDS Integers

CONSTANT Words  \* the indices of the words of the heap

VARIABLE live   \* per start of a piece that is in use, its length in words

Piece(a, n) == a..(a + n - 1)

Init == live = [a \in {} |-> 0]

(* A piece that is within the heap and apart from all others.              *)
New(a, n, others) ==
  /\ n > 0 /\ Piece(a, n) \subseteq Words
  /\ \A b \in DOMAIN others : Piece(a, n) \cap Piece(b, others[b]) = {}

With(a, n, others) == [b \in DOMAIN others \cup {a} |-> IF b = a THEN n ELSE others[b]]
Without(a) == [b \in DOMAIN live \ {a} |-> live[b]]

Allocate ==
  \E a \in DOMAIN live' :
    New(a, live'[a], live) /\ live' = With(a, live'[a], live)

Release == \E a \in DOMAIN live : live' = Without(a)

(* Another piece for an old one, which is not given up before.             *)
Exchange ==
  \E old \in DOMAIN live : \E a \in DOMAIN live' :
    /\ New(a, live'[a], live)
    /\ live' = With(a, live'[a], Without(old))

Spec == Init /\ [][Allocate \/ Release \/ Exchange]_live

=============================================================================
