----------------------------- MODULE MCConsole -----------------------------
(* One thread with any conversion, or two threads and two programs that    *)
(* print, panic and shut down at the same time.                            *)
EXTENDS Console, FiniteSets

CONSTANTS t1, t2, p1, p2

Line(items) == [kind |-> "printf", items |-> items]
Dying(items) == [kind |-> "panic", items |-> items]
AllOf(a, b, c, d) == t1 :> a @@ t2 :> b @@ p1 :> c @@ p2 :> d

Values == {-(W \div 2), -10, -1, 0, 7, W \div 2 - 1}
Flags == {{}, {"-"}, {"0"}, {"+"}, {" "}, {"-", "+"}, {"0", " "}, {"0", "-"}}
Long == <<"s", "t", "r", "i", "n", "g", "s">>

Specs ==
  {Conversion(f, min, max, conv, v) : f \in Flags, min \in {0, 3, 12}, max \in {-1, 0, 2},
                                conv \in {"d", "u", "x"}, v \in Values}
    \cup {Conversion({}, 0, -1, conv, v) : conv \in {"i", "o", "X", "p"}, v \in Values}
    \cup {Conversion(f, min, max, "s", s) : f \in {{}, {"-"}}, min \in {0, 5}, max \in {-1, 2},
                                      s \in {Null, <<>>, Long, <<"a", "b", "c">>}}
    \cup {Conversion({}, 0, -1, "c", "x"), Conversion({}, 0, -1, "%", 0), Conversion({}, 0, -1, "q", 0)}

Stars ==
  {[Conversion({}, min, -1, "d", 5) EXCEPT !.star = TRUE] : min \in {-3, 3}}

Alone == {AllOf(<<Line(<<i>>)>>, <<>>, <<>>, <<>>) : i \in Specs \cup Stars}

(* Longer than MaxLen.                                                     *)
Several == <<Char("a"), Conversion({"0"}, 2, -1, "x", 12), Char("b"), Conversion({}, 0, -1, "s", Long), Char("c")>>

ab == <<Char("a"), Char("b")>>
cd == <<Char("c"), Conversion({}, 0, -1, "d", 3)>>
Faulty == <<Char("f"), Conversion({}, 0, -1, "s", Bad), Char("g")>>

Together ==
  {AllOf(<<Line(Several)>>, <<>>, <<Line(ab)>>, <<>>),
   AllOf(<<Line(ab), Line(cd)>>, <<Line(cd)>>, <<Line(ab)>>, <<>>),
   AllOf(<<Line(ab)>>, <<Dying(ab)>>, <<Line(ab)>>, <<>>),
   AllOf(<<Line(Faulty)>>, <<Line(cd)>>, <<>>, <<>>),
   AllOf(<<Line(ab)>>, <<Dying(ab)>>, <<Line(Faulty)>>, <<>>),
   AllOf(<<Halting>>, <<Line(ab)>>, <<Line(cd)>>, <<Line(ab)>>)}

AllPlans == Alone \cup Together

=============================================================================
