---------------------------- MODULE MCLuaMeaning ----------------------------
(***************************************************************************)
(* Programs for LuaMeaning: conditions, assignments, loops, calls and sums. *)
(***************************************************************************)
EXTENDS LuaMeaning

\* Abbreviations for trees.
N(x) == <<"name", x>>
K(v) == <<"const", v>>
C(f, args) == <<"call", N(f), args>>
B(op, x, y) == <<"bin", op, x, y>>
Not(x) == <<"un", "NOT", x>>
F(params, b) == <<"function", params, FALSE, b>>
Local(x, e) == <<"local", <<x>>, <<e>>>>
Ret(e) == <<"return", <<e>>>>
Set(x, e) == <<"assign", <<N(x)>>, <<e>>>>

Index(t, k) == <<"index", N(t), k>>
I_(n) == K(Num(n))
Table(es) == <<"table", [i \in 1..Len(es) |-> <<"item", es[i]>>]>>
Call(s) == <<"call", s[2], s[3]>>
SeqsUpTo(S, n) == UNION {[1..k -> S] : k \in 1..n}

-----------------------------------------------------------------------------
\* Conditions of two levels, as values and as conditions.
Leaves == {N("a"), K(NIL), I_(1), B("EQ", N("a"), N("b"))}
Small == Leaves \cup {Not(x) : x \in Leaves}
           \cup {B(op, x, y) : op \in {"AND", "OR"}, x, y \in Leaves}
Under(X) == {B(op, x, y) : op \in {"AND", "OR"}, x, y \in X}
Few == {N("a"), B("EQ", N("a"), N("b"))}
Big == {Not(x) : x \in Small}
       \cup {B(op, x, y) : op \in {"AND", "OR"}, x \in Small, y \in Leaves}
       \cup {B(op, x, y) : op \in {"AND", "OR"}, x \in Leaves, y \in Small}
       \cup Under(Few \cup {Not(x) : x \in Few} \cup Under(Few))
Conditions ==
    {<<Local("a", K(v)), Local("b", I_(7)), s>> :
        v \in {NIL, Num(7)},
        s \in {Ret(x) : x \in Big} \cup {<<"if", <<<<x, <<Set("a", I_(3))>>>>>>, <<>>>> : x \in Big}}

-----------------------------------------------------------------------------
\* Assignments of several values, to locals and to variables around.
Targets1 == {N("i"), N("t"), N("g"), Index("t", N("i")), Index("t", Index("t", N("i")))}
Values1 == {N("i"), N("t"), <<"call", N("f"), <<N("i"), I_(2)>>>>}
Assignments ==
    {<<<<"local", <<"t", "i">>, <<Table(<<I_(2), I_(1)>>), I_(1)>>>>>> \o
        (IF around THEN <<<<"localfunction", "h", F(<<>>, <<a>>)>>, C("h", <<>>)>> ELSE <<a>>)
        \o <<<<"return", <<N("i"), N("t")>>>>>> :
        around \in BOOLEAN,
        a \in {<<"assign", xs, es>> : xs \in SeqsUpTo(Targets1, 2), es \in SeqsUpTo(Values1, 2)}
              \cup {<<"assign", xs, <<I_(2), <<"call", N("f"), <<N("t"), I_(1)>>>>>>>> : xs \in [1..3 -> Targets1]}}

-----------------------------------------------------------------------------
\* Loops whose bodies declare, capture and jump.
When(x, s) == <<"if", <<<<x, <<s>>>>>>, <<>>>>
Inc(x) == Set(x, B("ADD", N(x), I_(1)))
BodyParts ==
    {<<Local("x", N("n"))>>,
     <<<<"assign", <<Index("t", N("n"))>>, <<F(<<>>, <<Inc("x"), Ret(N("x"))>>)>>>>>>,
     <<When(B("EQ", N("n"), I_(2)), <<"goto", "continue">>)>>,
     <<When(B("EQ", N("n"), I_(2)), <<"goto", "break">>)>>,
     <<Inc("n"), When(B("LT", N("n"), I_(4)), <<"goto", "top">>)>>,
     <<<<"label", "top">>>>,
     <<<<"label", "continue">>>>,
     <<<<"do", <<Local("x", I_(40)), <<"assign", <<Index("t", I_(9))>>, <<F(<<>>, <<Ret(N("x"))>>)>>>>,
                 When(B("LT", N("n"), I_(3)), <<"goto", "continue">>)>>>>>>}
Looped(kind, b) ==
    CASE kind = "while" -> <<"while", B("LT", N("n"), I_(4)), <<Inc("n")>> \o b>>
      [] kind = "repeat" -> <<"repeat", <<Inc("n")>> \o b, B("OR", B("GE", N("n"), I_(4)), B("EQ", N("x"), I_(3)))>>
      [] kind = "for" -> <<"fornum", "x", I_(1), I_(3), <<>>, <<Inc("n")>> \o b>>
      [] kind = "forin" -> <<"forin", <<"x">>, <<N("count"), I_(3), I_(0)>>, <<Inc("n")>> \o b>>
      [] kind = "do" -> <<"do", b>>
Called(i) == B("AND", Index("t", I_(i)), <<"call", Index("t", I_(i)), <<>>>>)
TwoParts == BodyParts \cup {p \o q : p, q \in BodyParts}
LoopBodies(kind) == TwoParts \cup (IF kind \in {"while", "repeat"} THEN {p \o q : p \in BodyParts, q \in TwoParts} ELSE {})
LoopOf(kind, b) ==
    <<Local("t", Table(<<>>)), Local("n", I_(0)), Local("x", I_(20)), Looped(kind, b),
      <<"return", <<N("n"), Called(1), Called(2), Called(2), Called(3), Called(9), N("x")>>>>>>
Loops == UNION {{LoopOf(kind, b) : b \in LoopBodies(kind)} : kind \in {"while", "repeat", "for", "forin", "do"}}

-----------------------------------------------------------------------------
\* Functions with few or many arguments and results.
Vararg == <<"vararg">>
Bodies1 == {<<<<"return", es>>>> : es \in {<<Vararg>>, <<<<"paren", Vararg>>>>, <<N("x"), Vararg>>,
                <<C("f", <<N("y"), Vararg>>)>>, <<>>, <<Table(<<N("x"), Vararg>>)>>}}
           \cup {<<<<"local", <<"p", "q">>, <<N("x"), Vararg>>>>, Ret(C("f", <<N("q"), N("p")>>))>>}
Lists1 == {<<>>, <<I_(1)>>, <<I_(1), I_(2)>>, <<Vararg, I_(3)>>, <<I_(3), Vararg>>, <<C("f", <<I_(1), Vararg>>)>>}
H(args) == C("h", args)
Uses(args) ==
    {<<<<"return", <<H(args)>>>>>>, <<<<"return", <<I_(5), H(args)>>>>>>,
     <<<<"return", <<<<"paren", H(args)>>, I_(6)>>>>>>,
     <<<<"local", <<"p", "q", "r">>, <<I_(5), H(args)>>>>, <<"return", <<N("r"), N("q")>>>>>>,
     <<Ret(Table(<<H(args), H(args)>>))>>, <<H(args), Ret(<<"vararg">>)>>,
     <<Ret(B("CONCAT", N("h"), B("CONCAT", I_(1), H(args))))>>,
     <<Ret(B("CONCAT", I_(1), B("CONCAT", I_(2), B("SUB", H(args), I_(3)))))>>,
     <<<<"local", <<"o">>, <<<<"table", <<<<"field", K(Str("m")), N("h")>>, <<"item", I_(3)>>>>>>>>>>,
       <<"return", <<<<"method", N("o"), "m", args>>>>>>>>,
     <<<<"forin", <<"p", "q">>, <<N("h"), I_(1)>>, <<C("f", <<N("p"), N("q")>>), <<"goto", "break">>>>>>>>}
Calls ==
    {<<<<"localfunction", "h", <<"function", ps, vararg, b>>>>>> \o u :
        ps \in {<<>>, <<"x">>, <<"x", "y">>}, vararg \in BOOLEAN, b \in Bodies1,
        u \in UNION {Uses(args) : args \in Lists1}}
\* With arithmetic on constants, and recursion.
Sums ==
    {<<<<"localfunction", "h", F(<<"x", "y">>,
         <<<<"if", <<<<B("LE", N("x"), I_(0)), <<Ret(N("y"))>>>>,
                     <<B("GT", N("x"), I_(3)), <<Ret(Not(B("NE", N("x"), N("y"))))>>>>>>,
                   <<<<"return", <<C("h", <<B("SUB", N("x"), I_(1)), e>>)>>>>>>>>>>)>>,
       <<"function", "g", F(<<"x">>, <<Set("g", N("x")), <<"local", <<"u">>, <<>>>>, <<"local", <<"v">>, <<>>>>, Ret(N("v"))>>)>>,
       <<"fornum", "i", I_(3), I_(1), <<"un", "UNM", I_(s)>>, <<C("f", <<C("h", <<N("i"), N("i")>>)>>)>>>>,
       <<"return", <<C("g", <<z>>), N("g"), e2>>>>>> :
        e \in {B("SUB", B("ADD", N("y"), N("x")), B("SUB", I_(4), N("x"))), <<"un", "UNM", N("y")>>, B("IDIV", B("ADD", N("y"), I_(1)), B("SUB", I_(3), I_(1)))},
        s \in {1, 2}, z \in {I_(1), K(Str("s")), K(TRUE_)},
        e2 \in {B(op, B("SUB", I_(6), I_(1)), x) : op \in {"ADD", "IDIV", "CONCAT", "LT", "GE", "NE", "EQ"},
                                                     x \in {I_(0), I_(4), N("g"), B("IDIV", I_(1), I_(0))}}}

MCPrograms == Conditions \cup Assignments \cup Loops \cup Calls \cup Sums

-----------------------------------------------------------------------------
(* The assertions of the compiler hold, the frame of every function is as   *)
(* big as its instructions need, and exactly the programs that the manual   *)
(* does not admit are refused.                                             *)
CompiledWell == [][(AssertionsHold /\ FramesSuffice /\ RefusedIfWrong)']_vars
=============================================================================
