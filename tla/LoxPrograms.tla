---------------------------- MODULE LoxPrograms ----------------------------
(***************************************************************************)
(* Lox programs to compile and run, as syntax trees.  A family varies the  *)
(* parts that interact; the source of its programs stands above it.        *)
(***************************************************************************)
EXTENDS LoxSyntax

LOCAL INSTANCE SequencesExt

N(n) == Literal(Num(n))
S(s) == Literal(Str(s))
True == Literal(Bool(TRUE))
False == Literal(Bool(FALSE))
V(name) == Variable(name)
Set1(name, e) == Expression(Assign(name, e))
Plus(x, y) == Binary(x, "Plus", y)
Less(x, y) == Binary(x, "Less", y)
Call0(f) == Call(f, <<>>)
Fun0(name, body) == Function(name, <<>>, body)
P(e) == PrintStmt(e)

\* The programs T(x) and T(x, y) for all x in xs and y in ys.
Each(xs, T(_)) == [i \in DOMAIN xs |-> T(xs[i])]
EachPair(xs, ys, T(_, _)) ==
    FlattenSeq([i \in DOMAIN xs |-> [j \in DOMAIN ys |-> T(xs[i], ys[j])]])

-----------------------------------------------------------------------------
\* var get; var put;
\* { var a = 1; var b = 2;
\*   fun g() { return <x>; }  fun p(v) { <y> = v; }
\*   get = g; put = p; put(3); print a + b; <between> }
\* put(5); print get(); print get();
SharedVariables(between) ==
    LET T(x, y) ==
            << Var("get", Absent), Var("put", Absent),
               Block(<< Var("a", N(1)), Var("b", N(2)),
                        Fun0("g", <<Return(V(x))>>),
                        Function("p", <<"v">>, <<Set1(y, V("v"))>>),
                        Set1("get", V("g")), Set1("put", V("p")),
                        Expression(Call(V("put"), <<N(3)>>)),
                        P(Plus(V("a"), V("b"))) >> \o between),
               Expression(Call(V("put"), <<N(5)>>)),
               P(Call0(V("get"))) >>
    IN  EachPair(<<"a", "b">>, <<"a", "b">>, T)

\* Another closure over one of the same variables and one of its own block.
InnerBlock ==
    << Block(<< Var("c", N(4)),
                Fun0("k", << Set1("a", Plus(V("a"), V("c"))),
                             Return(V("c")) >>),
                P(Call0(V("k"))) >>),
       P(V("a")) >>

Closures ==
    SharedVariables(<<>>) \o SharedVariables(InnerBlock)
        \o SharedVariables(<< Set1("a", N(7)), Set1("b", N(8)) >>)

\* fun make(n) { var m = n;
\*   fun inc() { <x> = <x> + 1; fun deep() { return n + m; } return deep; }
\*   if (n < 1) { return inc; }
\*   { var o = n; fun other() { o = o + n; return inc; } return other(); } }
\* var c = make(0); var d = make(1); c(); print c()(); print d()();
Counters ==
    LET T(x) ==
            << Function("make", <<"n">>,
                   << Var("m", V("n")),
                      Fun0("inc",
                          << Set1(x, Plus(V(x), N(1))),
                             Fun0("deep", <<Return(Plus(V("n"), V("m")))>>),
                             Return(V("deep")) >>),
                      If(Less(V("n"), N(1)), Block(<<Return(V("inc"))>>), Absent),
                      Block(<< Var("o", V("n")),
                               Fun0("other", << Set1("o", Plus(V("o"), V("n"))),
                                                Return(V("inc")) >>),
                               Return(Call0(V("other"))) >>) >>),
               Var("c", Call(V("make"), <<N(0)>>)),
               Var("d", Call(V("make"), <<N(1)>>)),
               Expression(Call0(V("c"))),
               P(Call0(Call0(V("c")))), P(Call0(Call0(V("d")))) >>
    IN  Each(<<"n", "m">>, T)

\* fun run() { var f = nil; var g = nil;
\*   for (var i = 0; i < 2; i = i + 1) {
\*     var j = i;
\*     fun h() { <x> = <x> + 1; return <x>; }
\*     if (f == nil) f = h; else g = h; }
\*   print f(); print g(); return f() + g(); }
\* print run();
LoopVariables ==
    LET T(x) ==
            << Fun0("run",
                   << Var("f", Absent), Var("g", Absent),
                      For(Var("i", N(0)), Less(V("i"), N(2)),
                          Assign("i", Plus(V("i"), N(1))),
                          Block(<< Var("j", V("i")),
                                   Fun0("h", << Set1(x, Plus(V(x), N(1))),
                                                Return(V(x)) >>),
                                   If(Binary(V("f"), "EqualEqual", Literal(Nil)),
                                      Set1("f", V("h")), Set1("g", V("h"))) >>)),
                      P(Call0(V("f"))), P(Call0(V("g"))),
                      Return(Plus(Call0(V("f")), Call0(V("g")))) >>),
               P(Call0(V("run"))) >>
    IN  Each(<<"i", "j">>, T)

-----------------------------------------------------------------------------
\* class A { init(x) { this.x = x; }  get() { return this.x; }
\*           add(y) { fun f() { return this.x + y; } return f; } }
\* class B < A { get() { return super.get() + 10; }  up() { return super.get; }
\*               bad() { return super.add2; } }
\* class E {}
\* var a = A(1); var b = B(2); var e = E();
\* fun id(z) { return z; }
\* print <x>;
\* print b.get();
\* The expressions x that use fields, methods, initialisers and super the way
\* they should be used or the way that ends in an error.
Objects ==
    LET a == V("a")
        b == V("b")
        Dot0(o, m) == Call0(Get(o, m))
        Dot1(o, m, x) == Call(Get(o, m), <<x>>)
        Field(f) == Get(Grouping(Logical(Set(V("e"), "f", f), "And", V("e"))),
                        "f")
        FieldCalls == << Call0(Field(V("A"))), Call(Field(V("A")), <<N(4)>>),
                         Call0(Field(V("E"))), Call(Field(V("E")), <<N(4)>>),
                         Call0(Field(V("id"))), Call0(Field(Get(a, "add"))),
                         Call(Field(V("id")), <<N(4)>>),
                         Call(Field(Get(a, "add")), <<N(3)>>),
                         Call(Field(V("clock")), <<N(4)>>) >>
        expressions ==
            << Dot0(a, "get"), Dot0(b, "get"), Call0(Dot0(b, "up")),
               Call0(Grouping(Get(b, "get"))), Call0(Dot1(b, "add", N(5))),
               Set(a, "y", Set(b, "x", N(6))), Get(Dot1(b, "init", N(7)), "x"),
               Binary(Get(a, "get"), "EqualEqual", Get(a, "get")),
               Plus(Dot0(a, "get"), Dot0(Call(V("A"), <<N(3)>>), "get")),
               Dot1(Set(a, "get", V("id")), "zz", N(1)),
               Call(Grouping(Set(a, "f", Get(b, "get"))), <<>>),
               Dot1(V("e"), "init", N(1)), Get(V("e"), "x"), Get(N(1), "x"),
               Set(V("A"), "x", N(1)), Dot0(a, "add"), Call0(V("A")),
               Call(V("E"), <<N(1)>>), Dot0(a, "x"), Dot0(N(1), "get"),
               Call0(Get(b, "no")), V("a"), V("B"), Get(a, "add"),
               Call(V("id"), <<Set(V("e"), "k", Get(a, "get"))>>),
               Call(Grouping(Get(b, "get")), <<N(1)>>), Dot0(b, "bad") >>
            \o FieldCalls
        T(x) ==
            << Class("A", Absent,
                   << Function("init", <<"x">>,
                               <<Expression(Set(This, "x", V("x")))>>),
                      Fun0("get", <<Return(Get(This, "x"))>>),
                      Function("add", <<"y">>,
                          << Fun0("f", <<Return(Plus(Get(This, "x"), V("y")))>>),
                             Return(V("f")) >>) >>),
               Class("B", V("A"),
                   << Fun0("get", <<Return(Plus(Call0(Super("get")), N(10)))>>),
                      Fun0("up", <<Return(Super("get"))>>),
                      Fun0("bad", <<Return(Super("add2"))>>) >>),
               Class("E", Absent, <<>>),
               Var("a", Call(V("A"), <<N(1)>>)),
               Var("b", Call(V("B"), <<N(2)>>)),
               Var("e", Call0(V("E"))),
               Function("id", <<"z">>, <<Return(V("z"))>>),
               P(x),
               P(Dot0(b, "get")) >>
    IN  Each(expressions, T)

\* A field that holds a function is called like a method; an initialiser that
\* returns early still gives the instance; a class that is no superclass.
\* class A { init(x) { if (x) return; this.x = 1; }  m(y) { return y; } }
\* var a = A(<c>); a.m = A(true).m; print a.m(3); a.m = clock; print a.m();
\* print A(false).x; class C < a {}
Fields ==
    LET a == V("a")
        T(c) ==
            << Class("A", Absent,
                   << Function("init", <<"x">>,
                               << If(V("x"), Return(Absent), Absent),
                                  Expression(Set(This, "x", N(1))) >>),
                      Function("m", <<"y">>, <<Return(V("y"))>>) >>),
               Var("a", Call(V("A"), <<c>>)),
               Expression(Set(a, "m", Get(Call(V("A"), <<True>>), "m"))),
               P(Call(Get(a, "m"), <<N(3)>>)),
               Expression(Set(a, "m", V("clock"))),
               P(Call0(Get(a, "m"))),
               P(Get(Call(V("A"), <<False>>), "x")),
               Class("C", a, <<>>) >>
    IN  Each(<<True, False>>, T)

\* A subclass among locals: its superclass is a local too, from its declaration on.
\* class A { get() { return 1; } }  var h;
\* fun f(n) { var a = n; <s> var c = 3;
\*   fun k() { c = c + a; return c; }
\*   print B().get() + k(); { var d = c; print d + B().get(); }
\*   h = k; }
\* f(2); print h(); f(5); { var w = h(); print w; } print h();
\* or with the body of f in a block, where n is 2, for each s of
\*   class B < A { get() { fun i() { return super.get() + a; } return i(); } }
\*   { class B < A { get() { return super.get() + n; } } var e = 7; print e + a; }
\*   class M < A { get() { return super.get() + n; } }  var e = 4;
\*     class B < M { get() { return super.get() + e; } }
\*   fun g() { class B < A { get() { return super.get() + a; } }
\*             var b = B(); return b.get(); }  print g();
\*   class B < A { get() { class I < A { get() { return super.get() + 10; } }
\*                         var i = I(); return i.get() + n; } }
\*   class B < a {}
Subclasses ==
    LET Gets(class, e) == Call0(Get(Call0(V(class)), e))
        Sub(name, of, body) == Class(name, V(of), <<Fun0("get", body)>>)
        More(e) == <<Return(Plus(Call0(Super("get")), e))>>
        declarations ==
            << <<Sub("B", "A", << Fun0("i", More(V("a"))),
                                  Return(Call0(V("i"))) >>)>>,
               <<Block(<< Sub("B", "A", More(V("n"))), Var("e", N(7)),
                          P(Plus(V("e"), V("a"))) >>)>>,
               << Sub("M", "A", More(V("n"))), Var("e", N(4)),
                  Sub("B", "M", More(V("e"))) >>,
               << Fun0("g",
                      << Sub("B", "A", More(V("a"))), Var("b", Call0(V("B"))),
                         Return(Call0(Get(V("b"), "get"))) >>),
                  P(Call0(V("g"))) >>,
               << Sub("B", "A",
                      << Sub("I", "A", More(N(10))), Var("i", Call0(V("I"))),
                         Return(Plus(Call0(Get(V("i"), "get")), V("n"))) >>) >>,
               <<Class("B", V("a"), <<>>)>> >>
        Body(decls) ==
            <<Var("a", V("n"))>> \o decls
                \o << Var("c", N(3)),
                      Fun0("k", << Set1("c", Plus(V("c"), V("a"))),
                                   Return(V("c")) >>),
                      P(Plus(Gets("B", "get"), Call0(V("k")))),
                      Block(<< Var("d", V("c")),
                               P(Plus(V("d"), Gets("B", "get"))) >>),
                      Set1("h", V("k")) >>
        Run(n) == Expression(Call(V("f"), <<N(n)>>))
        T(decls, wrapped) ==
            << Class("A", Absent, <<Fun0("get", <<Return(N(1))>>)>>),
               Var("h", Absent) >>
                \o (IF wrapped
                    THEN <<Block(<<Var("n", N(2))>> \o Body(decls)), P(Call0(V("h")))>>
                    ELSE << Function("f", <<"n">>, Body(decls)), Run(2),
                            P(Call0(V("h"))), Run(5) >>)
                \o << Block(<<Var("w", Call0(V("h"))), P(V("w"))>>),
                      P(Call0(V("h"))) >>
    IN  EachPair(declarations, <<TRUE, FALSE>>, T)

-----------------------------------------------------------------------------
\* fun f(p, q) { var r = p;
\*   while (r < 3) {
\*     var s = r + 1;
\*     if (<c>) { var t = s; r = t + q; } else r = r + 2;
\*     while (q < 2) { var u = q; q = u + 1; if (q == 2) return s; }
\*     print r; }
\*   return r; }
\* print f(0, <n>); print f(1, 1);
Nesting ==
    LET T(c, n) ==
            << Function("f", <<"p", "q">>,
                   << Var("r", V("p")),
                      While(Less(V("r"), N(3)),
                          Block(<< Var("s", Plus(V("r"), N(1))),
                                   If(c, Block(<< Var("t", V("s")),
                                                  Set1("r", Plus(V("t"), V("q")))
                                               >>),
                                      Set1("r", Plus(V("r"), N(2)))),
                                   While(Less(V("q"), N(2)),
                                       Block(<< Var("u", V("q")),
                                                Set1("q", Plus(V("u"), N(1))),
                                                If(Binary(V("q"), "EqualEqual",
                                                          N(2)),
                                                   Return(V("s")), Absent)
                                             >>)),
                                   P(V("r")) >>)),
                      Return(V("r")) >>),
               P(Call(V("f"), <<N(0), N(n)>>)),
               P(Call(V("f"), <<N(1), N(1)>>)) >>
    IN  EachPair(<<True, Logical(V("s"), "And", Less(V("q"), V("s"))),
                   Binary(V("p"), "Greater", V("q"))>>, <<0, 5>>, T)

\* { var x = 1; var y = <e>; print y; print x; } print <e>;
Expressions ==
    LET Op(x, op, y) == Binary(x, op, y)
        T(e) == << Var("g", N(9)), Var("x", N(2)),
                   Block(<< Var("x", N(1)), Var("y", e), P(V("y")), P(V("x")) >>),
                   P(e) >>
    IN  Each(<< Logical(V("x"), "Or", V("zz")),
                Logical(False, "And", V("zz")),
                Plus(N(1), Logical(N(2), "And", Logical(N(3), "Or", V("zz")))),
                Op(Op(N(6), "Slash", N(2)), "Minus", Op(N(2), "Star", V("x"))),
                Op(Op(N(1), "LessEqual", N(1)), "BangEqual",
                   Op(N(1), "GreaterEqual", N(2))),
                Unary("Bang", Unary("Bang", Literal(Nil))),
                Unary("Minus", Unary("Minus", V("x"))),
                Op(S("a"), "EqualEqual", N(1)), Plus(S("a"), S("b")),
                Plus(S("a"), N(1)), Op(S("a"), "Less", N(1)),
                Op(Literal(Nil), "Minus", N(1)), Unary("Minus", S("a")),
                Assign("g", Assign("x", N(5))), Assign("zz", N(1)), V("zz"),
                Call0(N(1)), Call0(V("clock")), Call(V("clock"), <<N(1)>>),
                Call(S("a"), <<N(1)>>) >>, T)

\* fun down(n) { var k = n; fun keep() { return k; }
\*   if (k < 1) return keep(); return down(n - 1) + keep(); }
\* print down(<n>); down(1, 2);
Recursion ==
    LET T(n) ==
            << Function("down", <<"n">>,
                   << Var("k", V("n")), Fun0("keep", <<Return(V("k"))>>),
                      If(Less(V("k"), N(1)), Return(Call0(V("keep"))), Absent),
                      Return(Plus(Call(V("down"),
                                       <<Binary(V("n"), "Minus", N(1))>>),
                                  Call0(V("keep")))) >>),
               P(Call(V("down"), <<N(n)>>)),
               Expression(Call(V("down"), <<N(1), N(2)>>)) >>
    IN  Each(<<0, 2, 3>>, T)

-----------------------------------------------------------------------------
\* var h = clock;
\* fun f(a) { var b = 1; <s1> <s2> <s3> return h; }
\* f(0); print h(); f(1); print h();
\* for every choice of three of the statements
\*   b = a + b;    print h();    if (b < 2) return a;
\*   { fun k() { b = b + 1; return a; } h = k; }
\*   { var a = b; fun k() { a = a + 1; return a; } h = k; }
\*   { var c = a; { var d = b; fun k() { d = c + d; c = b; return d; } h = k; }
\*     print h(); c = 7; }
\*   while (a < 2) { var d = a; fun k() { d = d + b; return d; } h = k; a = a + 1; }
\*   { fun k() { fun l() { a = a + 2; return a + b; } return l; } h = k(); }
Scopes ==
    LET a == V("a")
        b == V("b")
        k == Set1("h", V("k"))
        statements ==
            << Set1("b", Plus(a, b)),
               P(Call0(V("h"))),
               If(Less(b, N(2)), Return(a), Absent),
               Block(<<Fun0("k", <<Set1("b", Plus(b, N(1))), Return(a)>>), k>>),
               Block(<<Var("a", b),
                       Fun0("k", <<Set1("a", Plus(a, N(1))), Return(a)>>), k>>),
               Block(<<Var("c", a),
                       Block(<<Var("d", b),
                               Fun0("k", <<Set1("d", Plus(V("c"), V("d"))),
                                           Set1("c", b), Return(V("d"))>>), k>>),
                       P(Call0(V("h"))), Set1("c", N(7))>>),
               While(Less(a, N(2)),
                     Block(<<Var("d", a),
                             Fun0("k", <<Set1("d", Plus(V("d"), b)),
                                         Return(V("d"))>>), k,
                             Set1("a", Plus(a, N(1)))>>)),
               Block(<<Fun0("k", <<Fun0("l", <<Set1("a", Plus(a, N(2))),
                                               Return(Plus(a, b))>>),
                                   Return(V("l"))>>),
                       Set1("h", Call0(V("k")))>>) >>
        n == Len(statements)
        Choice(i) == << statements[1 + (i % n)], statements[1 + ((i \div n) % n)],
                        statements[1 + (i \div (n * n))] >>
        T(body) ==
            << Var("h", V("clock")),
               Function("f", <<"a">>,
                        <<Var("b", N(1))>> \o body \o <<Return(V("h"))>>),
               Expression(Call(V("f"), <<N(0)>>)), P(Call0(V("h"))),
               Expression(Call(V("f"), <<N(1)>>)), P(Call0(V("h"))) >>
    IN  [i \in 1 .. n * n * n |-> T(Choice(i - 1))]

-----------------------------------------------------------------------------
\* Loops that neither print nor make objects.
\* fun f(n) { for (var i = <a>; i < n; i = i + 1) { var j = i;
\*              for (; j < 2;) j = j + 1;
\*              if (i == <r>) return i; }
\*            var go = true; while (go) go = false; return n; }
\* print f(3);
Loops ==
    LET T(a, r) ==
            << Function("f", <<"n">>,
                   << For(Var("i", N(a)), Less(V("i"), V("n")),
                          Assign("i", Plus(V("i"), N(1))),
                          Block(<< Var("j", V("i")),
                                   For(Absent, Less(V("j"), N(2)), Absent,
                                       Set1("j", Plus(V("j"), N(1)))),
                                   If(Binary(V("i"), "EqualEqual", N(r)),
                                      Return(V("i")), Absent) >>)),
                      Var("go", True),
                      While(V("go"), Set1("go", False)),
                      Return(V("n")) >>),
               P(Call(V("f"), <<N(3)>>)) >>
    IN  EachPair(<<0, 2, 3>>, <<1, 9>>, T)

-----------------------------------------------------------------------------
(* Programs at the limits of the compiler.                                 *)

Sum(xs) == FoldLeft(Plus, xs[1], Tail(xs))

\* { var v1 = 1; var v2 = v1 + 1; ... var vn = ...;
\*   class A { all() { return v2 + ... + vn; } last() { vn = 0; } }
\*   vn = vn + v1; print A().all(); A().last(); print v1 + vn; }
ManyLocals(names) ==
    LET n == Len(names)
        Step(i) == Var(names[i], IF i = 1 THEN N(1) ELSE Plus(V(names[i - 1]), N(1)))
        Method(name) == Call0(Get(Call0(V("A")), name))
    IN  << Block([i \in 1 .. n |-> Step(i)] \o
            << Class("A", Absent,
                     << Fun0("all", <<Return(Sum([i \in 1 .. n - 1 |-> V(names[i + 1])]))>>),
                        Fun0("last", <<Set1(names[n], N(0))>>) >>),
               Set1(names[n], Plus(V(names[n]), V(names[1]))),
               P(Method("all")), Expression(Method("last")),
               P(Plus(V(names[1]), V(names[n]))) >>) >>

\* print 1 + 2 + ... + n;  fun f() { print 1 + ... + n; } f();
ManyLiterals(n) ==
    LET sum == P(Sum([i \in 1 .. n |-> N(i)]))
    IN  << <<sum>>, << Fun0("f", <<sum>>), Expression(Call0(V("f"))) >> >>

\* if (false) { nil; nil; ... }  print true;
\* var end = false; while (!end) { end = true; nil; nil; ... }
\* print false and (nil == nil) == ... == nil;
LongJumps(n) ==
    LET nils == [i \in 1 .. n |-> Expression(Literal(Nil))]
        Equals(x, y) == Binary(x, "EqualEqual", y)
    IN  << << If(False, Block(nils), Absent), P(True) >>,
           << Var("end", False),
              While(Unary("Bang", V("end")), Block(<<Set1("end", True)>> \o nils)) >>,
           << P(Logical(False, "And",
                        FoldLeft(Equals, Literal(Nil), [i \in 1 .. n |-> Literal(Nil)])))
           >> >>

-----------------------------------------------------------------------------
(* Rules that are broken or only just kept, in every place.                *)

Breaches ==
    << <<Return(Absent)>>,
       <<Return(N(1))>>,
       <<Expression(This)>>,
       <<Expression(Super("m"))>>,
       <<Block(<< Var("a", N(1)), Block(<<Var("a", V("a"))>>) >>)>>,
       << Var("a", Absent), Var("a", Absent) >>,
       << Var("a", N(1)), Block(<< Var("b", V("a")), Var("a", N(2)) >>) >>,
       << Var("a", Assign("a", N(1))) >>,
       << Fun0("a", <<>>), Function("b", <<"a">>, <<Return(V("a"))>>) >>,
       << Function("b", <<"a", "a">>, <<>>) >>,
       << Function("b", <<"a">>, <<Var("a", Absent)>>) >>,
       << Function("b", <<"a">>, <<Block(<<Var("a", Absent)>>)>>) >>,
       << Fun0("a", <<>>), Block(<<Var("b", Absent)>>), Var("a", Absent) >>,
       << Fun0("a", <<Return(V("a"))>>), Var("b", V("a")) >>,
       << If(True, Return(Absent), Expression(This)) >>,
       << For(Var("i", N(0)), False, Absent, Block(<<Var("i", N(1))>>)) >> >>

\* class S {}, and the statements inside a class without or with a superclass
Superclass == Class("S", Absent, <<>>)
InMethod(name, stmts) == <<Class("A", Absent, << Fun0(name, stmts) >>)>>
InSubclass(name, stmts) ==
    << Superclass, Class("A", V("S"), << Fun0(name, stmts) >>) >>

\* The places where stmts may stand.
Places(stmts) ==
    << stmts,
       <<Block(stmts)>>,
       <<Fun0("f", stmts)>>,
       InMethod("n", stmts),
       InMethod("init", stmts),
       InSubclass("n", stmts),
       InSubclass("init", stmts),
       InSubclass("n", <<Fun0("f", stmts)>>),
       InSubclass("n", InMethod("n", stmts)),
       InMethod("n", InSubclass("n", stmts)),
       InMethod("n", InSubclass("n", <<>>) \o stmts),
       InSubclass("n", <<>>) \o stmts >>

Rejected == FlattenSeq([i \in DOMAIN Breaches |-> Places(Breaches[i])])

-----------------------------------------------------------------------------
\* { var a = false or 1; print a; }
\* { var a = nil or false or 2; var b = a; print b; }
OrWithFalsyLeft ==
    << << Block(<< Var("a", Logical(False, "Or", N(1))), P(V("a")) >>) >>,
       << Block(<< Var("a", Logical(Logical(Literal(Nil), "Or", False), "Or",
                                    N(2))),
                   Var("b", V("a")), P(V("b")) >>) >> >>
=============================================================================
