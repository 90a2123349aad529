------------------------------ MODULE MCShell -----------------------------
EXTENDS Shell

Lit(w) == <<"lit", w>>
Var(w) == <<"var", w>>
Line(toks) == [kind |-> "line", tokens |-> toks]
Cmdl(ws) == Line([i \in DOMAIN ws |-> Lit(ws[i])])
For(v, a, op, b, st, body) ==
    [kind |-> "for", var |-> <<v>>, start |-> a, op |-> op, end |-> b, step |-> st, body |-> body]

MCDirs == {<<>>, <<"bin">>, <<"home">>, <<"home", "d">>}
MCNameOf == (<<>> :> "/") @@ (<<"bin">> :> "/bin") @@ (<<"home">> :> "/home") @@ (<<"home", "d">> :> "/home/d")
Abs(c) == [from |-> "root", comps |-> c]
Rel(c) == [from |-> "cwd", comps |-> c]
MCPathOf ==
    ("/" :> Abs(<<>>)) @@ ("/bin" :> Abs(<<"bin">>)) @@ ("/home" :> Abs(<<"home">>))
    @@ ("/home/d" :> Abs(<<"home", "d">>)) @@ ("~/d" :> [from |-> "home", comps |-> <<"d">>])
    @@ ("d" :> Rel(<<"d">>)) @@ ("../.." :> Rel(<<"..", "..">>)) @@ ("home" :> Rel(<<"home">>))
MCPathList == ("/bin:/usr" :> <<<<"bin">>, <<"usr">>>>) @@ ("none" :> <<>>)
MCPrograms == {<<<<"bin">>, "sort">>, <<<<"bin">>, "cat">>, <<<<"home">>, "sort">>}
MCExplicit == ("/bin/cat" :> <<<<"bin">>, "cat">>) @@ ("/cat" :> <<<<>>, "cat">>)
MCAppWords == {"d"}
MCTruncated == (<<"LONGER">> :> <<"LONG">>)

\* Single commands, pipelines of two stages, loops over builtins.
MCLines ==
    { Cmdl(<<"cd", "~/d">>), Cmdl(<<"cd", "../..">>), Line(<<Lit("cd"), Var("X")>>),
      Cmdl(<<"setenv", "X", "home">>), Cmdl(<<"setenv", "X">>), Cmdl(<<"setenv", "CWD", "/bin">>),
      Cmdl(<<"sort", "|", "setenv", "Y">>), Cmdl(<<"sort", "|", "cat">>),
      Cmdl(<<"pwd", "|", "/bin/cat", "d">>), Cmdl(<<"/cat">>), Cmdl(<<"printenv", "|", "nosuch">>), Cmdl(<<"|", "cat">>),
      Cmdl(<<"wm", "default", "tiled">>), Cmdl(<<"help">>), Line(<<Var("X")>>),
      For("I", 0, "<", 1, 1, <<Lit("cd"), Lit("home")>>),
      For("I", 0, "<=", IntMax, 1, <<Lit("getenv"), Var("I")>>) }

\* The same, and a pipeline of three stages.
ThreeStages == { Cmdl(<<"sort", "|", "cat", "|", "sort">>) }

\* A loop over a program, after a pipeline.
LoopApp == MCLines \cup { For("I", 0, "<", 1, 1, <<Lit("cat")>>) }
LoopCwd == MCLines \cup { For("CWD", 0, "<", 1, 1, <<Lit("pwd")>>) }
LongName == MCLines \cup { Cmdl(<<"setenv", "LONGER", "d">>) }
===========================================================================
