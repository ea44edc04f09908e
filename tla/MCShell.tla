------------------------------- MODULE MCShell -------------------------------
(***************************************************************************)
(* Instances of Shell for TLC.                                             *)
(***************************************************************************)
EXTENDS Shell

gen == execcmd(<<"gen">>)
cat == execcmd(<<"cat">>)
Line(toks, cmd) == [toks |-> toks, cmd |-> cmd]

\* Every construct of the grammar, precedence and grouping, and two errors.
Typed ==
  {Line(<<"gen", "|", "cat">>, pipecmd(gen, cat)),
   Line(<<"gen", "|", "cat", "|", "cat">>, pipecmd(gen, pipecmd(cat, cat))),
   Line(<<"gen", "|", "gen">>, pipecmd(gen, gen)),
   Line(<<"gen", "|", "cat", ">", "f">>, pipecmd(gen, redircmd(cat, "f", 1))),
   Line(<<"gen", ">", "f", ";", "cat", "<", "f">>,
        listcmd(redircmd(gen, "f", 1), redircmd(cat, "f", 0))),
   Line(<<"(", "gen", ";", "gen", ")", ">>", "f">>, redircmd(listcmd(gen, gen), "f", 1)),
   Line(<<"gen", "|", "(", "cat", ";", "cat", "<", "f", ")">>,
        pipecmd(gen, listcmd(cat, redircmd(cat, "f", 0)))),
   Line(<<"gen", ">", "f", "&", ";", "gen">>, listcmd(backcmd(redircmd(gen, "f", 1)), gen)),
   Line(<<"nothing", "|", "cat", ";">>, listcmd(pipecmd(execcmd(<<"nothing">>), cat), execcmd(<<>>))),
   Line(<<"gen", "|", "(", "cat">>, Syntax),
   Line(<<"gen", ">", "|", "cat">>, Syntax)}
=============================================================================
