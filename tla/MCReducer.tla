----------------------------- MODULE MCReducer ------------------------------
(* Sources that each validator rejects for one reason or accepts; binaries   *)
(* and libraries; projects with two binaries, and plans in which Cargo       *)
(* passes the marker on to none, one or two compilations.                    *)
EXTENDS Reducer, TLC

Plain == [nodes |-> <<>>, active |-> TRUE, features |-> {}, expanded |-> {}, attributes |-> {},
          entry |-> "main", children |-> {}]
Node(up, on, attr, is, at) ==
  [up |-> up, item |-> TRUE, on |-> on, attr |-> attr, is |-> is, at |-> at]
Expanded(attr, is, at, external) ==
  [attr |-> attr, is |-> is, at |-> at, external |-> external]

MCPrograms ==
  {Plain,
   [Plain EXCEPT !.nodes = <<Node(0, FALSE, "none", "plain", 1), Node(1, TRUE, "none", "unloaded", 2)>>],
   [Plain EXCEPT !.nodes = <<Node(0, TRUE, "ProcMacro", "plain", NoPlace),
                             [Node(0, TRUE, "none", "plain", 2) EXCEPT !.item = FALSE],
                             Node(2, TRUE, "none", "proc_macro", 3)>>],
   [Plain EXCEPT !.features = {2}],
   [Plain EXCEPT !.expanded = {Expanded("none", "other", 1, TRUE), Expanded("none", "proc_macro", 2, TRUE)}],
   [Plain EXCEPT !.expanded = {Expanded("none", "other", 1, TRUE)}],
   [Plain EXCEPT !.attributes = {[builtin |-> TRUE, reason |-> "NativeLinkOrCustomRuntime", at |-> NoPlace],
                                 [builtin |-> FALSE, reason |-> "NativeLinkOrCustomRuntime", at |-> 1]}],
   [Plain EXCEPT !.entry = "none"],
   [Plain EXCEPT !.entry = "no_main without entry"],
   [Plain EXCEPT !.children =
     {[in |-> "root", name |-> "m", sort |-> "mod", to |-> "m", local |-> TRUE, via |-> {}],
      [in |-> "m", name |-> "f", sort |-> "item", to |-> "f", local |-> TRUE, via |-> {"u"}],
      [in |-> "m", name |-> "f", sort |-> "other", to |-> "g", local |-> TRUE, via |-> {}],
      [in |-> "root", name |-> "f", sort |-> "item", to |-> "f", local |-> FALSE, via |-> {}]}]}

Bin == [mode |-> "standalone", crate |-> "bin", valid |-> TRUE, entries |-> {}]
MCOptions ==
  {Bin, [Bin EXCEPT !.mode = "invocation"], [Bin EXCEPT !.valid = FALSE],
   [Bin EXCEPT !.crate = "lib"],
   [Bin EXCEPT !.crate = "lib", !.entries = {<<"crate", "m", "f">>}],
   [Bin EXCEPT !.crate = "lib", !.entries = {<<"crate", "f">>, <<"crate", "m", "f">>}]}

Binary(p, b) == [package |-> p, name |-> b]
MCProjects ==
  [package : {"none", "p", "q"}, workspace : {{"p"}}, defaults : {{"p"}}, bin : {"none", "a"},
   binaries : {{Binary("p", "a")}, {Binary("p", "a"), Binary("p", "b"), Binary("q", "a")}}]

Compilation(markers, target, bin) ==
  [markers |-> markers, parsed |-> TRUE, target |-> target, bin |-> bin,
   manifest |-> "selected", inputs |-> {"selected"}]
Dependency == [Compilation(0, "host", "none") EXCEPT !.parsed = FALSE]
MCPlans ==
  {"dep" :> Dependency @@ "bin" :> Compilation(1, "host", "a"),
   "dep" :> Compilation(0, "foreign", "none") @@ "bin" :> Compilation(1, "foreign", "a"),
   "dep" :> Compilation(1, "host", "b") @@ "bin" :> Compilation(0, "host", "a"),
   "bin" :> Compilation(1, "host", "a") @@ "again" :> Compilation(1, "foreign", "a"),
   "bin" :> Compilation(2, "host", "a")}
=============================================================================
