--------------------------- MODULE MCPassManager ---------------------------
(***************************************************************************)
(* Instances of PassManager: a module analysis M, function analyses D and  *)
(* L, of which L needs D, and the transformations around them.             *)
(***************************************************************************)
EXTENDS PassManager

Usage(id, level, analysis, required, preserved) ==
  [id |-> id, level |-> level, analysis |-> analysis, required |-> required,
   preserved |-> preserved]
All == {"M", "D", "L"}

Analyses ==
  [M |-> Usage("M", 1, TRUE, <<>>, All),
   D |-> Usage("D", 2, TRUE, <<>>, All),
   L |-> Usage("L", 2, TRUE, <<"D">>, All)]

T(levels, required, preserved) ==
  {Usage("", l, FALSE, r, p) : l \in levels, r \in required, p \in preserved}

\* Who keeps L keeps D.
Closed(m) == {m, m \cup {"D"}, m \cup {"D", "L"}}
FunctionNeeds == {<<>>, <<"D">>, <<"L">>, <<"L", "M">>, <<"M", "D">>}
ModulePasses  == T({1}, {<<>>, <<"M">>}, {{}, {"M"}})

Client(transforms, passes, functions, blocks) ==
  [transforms |-> transforms, passes |-> passes, units |-> <<functions, blocks>>]

\* With one function its passes may give M up; with two they keep it.
Some ==
  {Client(T({2}, FunctionNeeds, Closed({}) \cup Closed({"M"})) \cup ModulePasses, 3, 1, 1),
   Client(T({2}, FunctionNeeds, Closed({"M"})) \cup ModulePasses, 3, 2, 1),
   Client(T({2}, {<<"D">>, <<"L">>}, Closed({"M"})) \cup T({3}, {<<>>, <<"D">>, <<"L">>}, {All})
            \cup T({1}, {<<"M">>}, {{}}), 4, 2, 2)}
=============================================================================
