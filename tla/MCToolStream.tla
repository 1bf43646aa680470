---------------------------- MODULE MCToolStream ----------------------------
(***************************************************************************)
(* Texts for TLC: content around and between calls, every kind of value,   *)
(* newlines where models put them, a call without parameters.              *)
(***************************************************************************)
EXTENDS ToolStream

ParTypes == [x \in {"s>", "n>", "t>", "l>"} |->
  CASE x = "s>" -> "string" [] x = "n>" -> "integer" [] x = "t>" -> "boolean" [] OTHER -> "array"]

T(a) == <<"text", a>>
C(f, ps) == <<"call", f, ps>>

SomeTexts == {
  <<T(<<"a", NL>>), C("f>", <<<<"s>", <<NL, "a", NL, "b", NL>>>>>>)>>,
  <<C("f>", <<<<"s>", <<"a", "<b">>>>, <<"n>", <<NL, "1", "2", NL>>>>>>)>>,
  <<C("f>", <<<<"l>", <<NL, "[", "1", "]", NL>>>>, <<"s>", <<>>>>>>)>>,
  <<C("f>", <<<<"l>", <<"[", "x">>>>, <<"t>", <<NL, "true">>>>, <<"s>", <<NL>>>>>>)>>,
  <<C("f>", <<>>), T(<<NL>>), C("g>", <<<<"s>", <<"b">>>>>>), T(<<"a">>)>>,
  <<C("f>", <<<<"n>", <<"1", NL>>>>, <<"t>", <<"true">>>>>>), C("g>", <<>>), T(<<"b">>), C("f>", <<<<"l>", <<"[", "]">>>>>>)>>,
  <<T(<<"a", "<b", "b">>)>>}

TwoCalls == {
  <<C("f>", <<>>), C("g>", <<<<"n>", <<"1">>>>>>)>>}
=============================================================================
