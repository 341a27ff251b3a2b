----------------------------- MODULE MCKeyboard -----------------------------
(* A letter, an arrow key, the two shift keys and the right CTRL key. *)
EXTENDS Keyboard

MCKeys == {<<"a", FALSE>>, <<"up", TRUE>>}
MCModifiers == {<<"lshift", FALSE>>, <<"rshift", FALSE>>, <<"ctrl", TRUE>>}
=============================================================================
