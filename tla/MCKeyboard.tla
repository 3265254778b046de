----------------------------- MODULE MCKeyboard -----------------------------
(* A screen of two by two, one key with two characters, two shift keys.     *)
EXTENDS Keyboard

KeyA == {<<"a", "A">>}
TwoShifts == {<<"left shift">>, <<"right shift">>}
=============================================================================
