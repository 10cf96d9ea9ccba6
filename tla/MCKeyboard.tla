---------------------------- MODULE MCKeyboard ----------------------------
(***************************************************************************)
(* Keyboard for TLC: a layout with a variant and one without, and layouts  *)
(* of the compositor with one and two entries.                             *)
(***************************************************************************)
EXTENDS Keyboard, TLC

US == Layout("us", "")
BR == Layout("br", "")
UI == Layout("us", "intl")

MCEvdev == {[name |-> "us", variants |-> {"intl"}], [name |-> "br", variants |-> {}],
            [name |-> "", variants |-> {}]}
MCLists == {<<US>>, <<US, BR>>, <<UI, BR>>}
=============================================================================
