----------------------------- MODULE MCKeyboard -----------------------------
(* A buffer of four bytes; a plain key, one with a prefix, PRNTSCR, and    *)
(* PAUSE, the bytes told apart as far as the handler does: k is one it     *)
(* does not test, and 2a stands for b7 too.                                *)
EXTENDS Keyboard

MCCodes == {<<"k">>, <<"e0", "k">>, <<"e0", "2a", "e0", "k">>,
            <<"e1", "k", "k", "e1", "k", "k">>}
=============================================================================
