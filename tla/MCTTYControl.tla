---------------------------- MODULE MCTTYControl ----------------------------
(***************************************************************************)
(* The circumstances under which TTYControl is checked.                    *)
(***************************************************************************)
EXTENDS TTYControl

\* A resize before Create has returned, with both kinds of handlers; and calls that
\* leave the handler alive.
OneEarlyOrSpared ==
    [early : {{"r1"}}, framed : BOOLEAN, killsFail : {FALSE}] \union
    [early : {{}}, framed : {TRUE}, killsFail : {TRUE}]
=============================================================================
