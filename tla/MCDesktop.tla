------------------------------ MODULE MCDesktop ------------------------------
(* Instances of DesktopApp for TLC. *)
EXTENDS DesktopApp

CONSTANTS m, um, p, g, h, k, r1, r2, r3

\* Two spellings of one address.
ToLower == [mail \in Mail |-> m]

\* Two accounts have the address as it registers, the third one another spelling.
OneMailbox == [account \in Account |-> IF account = k THEN um ELSE m]
=============================================================================
