------------------------ MODULE MCComponentValidator ------------------------
(* The component validators on small depths and counts.                     *)
EXTENDS ComponentValidator

\* One protocol for each format of items without components, and all with.
AllProtocols == {5, 47, 393, 763} \cup 765..777
=============================================================================
