-------------------------------- MODULE Tlv --------------------------------
(***************************************************************************)
(* The units of a message (tlv.c): a pack of the wire is a function from   *)
(* its fields to their widths in bytes; a text, of any length but zero,    *)
(* has width 0.                                                            *)
(***************************************************************************)
EXTENDS Naturals

Texts(S) == [f \in S |-> 0]
Bytes(S) == [f \in S |-> 1]
Words(S) == [f \in S |-> 2]
Longs(S) == [f \in S |-> 4]

(* A pack of two parts (of a field in both, the first).                    *)
p ++ q == [f \in DOMAIN p \cup DOMAIN q |-> IF f \in DOMAIN p THEN p[f] ELSE q[f]]

(* The fields of a pack that its reader takes: a field that comes with     *)
(* another width than the one it wants is left out.                        *)
Taken(sent, wanted) == {f \in DOMAIN sent \cap DOMAIN wanted : sent[f] = wanted[f]}
=============================================================================
