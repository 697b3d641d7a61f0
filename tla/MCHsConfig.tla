----------------------------- MODULE MCHsConfig -----------------------------
EXTENDS HsConfig

CONSTANTS a1, a2

MCAdmins == {a1, a2}
MCIds == {1, 2}

(* Every field of every kind with one administrator, and one field of each *)
(* kind with two; the common configuration is one entry.                   *)
MCSetups ==
    {s \in [kind : Kinds, field : UNION {Fields[k] : k \in Kinds},
            admins : {{a1}, {a1, a2}}, room : {1, 2}] :
        /\ s.field \in Fields[s.kind]
        /\ s.admins = {a1, a2} => s.field = IF s.kind = "common" THEN "profiles_enable"
                                                               ELSE "enable"
        /\ s.room = IF s.kind \in Devices /\ s.admins = {a1} THEN 1 ELSE 2}
=============================================================================
