------------------------------ MODULE MCX86Str ------------------------------
(***************************************************************************)
(* String instructions on a memory of 16 bytes: 16 bit halves hold 2 bits. *)
(***************************************************************************)
EXTENDS X86StrProps

(* Real mode limits for DS; ES reaches further, as after "unreal" mode.    *)
MCBase  == [ds |-> 0, es |-> 3]
MCLimit == [ds |-> 3, es |-> 12]

Both == {"repe", "repne"}
MCInstrs ==
  [op : Scans, size : {1, 2}, rep : {{}, {"repe"}, {"repne"}, Both}, a32 : BOOLEAN,
   seg : {"ds"}]
  \cup [op : {"movs"}, size : {1, 2, 4}, rep : {{}, {"repne"}}, a32 : BOOLEAN, seg : Seg]
  \cup [op : Counts \ {"movs"}, size : {1, 2}, rep : {{}, {"repe"}}, a32 : BOOLEAN,
        seg : {"ds"}]

(* Memories with distinct bytes, and with runs to scan. *)
MCImages == { [a \in 0 .. 15 |-> a % 3],
              [a \in 0 .. 15 |-> IF a \in {3, 9} THEN 1 ELSE 0] }

MCAcc   == [k \in 0 .. 3 |-> k % 2]
MCStarts == [si : {1, 4, 15}, di : {2, 7, 13}, cx : {0, 2, 3, 5}, df : BOOLEAN,
             zf : {FALSE}, acc : {MCAcc}, mem : MCImages]
  \cup [si : {1}, di : {2}, cx : {0, 4, 8}, df : BOOLEAN, zf : {TRUE}, acc : {MCAcc},
        mem : MCImages]

MCPort == { [k \in 0 .. 3 |-> 2], [k \in 0 .. 3 |-> 1 - (k % 2)] }
=============================================================================
