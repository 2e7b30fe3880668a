----------------------------- MODULE MCAugments -----------------------------
(* The calls of the ids and of seccomp and execve, numbered in the order of  *)
(* the source, and tables that the build refuses or that repeat a number.    *)
EXTENDS Augments

MCInfo(num, augment) ==
    [num |-> num, augment |-> augment, setter |-> FALSE, bits |-> 0,
     slot |-> NoSlot, position |-> NoSlot]
MCGetter(num, slot) == [MCInfo(num, "Perms") EXCEPT !.slot = slot]
MCSetter(num, bits, slot) ==
    [MCInfo(num, "Perms") EXCEPT !.setter = TRUE, !.bits = bits, !.slot = slot]
MCSeccomp(num, position) == [MCInfo(num, "Seccomp") EXCEPT !.position = position]

MCTable ==
    << MCInfo(0, "Exec"),
       MCGetter(1, 4), MCGetter(2, 5), MCGetter(3, 0), MCGetter(4, 1),
       MCGetter(5, NoSlot),
       MCSetter(6, 0, 4), MCSetter(7, 0, 0), MCSetter(8, 0, NoSlot),
       MCSetter(9, 3, NoSlot), MCSetter(10, 19, NoSlot),
       MCSetter(11, 7, NoSlot), MCSetter(12, 23, NoSlot),
       MCSetter(13, 0, 3), MCSetter(14, 0, 7),
       MCSeccomp(15, 1), MCSeccomp(16, 0) >>

MCTables ==
    { MCTable,
      << MCGetter(1, 4), MCInfo(18, "None"), MCGetter(1, 5) >>,
      << MCGetter(1, 4), MCInfo(17, "None") >>,
      << MCInfo(19, "None") >>,
      MCTable \o << MCInfo(18, "None"), MCInfo(18, "None") >>,
      << >> }

MCInfos == UNION {{t[i] : i \in 1..Len(t)} : t \in MCTables}
=============================================================================
