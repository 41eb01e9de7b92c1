---------------------------- MODULE MC_UdsReceiver ----------------------------
(* A small ECU script for UdsReceiver: a tester sending ECUReset (0x11),    *)
(* DSC, RDBI and SecurityAccess with parameters 1..4.  Raw matches an       *)
(* ECUReset literal and a RDBI pattern whose function switches to EXTENDED; *)
(* the RDBI tables hold literals and functions that switch the session.     *)
EXTENDS UdsReceiver

Nil == [result |-> "none", switchTo |-> NoSwitch]
Lit == [result |-> "value", switchTo |-> NoSwitch]
Fn(s) == [result |-> "value", switchTo |-> s]

MC_SIDs == {16, 17, 34, 39}
MC_Params == {1, 2, 3, 4}

MC_RawTable ==
    [k \in MC_SIDs \X MC_Params |->
        CASE k = <<17, 1>> -> Lit
          [] k = <<34, 4>> -> Fn(EXTENDED)
          [] OTHER -> Nil]

MC_RdbiTable ==
    [s \in Sessions |->
        [d \in MC_Params |->
            CASE s = DEFAULT /\ d = 1 -> Lit
              [] s = DEFAULT /\ d = 2 -> Fn(PROGRAMMING)
              [] s = PROGRAMMING /\ d = 1 -> Lit
              [] s = EXTENDED /\ d = 2 -> Fn(DEFAULT)
              [] s = EXTENDED /\ d = 3 -> Lit
              [] OTHER -> Nil]]
=============================================================================
