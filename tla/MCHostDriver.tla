---------------------------- MODULE MCHostDriver -----------------------------
(* Programs that use one part of the drivers each, and the notebook's.     *)
EXTENDS HostDriver

MCPageCount == <<1, 2>>
MCMaxCalls == [t \in Threads |-> IF t = "main" THEN 6 ELSE 1]

Program(linux, main, handler) ==
  [linux |-> linux, main |-> {"Initialize"} \cup main, handler |-> handler,
   script |-> <<>>]

Boot == <<"Initialize", "Set_romcode", "Set_length_r", "Start", "WaitIdle",
          "Set_outpin_ctrl">>

MCPrograms ==
  { \* the core is started, by the handler too, and its completion awaited
    Program(FALSE, {"Start", "WaitDone", "IsReady", "GlobalEnable",
                    "InterruptEnable"}, {"GetStatus", "Start", "IsReady"}),
    \* auto restart, while the pointer is changed
    Program(FALSE, {"Start", "EnableAutoRestart", "DisableAutoRestart",
                    "Set_romcode"}, {}),
    \* the handler changes what main changes
    Program(FALSE, {"Start", "GlobalEnable", "InterruptEnable",
                    "EnableAutoRestart"},
            {"InterruptDisable", "DisableAutoRestart", "GlobalDisable",
             "InterruptClear", "Set_romcode"}),
    \* the pads and the values read back
    Program(FALSE, {"Get_ps_mprj_out", "Get_ps_mprj_en", "Get_ps_mprj_out_vld",
                    "Get_ps_mprj_en_vld", "Set_ps_mprj_in", "Get_ps_mprj_in",
                    "Set_outpin_ctrl", "Get_outpin_ctrl", "Get_romcode",
                    "Get_length_r", "GetEnabled"}, {}),
    \* two instances on Linux
    Program(TRUE, {"Release", "Set_length_r"}, {}),
    \* the notebook
    [linux |-> TRUE, main |-> {Boot[n] : n \in DOMAIN Boot}, handler |-> {},
     script |-> Boot] }
=============================================================================
