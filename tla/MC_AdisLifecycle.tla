-------------------------- MODULE MC_AdisLifecycle --------------------------
(***************************************************************************)
(* Model for AdisLifecycle: two register pages, GLOB_CMD with the command *)
(* bits of the ADIS parts, and two register layouts: GLOB_CMD on page 0   *)
(* (Layout0) and GLOB_CMD on page 1 with DIAG_STAT at the same offset of  *)
(* page 0 (Layout1).  PROD_ID, the sync-mode register (MSC_CTRL) and     *)
(* UP_SCALE are the remaining registers of adis_init.                     *)
(***************************************************************************)
EXTENDS AdisLifecycle

MC_CmdMask == [sw_res |-> 128, snsr_self_test |-> 4, fls_mem_test |-> 16,
               fact_calib_restore |-> 2]

Glob0 == [addr |-> 2, size |-> 2]
Diag0 == [addr |-> 4, size |-> 2]
Prod0 == [addr |-> 130, size |-> 2]
Msc0  == [addr |-> 132, size |-> 2]
Up0   == [addr |-> 134, size |-> 2]

Glob1 == [addr |-> 130, size |-> 2]
Diag1 == [addr |-> 2, size |-> 2]
Prod1 == [addr |-> 4, size |-> 2]
Msc1  == [addr |-> 132, size |-> 2]
Up1   == [addr |-> 134, size |-> 2]

MC_Registers0 == {Glob0, Diag0, Prod0, Msc0, Up0}
MC_Registers1 == {Glob1, Diag1, Prod1, Msc1, Up1}
MC_Sync0 == [reg |-> Msc0, mask |-> 12]
MC_Sync1 == [reg |-> Msc1, mask |-> 12]
MC_UpScale0 == [reg |-> Up0, mask |-> 65535]
MC_UpScale1 == [reg |-> Up1, mask |-> 65535]
MC_Fields0 == {MC_Sync0, MC_UpScale0}
MC_Fields1 == {MC_Sync1, MC_UpScale1}

\* The ADIS1650x sync clock limits: direct 1900-2100 Hz, scaled 1-128 Hz.
MC_FreqLimits == [m \in 0 .. 3 |->
                     CASE m = 1 -> [min_freq |-> 1900, max_freq |-> 2100]
                       [] m = 2 -> [min_freq |-> 1, max_freq |-> 128]
                       [] OTHER -> [min_freq |-> 0, max_freq |-> 0]]

=============================================================================
