---------------------------- MODULE MC_AdisDiag ----------------------------
(***************************************************************************)
(* Model for AdisDiag: a DIAG_STAT layout with seven flags in the low     *)
(* byte and three in the high byte, real frame lengths (20 and 32 bytes)  *)
(* and a flash write counter crossing its maximum.                         *)
(* A zero DIAG_STAT word gives zero frames, which a misframed read can    *)
(* accept.                                                                 *)
(***************************************************************************)
EXTENDS AdisDiag, TLC

MC_FlagMask ==
    [data_path_overrun |-> 2, fls_mem_update_failure |-> 4, spi_comm_err |-> 8,
     diag_standby_mode |-> 16, snsr_failure |-> 32, mem_failure |-> 64,
     clk_err |-> 128, gyro1_failure |-> 256, gyro2_failure |-> 512,
     accl_failure |-> 1024]
\* ADIS_MSG_SIZE_16_BIT_BURST, ADIS_MSG_SIZE_32_BIT_BURST
MC_BurstSize == (0 :> 20) @@ (1 :> 32)

=============================================================================
