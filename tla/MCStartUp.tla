------------------------------ MODULE MCStartUp ------------------------------
(* Two outputs follow the start mark: 0x12340000 and 0xABCD0000.           *)
EXTENDS StartUp

MCOutputs == <<{18, 20, 21, 25, 28}, {16, 18, 19, 22, 23, 24, 25, 27, 29, 31}>>
=============================================================================
