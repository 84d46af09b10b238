------------------------------- MODULE CsrMap --------------------------------
(***************************************************************************)
(* The registers of the management core as the firmware names them         *)
(* (firmware/csr.h, defs.h) and as the hardware decodes them               *)
(* (rtl/soc/mgmt_core.v).  An address is a byte offset from CSR_BASE.  A   *)
(* block of csr.h is the address of each of its registers and the place of *)
(* each of their fields; the accessor functions are the operators on       *)
(* fields below and the bus accesses of module Peripherals.                *)
(***************************************************************************)
EXTENDS Integers, Sequences

\* A field of register reg: its lowest bit and how many bits it has.
Field(reg, offset, size) == [reg |-> reg, offset |-> offset, size |-> size]

\* <reg>_<field>_extract and <reg>_<field>_replace
extract(field, oldword) == (oldword \div 2 ^ field.offset) % 2 ^ field.size

replace(field, oldword, plain_value) ==
  oldword + ((plain_value % 2 ^ field.size) - extract(field, oldword))
              * 2 ^ field.offset

-----------------------------------------------------------------------------
(* The blocks of csr.h.                                                    *)

NoFields == [none |-> Field("none", 0, 1)]

ctrl ==
  [regs |-> [reset |-> \h0, scratch |-> \h4, bus_errors |-> \h8],
   fields |-> [soc_rst |-> Field("reset", 0, 1), cpu_rst |-> Field("reset", 1, 1)]]

debug_mode == [regs |-> [out |-> \h800], fields |-> NoFields]
debug_oeb == [regs |-> [out |-> \h1000], fields |-> NoFields]

flash_core ==
  [regs |-> [mmap_dummy_bits |-> \h1800, master_cs |-> \h1804,
             master_phyconfig |-> \h1808, master_rxtx |-> \h180c,
             master_status |-> \h1810],
   fields |-> [len |-> Field("master_phyconfig", 0, 8),
               width |-> Field("master_phyconfig", 8, 4),
               mask |-> Field("master_phyconfig", 16, 8),
               tx_ready |-> Field("master_status", 0, 1),
               rx_ready |-> Field("master_status", 1, 1)]]

flash_phy == [regs |-> [clk_divisor |-> \h2000], fields |-> NoFields]

gpio ==
  [regs |-> [mode1 |-> \h2800, mode0 |-> \h2804, ien |-> \h2808,
             oe |-> \h280c, in |-> \h2810, out |-> \h2814],
   fields |-> NoFields]

\* Four words each; csr.h has no accessor for them.
la ==
  [regs |-> [ien |-> \h3000, oe |-> \h3010, in |-> \h3020, out |-> \h3030],
   fields |-> NoFields]

mprj_wb_iena == [regs |-> [out |-> \h3800], fields |-> NoFields]
spi_enabled == [regs |-> [out |-> \h4000], fields |-> NoFields]

spi_master ==
  [regs |-> [control |-> \h4800, status |-> \h4804, mosi |-> \h4808,
             miso |-> \h480c, cs |-> \h4810, loopback |-> \h4814,
             clk_divider |-> \h4818],
   fields |-> [start |-> Field("control", 0, 1), length |-> Field("control", 8, 8),
               done |-> Field("status", 0, 1),
               sel |-> Field("cs", 0, 1), mode |-> Field("cs", 16, 1),
               loopback_mode |-> Field("loopback", 0, 1)]]

timer0 ==
  [regs |-> [load |-> \h5000, reload |-> \h5004, en |-> \h5008,
             update_value |-> \h500c, value |-> \h5010, ev_status |-> \h5014,
             ev_pending |-> \h5018, ev_enable |-> \h501c],
   fields |-> [status_zero |-> Field("ev_status", 0, 1),
               pending_zero |-> Field("ev_pending", 0, 1),
               enable_zero |-> Field("ev_enable", 0, 1)]]

uart ==
  [regs |-> [rxtx |-> \h5800, txfull |-> \h5804, rxempty |-> \h5808,
             ev_status |-> \h580c, ev_pending |-> \h5810, ev_enable |-> \h5814,
             txempty |-> \h5818, rxfull |-> \h581c],
   fields |-> [status_tx |-> Field("ev_status", 0, 1),
               status_rx |-> Field("ev_status", 1, 1),
               pending_tx |-> Field("ev_pending", 0, 1),
               pending_rx |-> Field("ev_pending", 1, 1),
               enable_tx |-> Field("ev_enable", 0, 1),
               enable_rx |-> Field("ev_enable", 1, 1)]]

uart_enabled == [regs |-> [out |-> \h6000], fields |-> NoFields]

\* Six blocks of the same registers.
user_irq(base) ==
  [regs |-> [in |-> base, mode |-> base + 4, edge |-> base + 8,
             ev_status |-> base + 12, ev_pending |-> base + 16,
             ev_enable |-> base + 20],
   fields |-> [status_i0 |-> Field("ev_status", 0, 1),
               pending_i0 |-> Field("ev_pending", 0, 1),
               enable_i0 |-> Field("ev_enable", 0, 1)]]

user_irq_0 == user_irq(\h6800)
user_irq_1 == user_irq(\h7000)
user_irq_2 == user_irq(\h7800)
user_irq_3 == user_irq(\h8000)
user_irq_4 == user_irq(\h8800)
user_irq_5 == user_irq(\h9000)

user_irq_ena == [regs |-> [out |-> \h9800], fields |-> NoFields]

Blocks ==
  [ctrl |-> ctrl, debug_mode |-> debug_mode, debug_oeb |-> debug_oeb,
   flash_core |-> flash_core, flash_phy |-> flash_phy, gpio |-> gpio, la |-> la,
   mprj_wb_iena |-> mprj_wb_iena, spi_enabled |-> spi_enabled,
   spi_master |-> spi_master, timer0 |-> timer0, uart |-> uart,
   uart_enabled |-> uart_enabled, user_irq_0 |-> user_irq_0,
   user_irq_1 |-> user_irq_1, user_irq_2 |-> user_irq_2,
   user_irq_3 |-> user_irq_3, user_irq_4 |-> user_irq_4,
   user_irq_5 |-> user_irq_5, user_irq_ena |-> user_irq_ena]

-----------------------------------------------------------------------------
(* The aliases of defs.h that its programs use.                            *)

\* reg_la<n>_data, _data_in, _oenb, _iena: word 3 is at the lowest address.
reg_la(kind, n) == la.regs[kind] + 4 * (3 - n)

reg_uart_data == uart.regs.rxtx
reg_uart_txfull == uart.regs.txfull
reg_uart_enable == uart_enabled.regs.out
reg_uart_irq_en == uart.regs.ev_enable

-----------------------------------------------------------------------------
(* The decoder: bits 15..11 of the address select the bank, bits 10..2 the *)
(* register in it.  The banks in the order of their numbers.               *)

irq_bank(name) == <<name, <<"in", "mode", "edge", "ev_status", "ev_pending", "ev_enable">>>>

csrbank ==
  <<<<"ctrl", <<"reset", "scratch", "bus_errors">>>>,
    <<"debug_mode", <<"out">>>>,
    <<"debug_oeb", <<"out">>>>,
    <<"flash_core", <<"mmap_dummy_bits", "master_cs", "master_phyconfig",
                      "master_rxtx", "master_status">>>>,
    <<"flash_phy", <<"clk_divisor">>>>,
    <<"gpio", <<"mode1", "mode0", "ien", "oe", "in", "out">>>>,
    <<"la", <<<<"ien", 3>>, <<"ien", 2>>, <<"ien", 1>>, <<"ien", 0>>,
              <<"oe", 3>>, <<"oe", 2>>, <<"oe", 1>>, <<"oe", 0>>,
              <<"in", 3>>, <<"in", 2>>, <<"in", 1>>, <<"in", 0>>,
              <<"out", 3>>, <<"out", 2>>, <<"out", 1>>, <<"out", 0>>>>>>,
    <<"mprj_wb_iena", <<"out">>>>,
    <<"spi_enabled", <<"out">>>>,
    <<"spi_master", <<"control", "status", "mosi", "miso", "cs", "loopback",
                      "clk_divider">>>>,
    <<"timer0", <<"load", "reload", "en", "update_value", "value", "ev_status",
                  "ev_pending", "ev_enable">>>>,
    <<"uart", <<"rxtx", "txfull", "rxempty", "ev_status", "ev_pending",
                "ev_enable", "txempty", "rxfull">>>>,
    <<"uart_enabled", <<"out">>>>,
    irq_bank("user_irq_0"), irq_bank("user_irq_1"), irq_bank("user_irq_2"),
    irq_bank("user_irq_3"), irq_bank("user_irq_4"), irq_bank("user_irq_5"),
    <<"user_irq_ena", <<"out">>>>>>

Nothing == <<"none", "none">>

\* The register an access to this address reaches: its bank and its name.
Decode(adr) ==
  LET bank == ((adr \div 2048) % 32) + 1
      index == ((adr \div 4) % 512) + 1
  IN IF bank \in DOMAIN csrbank /\ index \in DOMAIN csrbank[bank][2]
     THEN <<csrbank[bank][1], csrbank[bank][2][index]>>
     ELSE Nothing

=============================================================================
