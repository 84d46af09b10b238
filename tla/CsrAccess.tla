------------------------------ MODULE CsrAccess ------------------------------
(***************************************************************************)
(* Access to registers wider than a word (firmware/hw/common.h).  A byte   *)
(* has B values, a word of the bus DW bytes; slices is the content of the  *)
(* words that a register is cut into, by word address.                     *)
(***************************************************************************)
EXTENDS Integers

CONSTANTS
  B,     \* values of a byte
  DW     \* CSR_DW_BYTES, bytes of a word

Word == B ^ DW

num_subregs(csr_bytes) == (csr_bytes - 1) \div DW + 1

\* csr_rd_uint8 .. csr_rd_uint64: the caller's type cuts off what is too much.
csr_rd(slices, a, csr_bytes) ==
  LET r[i \in 0 .. num_subregs(csr_bytes) - 1] ==
        IF i = 0 THEN slices[a] ELSE r[i - 1] * Word + slices[a + i]
  IN r[num_subregs(csr_bytes) - 1] % B ^ csr_bytes

\* Fault: the slices the other way round.
csr_wrLeastFirst(slices, a, v, csr_bytes) ==
  LET ns == num_subregs(csr_bytes)
  IN [w \in DOMAIN slices |->
        IF w - a \in 0 .. ns - 1 THEN (v \div Word ^ (w - a)) % Word ELSE slices[w]]

csr_wr(slices, a, v, csr_bytes) ==
  LET ns == num_subregs(csr_bytes)
  IN [w \in DOMAIN slices |->
        IF w - a \in 0 .. ns - 1
        THEN (v \div Word ^ (ns - 1 - (w - a))) % Word
        ELSE slices[w]]

\* Words that a buffer of cnt elements of size bytes takes.
BufferWords(size, cnt) ==
  IF size >= DW THEN cnt * num_subregs(size) ELSE num_subregs(size * cnt)

\* Elements narrower than a word: the first word has offset places to spare.
nsubelems(size) == DW \div size
BufferOffset(size, cnt) == BufferWords(size, cnt) * nsubelems(size) - cnt

\* csr_rd_buf_uint8 .. csr_rd_buf_uint64
csr_rd_buf(slices, size, cnt) ==
  [k \in 0 .. cnt - 1 |->
     IF size >= DW
     THEN csr_rd(slices, k * num_subregs(size), size)
     ELSE LET p == k + BufferOffset(size, cnt)
              i == p \div nsubelems(size)
              j == p % nsubelems(size)
          IN (slices[i] \div B ^ (size * (nsubelems(size) - 1 - j))) % B ^ size]

\* The word i that csr_wr_buf_uint8 and csr_wr_buf_uint16 put together.
PackedWord(buf, size, cnt, i) ==
  LET n == nsubelems(size)
      k(j) == i * n + j - BufferOffset(size, cnt)
      v[j \in 0 .. n] ==
        IF j = 0 THEN 0
        ELSE IF k(j - 1) < 0 THEN v[j - 1]
        ELSE v[j - 1] * B ^ size + buf[k(j - 1)]
  IN v[n]

\* csr_wr_buf_uint8 .. csr_wr_buf_uint64
csr_wr_buf(slices, buf, size, cnt) ==
  LET each[k \in 0 .. cnt] ==
        IF k = 0 THEN slices
        ELSE csr_wr(each[k - 1], (k - 1) * num_subregs(size), buf[k - 1], size)
  IN IF size >= DW
     THEN each[cnt]
     ELSE [w \in DOMAIN slices |->
             IF w < BufferWords(size, cnt) THEN PackedWord(buf, size, cnt, w) ELSE slices[w]]

=============================================================================
