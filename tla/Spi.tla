-------------------------------- MODULE Spi --------------------------------
(***************************************************************************)
(* The SPI transactions of the driver, by their sizes.                     *)
(*                                                                         *)
(*   src/dw1000/src/deca_device.c   dwt_writetodevice, dwt_readfromdevice  *)
(*                                  and the register accessors above them  *)
(*   src/dw1000/src/deca_spi.c      writetospi, readfromspi                *)
(*                                                                         *)
(* A transaction is one transceive: a header and a body, both of them in   *)
(* tx_buf and in rx_buf.  decamutexon and decamutexoff are empty here and  *)
(* the transactions are all made by the uwb thread and by main before it.  *)
(***************************************************************************)
EXTENDS Naturals

\* tx_buf and rx_buf.
BUF_SIZE == 255

\* One byte for the register, one more for an index of seven bits, two for fifteen.
HeaderLength(index) == IF index = 0 THEN 1 ELSE IF index <= 127 THEN 2 ELSE 3

\* writetospi(cnt, header, length, buffer): header and body are copied to tx_buf.
WriteToDevice(index, length) ==
  [op |-> "write", header |-> HeaderLength(index), body |-> length]

\* readfromspi(cnt, header, length, buffer): zeros are clocked out behind the
\* header, and what comes back behind it is copied to the caller.
ReadFromDevice(index, length) ==
  [op |-> "read", header |-> HeaderLength(index), body |-> length]

\* The accessors: one transaction of the register's width.
Write8(offset)  == WriteToDevice(offset, 1)
Write16(offset) == WriteToDevice(offset, 2)
Write32(offset) == WriteToDevice(offset, 4)
Read16(offset)  == ReadFromDevice(offset, 2)
Read32(offset)  == ReadFromDevice(offset, 4)

\* What memcpy and spi_transceive touch of tx_buf and rx_buf.
Touched(t) == 0 .. t.header + t.body - 1
=============================================================================
