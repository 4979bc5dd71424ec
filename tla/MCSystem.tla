------------------------------ MODULE MCSystem ------------------------------
(* test/test1.bin, and the same program moving bytes, on the screen of vgio.h. *)
EXTENDS System

Hello == <<184, 0, 184, 142, 192, 184, 192, 7, 142, 216, 252, 190, 24, 0, 191, 0,
  0, 185, 11, 0, 243, 165, 235, 254, 104, 0, 101, 0, 108, 0, 108, 0,
  111, 0, 32, 0, 119, 0, 111, 0, 114, 0, 108, 0, 100, 0, 10, 0, 0>>
\* rep movsb with cx = 22 and di = 480, the fourth row: bytes are shown at the
\* cursor, which starts at the top left, wherever they are stored.
HelloInBytes == [Hello EXCEPT ![16] = 224, ![17] = 1, ![19] = 22, ![22] = 164]
HelloPrograms == {Hello, HelloInBytes}
\* "hello world"
HelloText == <<104, 101, 108, 108, 111, 32, 119, 111, 114, 108, 100>>

FillsFromTheLeft == FillsInOrder(HelloText)
PrintsHello == Prints(HelloText)
=============================================================================
