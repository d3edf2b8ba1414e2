---------------------------- MODULE MCFileLocker ----------------------------
(* FileLocker on two paths: every rename the Applier can be asked for, with *)
(* and without the ones that name the same path string twice.               *)
EXTENDS FileLocker

CONSTANTS r1, r2, r3, p, q

RenamesApart == {<<p, q>>, <<q, p>>}
RenamesAll == Keys \X Keys
=============================================================================
