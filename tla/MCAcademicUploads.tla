------------------------- MODULE MCAcademicUploads -------------------------
(* Small instances of AcademicUploads. *)
EXTENDS AcademicUploads, TLC

CONSTANTS junk, small

\* PDFs of the declared size and a file that is not a PDF.
MCSizeOf == [f \in File |-> IF f = junk THEN None ELSE small]

\* Everything but the clock and the one non-PDF file is interchangeable.
Symmetry ==
  UNION {Permutations(S) : S \in {Target, User, Intent, Request, Key, File \ {junk}, Handler, Worker}}
=============================================================================
