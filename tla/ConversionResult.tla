--------------------------- MODULE ConversionResult ---------------------------
(***************************************************************************)
(* conversion_result: what a converter makes of bytes, how many of them it *)
(* used, and its error.                                                    *)
(***************************************************************************)

(* The errors; "undefined" is a read out of bounds.                        *)
Marks == {"size", "bigsize", "undefvar", "bounds", "badval", "group"}
Good(used, val) == [used |-> used, err |-> "none", val |-> val]
Bad(used, err, val) == [used |-> used, err |-> err, val |-> val]
HasError(r) == r.err # "none"

=============================================================================
