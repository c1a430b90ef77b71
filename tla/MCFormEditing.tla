--------------------------- MODULE MCFormEditing ---------------------------
(* Two drafts that the automatic action cannot tell apart, and a third.    *)
EXTENDS FormEditing

MCKeyOf == <<1, 1, 2>>
=============================================================================
