------------------------- MODULE MCReceiveDispatcher -------------------------
(* Two sockets, so that one call meets two packets in the same buffer; of  *)
(* the packets that dispatch delivers, and of those it rejects, one kind   *)
(* has no end-of-data tag.                                                 *)
EXTENDS ReceiveDispatcher

MCForms == (Kinds \X {TRUE}) \cup {<<"emeter", FALSE>>, <<"invalid", FALSE>>}

=============================================================================
