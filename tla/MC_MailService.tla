---------------------------- MODULE MC_MailService ----------------------------
(***************************************************************************)
(* Any of the three mailboxes may be missing; three mails for two workers: *)
(* one bucket of two, one of one.                                          *)
(***************************************************************************)
EXTENDS MailService

MCIds == <<1, 2, 3>>
OneMail == <<1>>
MCFaults == Kinds
SlotOnly == {"slot"}
=============================================================================
