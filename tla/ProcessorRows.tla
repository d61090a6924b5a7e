------------------------------ MODULE ProcessorRows ------------------------------
(***************************************************************************)
(* What a case of the server's switch (src/server/processor.c) does with   *)
(* the command buffer: the words it reads after the command's number,      *)
(* whether it gives GL the memory last uploaded, and the return registers  *)
(* it writes.  What GL does with the words is left out.                    *)
(*                                                                         *)
(* A command has several rows when a count, a flag or a text in it decides *)
(* how much it reads.                                                      *)
(***************************************************************************)
EXTENDS WireFormat

Row(form, uses, writes) ==
  [command |-> form[1], layout |-> form[2], uses |-> uses, writes |-> writes]

Reads(forms) == {Row(f, FALSE, {}) : f \in forms}
(* Faulty variant: every answer is left in RETVAL.                         *)
AnswersInRetval(forms, regs) == {Row(f, FALSE, {"ret"}) : f \in forms}
Answers(forms, regs) == {Row(f, FALSE, regs) : f \in forms}
ReadsUpload(forms) == {Row(f, TRUE, {}) : f \in forms}
AnswersFromUpload(forms, regs) == {Row(f, TRUE, regs) : f \in forms}
(* A flag in the command says whether the upload is meant                  *)
MayReadUpload(names, lead, trail) ==
  ReadsUpload(Forms(names, lead \o Yes \o trail)) \cup Reads(Forms(names, lead \o No \o trail))

(* ADVANCE_PAST_STRING                                                     *)
TextForms(names, lead, trail) == {<<n, lead \o t \o trail>> : n \in names, t \in Texts}
ReadsText(names, lead) == Reads(TextForms(names, lead, <<>>))
AnswersText(names, lead) == Answers(TextForms(names, lead, <<>>), {"ret"})
(* read_counted_strings, read_counted_c_strings                            *)
CountedTextForms(names, lead) == {<<n, lead \o t>> : n \in names, t \in CountedTexts}

(* Faulty variant: one item more than counted is read.                     *)
CountedFormsOneMore(names, lead, item, counts) ==
  {<<n, lead \o Count(k) \o Times(k + 1, item)>> : n \in names, k \in counts}
CountedForms(names, lead, item, counts) ==
  {<<n, lead \o Count(k) \o Times(k, item)>> : n \in names, k \in counts}
ReadsCounted(names, lead, item) == Reads(CountedForms(names, lead, item, 0..4))

(* A list of values and their number, or one value, as pname says          *)
AnswersList(names, lead) ==
  Answers(Forms(names, lead \o Yes), {"ret", "retv"})
    \cup Answers(Forms(names, lead \o No), {"ret"})
=============================================================================
