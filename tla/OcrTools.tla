------------------------------- MODULE OcrTools -------------------------------
(***************************************************************************)
(* ocr-cli (tools/ocr-cli.cpp) as a function of its arguments and of what  *)
(* the OCR library finds on the image, the two providers of                *)
(* recognition/provider that it and ocs-recognition share, and the JSON    *)
(* document that ocr-results-viewer reads back.                            *)
(*                                                                         *)
(* A word of the library is a record: the number of its bytes without and  *)
(* of the blanks around them, whether it has a bounding box, where it is,  *)
(* and the confidence in thousandths of a percent.                         *)
(***************************************************************************)
EXTENDS SequencesExt

CONSTANT MinLetters  \* min_letters_threshold_

ASSUME LettersAssumption == MinLetters \in Nat

(* What may stop ocr-cli, and "none".                                      *)
Obstacles == {"none", "arguments", "help", "image_missing", "data_missing",
              "image_unreadable", "no_init", "not_recognized"}

Entry(word) ==
  [text |-> <<word.letters, word.blanks>>, position |-> word.position, confidence |-> word.confidence]

Trimmed(word) == [word EXCEPT !.blanks = 0]

(* What a provider looks at: tesseract::do_ocr calls Next() before it      *)
(* reads the first word.                                                   *)
Offered(provider, words) == IF provider = "tess" /\ words # <<>> THEN Tail(words) ELSE words

(* One word of tesseract::do_ocr, which trims texts.                       *)
ReadWord(read, word) ==
  IF word.boxed /\ word.letters >= MinLetters THEN Append(read, Entry(Trimmed(word))) ELSE read

(* One text of vision_kit::handle_ocr_results: it has a box, and its       *)
(* blanks are counted and kept.                                            *)
ReadText(read, word) ==
  IF word.letters + word.blanks >= 3 THEN Append(read, Entry(word)) ELSE read

ReadOne(provider, read, word) ==
  IF provider = "tess" THEN ReadWord(read, word) ELSE ReadText(read, word)

DoOcr(provider, words) ==
  FoldLeft(LAMBDA read, word : ReadOne(provider, read, word), <<>>, Offered(provider, words))

(* options::parse: each of these ends the program with a failure.          *)
Parsed(obstacle) == obstacle \notin {"arguments", "help", "image_missing", "data_missing"}

LoadFrame(obstacle) == obstacle # "image_unreadable"

(* Two decimal places, rounded down.                                       *)
Truncated(confidence) == (confidence \div 10) * 10

(* Mutant: the whole percentage is all that is kept. *)
PrintJson_Coarse(entries) ==
  [entries |-> [i \in DOMAIN entries |-> [entries[i] EXCEPT !.confidence = (@ \div 1000) * 1000]]]

PrintJson(entries) ==
  [entries |-> [i \in DOMAIN entries |-> [entries[i] EXCEPT !.confidence = Truncated(@)]]]

(* The lines of the raw format; no reader is part of the repository.       *)
PrintRaw(entries) == [raw |-> entries]

(* What a failing run leaves in the file its output goes to.               *)
NoDocument == [nothing |-> <<>>]

(* main(): the exit code, and what was written to the standard output.     *)
OcrCli(provider, output, obstacle, words) ==
  IF Parsed(obstacle) /\ LoadFrame(obstacle) /\ obstacle \notin {"no_init", "not_recognized"}
  THEN [exit |-> "success",
        document |-> LET entries == DoOcr(provider, words) IN
                     IF output = "raw" THEN PrintRaw(entries) ELSE PrintJson(entries)]
  ELSE [exit |-> "failure", document |-> NoDocument]
-----------------------------------------------------------------------------
(* ocr-results-viewer: load_json, which throws where a field it needs is   *)
(* missing.                                                                *)
Readable(document) ==
  /\ "entries" \in DOMAIN document
  /\ \A i \in DOMAIN document.entries : {"text", "position"} \subseteq DOMAIN document.entries[i]

LoadJson(document) ==
  [i \in DOMAIN document.entries |-> LET entry == document.entries[i] IN
     [text |-> entry.text, position |-> entry.position,
      confidence |-> IF "confidence" \in DOMAIN entry THEN entry.confidence ELSE 100000]]
=============================================================================
