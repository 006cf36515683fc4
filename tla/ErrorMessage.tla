---------------------------- MODULE ErrorMessage ----------------------------
(***************************************************************************)
(* Error.h and Error.cpp: the files of which messages are shown, and the   *)
(* arithmetic of a message.  A line that getline returns has no '\n', so   *)
(* that a file is one line and start and end of an error lie on it.        *)
(***************************************************************************)
EXTENDS Integers, Sequences

(* FileManager: all lines come from "<STDIN>"; a further one is put behind  *)
(* the text of the first file.                                             *)
add_line(files, line) ==
  IF files = <<>> THEN <<line>> ELSE [files EXCEPT ![1] = @ \o line]

Thrown(exception) == [thrown |-> exception, shown |-> <<>>, from |-> 0, to |-> 0]

(* The line, and the columns from .. to - 1 that are underlined.  substr(1) *)
(* throws for an empty line, and a string cannot have a negative length.   *)
get_error_preview(text, start_pos, end_pos) ==
  IF text = <<>> THEN Thrown("out_of_range")
  ELSE IF end_pos.column < start_pos.column THEN Thrown("length_error")
  ELSE [thrown |-> "none", shown |-> text,
        from |-> start_pos.column, to |-> end_pos.column]

NoMessage == [thrown |-> "none", shown |-> <<>>, from |-> 0, to |-> 0]

generate_message(files, start_pos, end_pos) ==
  get_error_preview(files[1], start_pos, end_pos)
=============================================================================
