---------------------------- MODULE MCUdrService ----------------------------
(* Configuration files for UdrService: a deployable one, and variants that *)
(* change what one startup step reads.                                     *)
EXTENDS UdrService

MCParsableLevels == {"debug", "info", "warn"}

Good == [version |-> "1.0.0", valid |-> TRUE, mongo |-> "up",
         scheme |-> "http", logger |-> "debug"]

MCFiles == {Good,
            [Good EXCEPT !.scheme = "https", !.logger = NoLogger],
            [Good EXCEPT !.scheme = "h2c"],
            [Good EXCEPT !.version = "0.9"],
            [Good EXCEPT !.valid = FALSE],
            [Good EXCEPT !.mongo = "down"],
            [Good EXCEPT !.logger = "verbose"],
            Unreadable}
=============================================================================
