----------------------------- MODULE MCMigrate -----------------------------
(* Small instances of Migrate for TLC.                                     *)
EXTENDS MigrateProperties, TLC

CONSTANTS s1, s2, s3, s4, s5

\* An empty segment, one of two lines around a comment, a final newline, an
\* open last segment, and releases that replace the final empty line: by the
\* next segment, and by SQL where the record is when it was executed.
MCReleases ==
  << <<Marker, s1, Dropped, s2, Marker, Dropped>>,
     <<Marker, s1, Dropped, s2, Marker, s3, Dropped>>,
     <<Marker, s1, Dropped, s2, Marker, s3, s4, Marker, s5>> >>

MCSql == {s1, s2, s3, s4, s5}
=============================================================================
