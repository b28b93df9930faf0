------------------------ MODULE MCScheduleOccurrence ------------------------
\* A small instance of ScheduleOccurrence: its bounds are in the configuration.
EXTENDS ScheduleOccurrence
=============================================================================
