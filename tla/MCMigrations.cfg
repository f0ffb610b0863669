SPECIFICATION MigrationsSpec
CONSTANTS
  r1 = r1  r2 = r2  r3 = r3
  Runners = {r1, r2, r3}
  Contents <- MCContents
  Releases <- MCReleases
  Makes <- MCMakes
  Rerunnable <- MCRerunnable
SYMMETRY Symmetry
INVARIANTS RecordedAsRun EarlierFilesFirst CompleteIsWhole
